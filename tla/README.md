# TLA+ verification of MNCS

MNCS is a verification-native language written in Rust, with a standard library
written in MNCS itself.  This directory holds TLA+ models of two kinds of part.
The first depend on order: threads that share a process runtime, processes that
share a cache, host workers that share executor state, producers and a consumer
around a channel, system calls that race another process in a directory tree, a
cache that must never change what the compiler answers.  The second make and
execute a program: parser, elaborator, validator, the reference engine, the SSA engine and the four
realizations of the same module, which must give one answer.  Each model is
translated from the source it names; `PROJECT.json` maps every definition to its
lines.

Contents: 1 inventory, 2 the modules, 3 runs and what they show, 4 disagreements
between code and documentation, 5 what is proved, 6 what is only model-checked,
7 what is not modelled, 8 plan, 9 how to run it.

## 1. The system and its parts

How the parts meet.  The compiler (`mncs-syntax`, `mncs-compiler`, `mncs-model`)
turns source text into a semantic model whose functions have *bodies*, validates
them, and lowers them to SSA; a *source parse cache* avoids parsing again.  A
*reference engine* executes bodies, a second engine executes SSA, and the
realizations (`mncs-codegen`: Cranelift, LLVM, C11, WebAssembly) are held against
both.  The embedding API (`mncs-embed`) loads a compiled artifact, opens
*sessions*, runs many calls in a *task scope* on host threads, and gives programs
host capabilities through providers: a *one-shot bounded process*, an *owned
process runtime*, *filesystem resources* and so on.  The command line admits
native applications through the *compiled-artifact cache*, which many processes
share.  The standard library's *channel*, *task* and *scope* are contracts for
such hosts.

### Parts with a model

| Part | State it keeps | Operations | Interaction | What is hard | What makes it correct |
| --- | --- | --- | --- | --- | --- |
| Owned process runtime, `mncs-model/src/process_runtime.rs` | active and registry slot counters, registry, per-process flags, terminal observation | `start`, `observe`, `request_cancel`, `reap`, `wait`, `Drop` | client threads; systemd unit, launcher child, stream threads | one lock per field, nothing across them; provider calls fail or come late; deadlines, grace, eviction | counters equal their holders; "cleanup complete" means no tree; one terminal observation; cancel, wait and Drop end |
| Compiled-artifact cache, `mncs-embed/src/cache.rs`, admission in `mncs-cli/src/main.rs` | directory tree of entries, pending directories, lock file | `load`, `store` (reap, prune, publish), admission | processes, through the file system only | kills and failing calls between any two file operations; eviction against readers; hard-linked payloads; entries of an older format | atomic publication; a hit is what was stored; concurrent admissions succeed; limits |
| Embed task scope, `mncs-embed/src/scope.rs` | cancelled/closed flags, cleanup counter, outputs | `open`, `cancel`, `close`, `run_batch`, `run_concurrent` | host threads, one session each | flags change while workers run; rounding of chunks | complete merge by index; bounded lateness; runs return |
| One-shot bounded process, `mncs-model/src/process.rs` | child, two pipes, captures, deadline | `run_bounded` | child, descendants, reader and stdin threads | exit, output and deadline race; full pipes; heirs of the pipes; failing reads | exact bounded capture, child reaped, call returns |
| Channel, `library/std/channel.mncs` | ring of 8 cells, counts, `closed` | `new`, `send`, `recv`, `producer_done`, `close` | producers, owner and consumer loops of the host | refused sends are retried; close against late producers | FIFO without loss; close is final, drains and waits |
| Source parse cache, `mncs-compiler/src/source_parse_cache.rs` | entries with their sizes, persisted and restored | `parse`, restore | lexer, parser, rebasing of locations | entries from other versions, damaged or doubled; two sequences kept in step | transparency; limits |
| Filesystem resources, `mncs-model/src/fs_resource.rs` | none of its own: every call walks the root again | `fs_snapshot`, `fs_realize`, `fs_mutate` | the tree under a granted root, shared with other processes | an index is stale when it is used; links put in place of files; writes that stop half way; loss of power | the tree stays a tree; an acknowledged barrier holds as far as it reaches; intent answers what realization would |
| Parser and front end, `mncs-syntax/src/source.rs`, `mncs-compiler/src/frontend.rs` | position, closers owed and nesting; blocks, scopes and diagnostics of a function | `Parser::document`, elaboration of a module | reads a source, hands bodies to validation | `>>` that closes two lists; operands inferred by elaborating them and taking the operations back; orders of evaluation; copies of generic functions | nothing accepted is lost; precedence; accepted bodies are valid and mean what the tree means |
| Bodies and their validation, `mncs-model/src/body.rs` | none | `FunctionBody::validate` | front end, both engines | what validation must establish so that execution needs no check | a validated body runs into no operand of a wrong kind and lowers |
| Reference engine, `mncs-model/src/execution.rs` | frames, step counts, effects, the host's services | `execute`, host calls | host grants, policy, providers | budgets across calls, trusted arguments, effects of callees | one answer within the budget, declared effects only |
| SSA and its engine, `mncs-model/src/ssa.rs`, `ssa_execution.rs` | frames with the slots marked validated, one step count | `lower_body`, `execute_prepared_function` | as above | checks that were dropped because a mark says they are not needed | the same answer as the reference engine; marks are true |
| Realizations, `mncs-codegen/src/{scalar,cranelift_backend,llvm,c11,lower,wasm,composite,support}.rs` | arena of cells, failure flags, depth, fuel | lowering, marshalling, execution | the host call that passes arguments and reads results | widths, signs and traps at each edge; cells given back while they are still held | the same answer as the SSA engine |

### Parts without a model

`PROJECT.json` lists all of them with sources and reasons.  In the plan (section
8): the JIT session around a call (`cranelift_backend.rs`), std task and scope, execution
authority, evidence, refinement proposals and backend promises, verification
facts, proof admission and transport, provider admission, module resolution,
termination, sort and store of the standard library.  Not in the plan, because
they are conversions of one value whose data is what matters, or pure input and
output: the lexer, semantic identities and hashing, translation check, conformance
tooling, command line, character-level library modules (JSON, SHA-256, text).

## 2. The modules

| Module | Role |
| --- | --- |
| `ProcessRuntime`; `ProcessRuntimeProofs` | owned process runtime with its environment; proofs about its counters and about its terminal observations |
| `LossyCache` | abstract cache: what a client may rely on |
| `ArtifactCache`; `ArtifactCacheProofs` | the on-disk cache, which implements `LossyCache`; proofs for any lock scopes and for one lock per directory |
| `TaskScope`; `TaskScopeProofs` | the task scope and its worker threads, and its proofs |
| `BoundedProcess`; `BoundedProcessProofs` | `run_bounded`, and its proofs |
| `StdChannel`; `StdChannelProofs` | the channel with its host loops, and its proofs |
| `SourceParseCache`; `SourceParseCacheProofs` | the parse cache, and its proofs |
| `FsResource`; `FsResourceProofs` | filesystem calls in a shared tree, and its proofs |
| `MachineIntegers`; `MachineIntegersProofs` | integers of declared width, and proofs about them |
| `SourceParser` | the parser, from words to the abstract tree |
| `BodyBuilder`, `Elaborator`, `ModuleElaborator` | the state of an elaboration; expressions; statements, functions and the module |
| `FrontEnd` | composes parser, elaborator, validation and the reference engine on one source, beside a meaning read off the tree |
| `Values`, `BodyModel` | types, values and the boundary of a call; bodies and their validation |
| `BodyOperations`, `HostCalls`, `BodyExecution` | the reference engine: operations, host calls, frames |
| `SsaLowering`, `SsaOperations`, `SsaExecution` | SSA, its verifier and its engine |
| `Engines` | composes the two engines on one request |
| `ScalarLowering`, `Marshalling` | the scalar form of the native realizations, and values at the boundary of a native call |
| `NativeOperations`, `NativeExecution` | what Cranelift, LLVM and C11 code computes, and a call of it |
| `WasmOperations`, `WasmExecution` | the same for WebAssembly |
| `Backends` | composes the SSA engine with one realization on one request |
| `MC*` | symmetry sets, program corpora and the values of function-valued constants, for TLC |

Names follow the source (`active_slots`, `reserve_registry_slot` becomes
`ReserveRegistrySlot`, and so on).  A definition whose name ends in
`_<Something>` is a mutant: a plausible mistake in the definition it precedes,
used only to show that a property can fail.

### 2.1 ProcessRuntime

State.  `active_slots`, `registry_slots` are the two atomics; `executions` the keys
of the registry and `registry_lock` the holder of its mutex when it is held over
several steps; `stage`, `proc`, `finalized`, `slot_released` the fields of
`ManagedProcess`; `pc`, `new`, `cur`, `snap`, `loc` the locals of the running calls.
`sys` is external: the unit, its result, the launcher child and the streams.

Actions.  Every shared read or write another thread can come between is a step.
`start`: `ReserveSlot`, `SnapshotExecutions` and `SweepNext` (the sweep observes
each registered process), `LockRegistry`, `EvictCompleted` / `RegistryFull` /
`ReserveRegistrySlot`, `Spawn` / `SpawnFails`, `ProviderReady` / `ProviderNotReady`
(which cancels and observes in a loop), `InsertExecution`; the failing paths give
back what they reserved, in the code's order (`GiveUpRegistrySlot`, `GiveUpSlot`).
`observe_managed`: `ObserveEntry`, `ReadProperties`, `ReadCgroup`, `TryWait` / `TryWaitFails`,
`CheckOutput`, `Classify`, `DecideStatus`, `Seal`, `PublishFinal`, `ReleaseSlot`.
`observe` adds `CheckDeadline`, `CancelCheck`, `CancelMark`, `Escalate`; `wait` and
`reap` loop with `ObserveAgain` until `StopWaiting`; Drop is `DropBegin` ...
`DropEnd`.  Environment: `UnitStarts`, `UnitRefused`, `UnitDies`, `LauncherExits`,
`LauncherLost`, `UnitCollected`, `LimitHit`, `OutputOverflows`, `DeadlinePasses`,
`GraceElapses`, `BoundPasses`.  The constants `Operations` and `Events` choose what a
run exercises; together the runs fire every action.

Time is not counted: that a deadline, a grace period or a loop bound has passed is
an event.  Every order of such events against thread steps is therefore explored,
more than real clocks allow.

Fairness (`FairSpec`): a running thread is scheduled (`WF ThreadStep`); time passes
(`WF` of `GraceElapses` and `DeadlinePasses`, `SF` of `BoundPasses`, which the model allows
only where the bound is read); a unit that was accepted starts, a tree that
received SIGKILL ends and its launcher exits (`WF`; the kernel and systemd).  Provider
calls may fail for ever: `CallsReturn` holds all the same.  `CancelCompletes` states two hypotheses
of its own: of repeated queries and signals not all are lost (`ProviderAnswers`), and the
client observes again (`PollingClient`), which cancellation needs because nothing else
drives it (`request_cancel` signals once).

Two events are never combined in a run: a unit that is slow to start ("grace") and
a launcher that somebody else kills ("lost").  Together they defeat the cleanup
verdict: an observer reads the unit as absent, the unit starts, its launcher is
killed, and the observer finds the launcher gone and an empty cgroup path.  The launcher is a
child of the runtime that only the runtime signals, so this takes an outside
intervention within the start grace.

### 2.2 LossyCache and ArtifactCache

`LossyCache` is a map from slots to artifacts with three kinds of step: bind a free
slot, lose a binding, answer a lookup with the present binding or nothing.  It
says a binding is never replaced in place and a lookup is atomic.

`ArtifactCache`: `env` gives each process its cache root and whether the storage root is
set (`RootOf`, `Scope`); it is chosen once from `Environments`.  `dirs` is the tree (for each slot a directory with `record.json` and
`artifact.json`), pending directories are kept per writer, payload files have an
inode-like id so that hard links can be told from copies.  `l` holds each process's
position; the file lock is derived from positions because the operating system
releases it when its holder returns or dies.  `BeginLoad`, `LoadLock`, `LoadRecord`,
`LoadPayload` are `load`; `StoreLock`, `Reap`, `Scan`, `PruneEvict`, `RemoveFile`,
`RemoveDirectory`, `Check`, `CreatePending`, `WritePayload`, `WriteRecord`, `Rename`
and the second prune are `store`.  An admission is a load, and on a miss a compile
and a store, as in `main.rs`.  `Kill` may come between any two steps, `IoError` makes
a file operation fail.  Identities and digests are abstracted to the artifact they
identify, since SHA-256 collisions are outside the claim; the size arithmetic of
pruning is kept.

Nothing is said of progress: no fairness is assumed.  `SharedScope` (in
`ArtifactCacheProofs`) names the assumption that two processes that work in one
directory lock the same file for it, which fails when only one of them has the storage
root set.

### 2.3 TaskScope

`cancelled`, `closed`, `cleanups` are the scope's atomics.  A run is validated,
chunked (`ChunkLen`, `Base`, `PieceLen` carry the code's rounding), its workers are
spawned, work, are joined, and `Finish` sorts and folds the outputs.  A worker opens
its session (which may be refused), then for each item reads the flags
(`CheckItem`), calls (`CallStart`) and records (`CallEnd`).  The code reads `cancelled`
and then `closed`; both only ever go from false to true, so reading one after
the other gives a result one atomic read could have given, and the model reads
them in one step.  A call is opaque and ends with a status.

Fairness: `WF` of runs and workers: threads are scheduled, and a call ends because
execution has a step budget.

### 2.4 The front end

`SourceParser` is `Parser::document` and the productions below it.  A production is a
sequence of steps named after the parser's method; `Run` carries them out on the
parser's state (position, closers owed by a `>>`, nesting).  A source is a
sequence of words under the profile of its envelope.  The model stops at the first error; the
parser reports it and goes on, to report more, but the tree of a source with an error is dropped.

The elaborator goes over the tree with one state, `s` of `BodyBuilder`: blocks, scopes, diagnostics, and
in `s.v` what the last expression produced.  `E` has an operator for each form of
expression; `ModuleElaborator` adds statements, functions, contracts, nominal types and the copies
of generic functions.  Most wrong types are diagnosed and the value is used all the same,
as in the code, where the diagnostic is what keeps the body from running.

`FrontEnd` has three kinds of step: `Read` (parse one text of a source), `Elaborate` (to a program, a
request and the verdict of `ValidProgram`), `Run` (`BodyNext` of the reference engine).  `meant` is what the tree means
to the request, computed by a reference definition in the same module: environments and
values, without blocks, operations or value numbers.

### 2.5 BoundedProcess

The child and one descendant that inherited the pipes (`heir`) write to pipes of
finite capacity; a reader per stream takes chunks and keeps them up to the limit;
the caller polls (`PollExited`, `PollExpired`), waits, and joins the readers.  A read may fail
at any moment, an interrupted one included, because `Read::read` does not try again
(`ReadFails`); the reader then ends as at the end of file, and a child that writes to the closed pipe
is killed by it (`BrokenPipe`).  `failed` records it for the properties, since the code does not.
Output is counted in units, because only amounts matter to capture and truncation.

Fairness: `WF` of the clock, of the readers and of the caller.  None is assumed of
the child or its descendant.

### 2.6 StdChannel

`ch` is the `Channel` value of `channel.mncs`; `New`, `Send`, `Recv`, `ProducerDone`,
`CloseChannel` are its functions.  `recv` shifts the buffer in place cell by cell; each
cell is written after its right neighbour was read, so the fold gives the old
buffer shifted by one, which `Shifted` says directly.  The callers the contract is written
for are environment: a producer sends, retries when refused, may be cancelled and
reports once (`Repeat` reports again, only for producers in `Repeats`); the owner
keeps trying to close; the consumer receives until it sees the close.
`accepted` and `received` are history variables.

Fairness: `WF` of the owner's and the consumer's loops and of each producer's
report, as the loops of the contract keep being called.  Sends need none.

### 2.7 SourceParseCache

`parse()` is three actions: `ReuseExact`, `ReuseTokens`, `ParseFresh`, each with the
opening of the call (schema check, trimming), the rejections it made on the way,
promotion or publication, trimming, and what the call answered.  `Restart` drops the
unpersisted sizes, `Upgrade` changes the parser version (policy, registry and
schemas together are one version), `Damage` changes one field of one entry and
`Duplicate` doubles one.  Each entry is damaged at most once (`damaged`, a history
field): an entry states its key's parts twice, and two losses that agree with each
other make another entry of it.  What texts lex and parse to, and between which
texts locations can be rebased, are constants.  `ConstantsAssumption` says of them what the
cache takes for granted of the parser: it sees the significant tokens only
(`source.rs:1689`, with the tokens filtered at `:1558-1645`), and rebasing relates texts of equal
significant tokens.

### 2.8 FsResource

A program names no paths.  Each call walks the root, sorts the entries and addresses
one by its index in that listing.  `tree` and `data` are what the kernel shows,
`dtree` and `ddata` what the medium holds; `c` is the call under way with its listing
(`snap`), resolved path and open file, `memo` the index the program remembers,
`barrier` the synced content and names that nobody changed since.  A record of it is `firm` if the
directories between the root's own entries and the file's directory (`Between`), whose names the barrier
does not sync, were on the medium when it was acknowledged.

`Begin` and `WalkDir` are `fs_snapshot`; `SelectName`, `SelectEntry`, `Resolve`,
`Measure`, `Open`, `ReadFile`, `WriteFile`, `SyncFile`, `SyncDirs`, `Probe`, `Make`,
`Verify`, `LooksEmpty`, `Remove`, `Destination`, `Move` and `Report` are the system
calls of `fs_realize` and `fs_mutate` in their order, with the checks between them.
A walk reads one directory in a step (readdir, which gives path and kind), and other
steps come between one directory and the next, in the order of the code's stack.  The sizes and times
that a stat adds to each entry, and the generation digested from them, are left out: no check of a
later step reads them.  A write may fail after any part of its bytes.
Between any two steps the other process may create, remove, move or truncate an entry or replace a
file by a link (`Other...`), and `PowerLoss` keeps, of what was not synced, any part.  Paths are
of any length, and the paths of an instance are closed under taking directories.

### 2.9 The executors

An integer keeps the width it is declared with; the engine's own width, 128 bits,
is the parameter `HostBits`.  `Values` holds what the two engines ask of a value at a
boundary: `MatchesType`, normalisation, conversion and the contract of finites and
records.  A program of `BodyModel` is a sequence of functions; `ValidProgram` is
`FunctionBody::validate`: dominance (`Dominates`), definitions, one operator per arm
of `validate_operation`, terminators, bounded iterations, effect closure.

`BodyExecution` is the reference engine.  Its frames are the recursion of the code;
an action executes one operation, one terminator, one call or one return
(`BodyNext`), with the checks in the order the code makes them, because the order
decides which failure is reported.  `HostCalls` holds the arms of host operations: a
request carries an effect policy, grants and perhaps a provider, and the environment
says whether a granted resource answers, refuses or fails.  `SsaLowering` is
`lower_body` and the verifier of SSA, `SsaExecution` the second engine, whose frames
remember which values are `validated` and pass those on unchecked.  `Engines`
takes a program and a request and runs both; `BodyNext` and `SsaNext` are
deterministic but for the host's answers.  Nothing is said of progress.  Where the
guards of a `CASE` overlap the first arm is meant, as in the `match` it stands for.

### 2.10 The realizations

`ScalarLowering` has one operator per arm of `lower_instruction`: every value becomes
a word, aggregates become cells of slots.  `NativeOperations` says, per target, what
the emitted code computes on bit patterns of the width the target keeps a value in.
`NativeExecution` runs emitted functions with an arena (a bump allocator), failure
flags and depth; after a call Cranelift copies the result out and gives back the
callee's cells.  `Marshalling` checks arguments, writes the image and reads the
result.  `WasmOperations` and `WasmExecution` start from SSA instead; a loop region
gives back at each back edge what the last round allocated, after copying what is
still live.

`Backends` runs the SSA engine and then one realization.  `strayed` is a history
variable: it becomes true when the run executes an instruction on operands for which
the emitted code is known to differ (`Strays`, `WasmStrays` and their parts, each one
sentence and one guard; section 4 lists them).  Agreement is claimed for
all other runs.

Scale.  A slot of 64 bits is 12 bits here and a word of 32 is 6, bytes are 2 bits
wide, the host's 128 bits are 24.  Fuel of WebAssembly is counted in SSA
instructions (`WasmStepsPerBudget` for 32 opcodes per budget unit).  Packed bytes
occupy one half-word each.

## 3. Runs and what they show

There is one passing run per component or composition (two for the process runtime), and one run
with expected result "violation" (section 4).  For each property of a passing run there
is a mutant of the code's model on which TLC finds that property violated.
`CHECK_DEADLOCK FALSE` stands where a finite budget of tokens, requests, calls or
items lets the model stop; it is not used for the parse cache, which can always be
called again.

| Run | Shows | Bounds, and why they are enough |
| --- | --- | --- |
| `pr_race` | `SlotAccounting`, `RegistryAccounting`, `CleanupIsReal`, `TerminalSettles` while two threads start, observe and evict, and spawns, random ids, units, queries and waits fail | 2 threads, 2 executions, registry of 1: the smallest where an eviction races a start in flight.  All four are proved, for any number of threads |
| `pr_alone` | `CancelCompletes`, `CallsReturn` for one thread through all six operations | 1 execution; deadline, overflow, exit, lost signals, failing queries and a killed launcher in any order.  A failing `try_wait` is left to `pr_race` and the proofs: it ends the call at once, and makes the graph too large for the check of liveness |
| `cache` | `WrecksComeFromEvictions`, `LoadReturnsWhatWasStored`, `ConcurrentAdmissionsSucceed`, `StoreLeavesCacheBounded`, `ImplementsLossyCache` (refinement) | 2 processes in one root, or in two roots of one storage root; 2 entries of 3 or 4 bytes in 6, so both limits bind; 3 requests: one leaves an entry, one evicts it, one meets the result; clock 0..1 with a maximal age of 0: fresh and expired; an entry of the older format; a key with an unstable build; kills and failing calls anywhere, evictions included.  States that differ only in locals a process no longer reads are one (the VIEW `Forgetful`).  All five are proved |
| `scope` | `MergeIsByIndex`, `AtMostOneLateCall`, `RunsReturn` | a run of 0, 1 or 3 items on 2 workers (a short last chunk) beside a run of 1, both concurrent or batched; sessions may be refused; cancel and close at any moment.  The first two are proved |
| `process` | `CaptureIsExact`, `ChildIsReaped`, `CallReturns` | limit 1, pipe 1, output up to 3 on two streams: nothing, exactly the limit, and more than limit and pipe together; a descendant that may keep the pipes; reads that fail at any moment.  The first two are proved |
| `channel` | `FifoWindow`, `CloseMeansDrained`, `CloseWaitsForProducers` | 3 producers of 2 items, capacity 2 of 3 cells, one report repeated.  All three are proved |
| `parse` | `Transparent`, `WithinLimits` | five envelopes: one, an alias, a comment-only edit, another profile (not sealed), a text that does not parse; two versions; one damage or duplication, because the checks of an entry do not depend on other entries; sizes 1, 2 and 3 within 4 bytes, so that either limit can bind first.  Both are proved, for any number of damages |
| `fs` | `NoEntryIsOrphaned`, `BarrierIsDurable`, `IntentIsExact` | seven paths in three levels, so that a file has a directory which neither the root nor its parent holds, one with a name too long to be listed; two calls, one step of the other process, one loss of power: two calls, because the second uses an index of the first.  All three are proved, for paths of any length |
| `frontend` | `AcceptedIsWhole`, `GroupsByPrecedence`, `ElaboratedBodiesAreValid`, `MeaningIsPreserved` | twenty sources that between them use each form of the language, each as it is and with any word dropped, moved or said twice or an operator exchanged, so that both acceptance and refusal occur at every place; every pair of operators between three names, held against all ten levels of the code; arguments at the edges of each type, both policies, a grant that fails |
| `engines` | `EnginesAgree`, `ValidatedBodiesLower`, `MarkedValuesMatch`, `BudgetBoundsTheWholeRun`, `ReportedEffectsAreDeclared`, `FastPathIsGeneral`, `TypesAreSound` | a program for every operation, intent and host call, every graph of three blocks that validates, and named programs for calls, recursion, nested loops and undeclared cycles; every argument of 2-bit integers (all four values of a type), edge values of the others; budgets that end before, at and after each call; all policies and grants |
| `backends` | `BackendsAgree`, `ArgumentsSurvive`, `HeldCellsAreAllocated`, `EmittedCallsLink` | each operation at the edges (least, greatest, around zero) of six integer types; calls that return each kind of aggregate, loops that allocate, views, recursion up to the depth limit; an arena that some programs exhaust |
| `backends_call_regions` | violation of `CallRegionsPreserveResults` | the programs that return a vector |

What the less obvious ones mean.  `CleanupIsReal`: unit, cgroup and launcher are sampled
at different times, yet "cleanup complete" is published only for an ended tree.
`TerminalSettles`: a published terminal observation is replaced only by an observer that was already
past the entry check when it was published, so once those have left it is final.
`WrecksComeFromEvictions`: an addressable directory that lacks a file, with nobody at work in it, comes
only from a removal that was cut short, by a kill or a failing call, never from a publication.
`ConcurrentAdmissionsSucceed`: processes that miss together, publish together and evict each
other's entries get no conflict, corrupt or stale result; excepted are keys of unstable builds and keys whose
directory is such a wreck.  `CaptureIsExact`: all the output up to the limit, and the mark exactly when
there was more; a reader whose read failed may have less and no mark, and never has more.  `AtMostOneLateCall`: after cancel or
close a worker begins at most the call it had decided on.  `CallReturns`: the call returns,
unless a descendant keeps the pipes for ever.  `CloseWaitsForProducers`: a closed channel
shuts out at most one producer per unregistered producer and per repeated
report.  `Transparent`: every answer of the cache is what the running parser gives.
`WithinLimits`: what is kept after a call is within both limits by its own sizes, not by the remembered ones.
`BarrierIsDurable`: what `fs_sync_at` acknowledged, bytes and name, survives a loss of
power until somebody changes it, if the directories between, which it does not sync, had reached the medium
before; without that condition TLC finds it violated (section 4).  `MarkedValuesMatch`: a value the SSA engine passes on
unchecked has the type its slot declares.  `BudgetBoundsTheWholeRun`: no chain of
calls spends more than the request's budget.  `AcceptedIsWhole`: the words of an accepted source,
without the marks that only separate, are those of its tree, in order.  `MeaningIsPreserved`: the
engine ends as the tree means, with its value, its declared effects and its acts on the
host, whenever the budget is enough.  `HeldCellsAreAllocated`: a frame's
aggregates lie in what is allocated, whatever a callee or a loop gave back.

`EnginesAgree` has premises, each a sentence in `Engines`: the program is validated, no call
leaves it, blocks are listed after those that dominate them (as the front end lists
them), arguments are canonical, no operation is one of the two host calls that may
deliver more than they declare, and lifecycle calls have a session.  Section 4 says what
happens without each.

## 4. Disagreements between the code and what it says of itself

One is a run with expected result "violation"; TLC prints the shortest trace:
`backends_call_regions`.  Cranelift copies a vector of narrow lanes that a callee returns
with the WebAssembly lowering's stride of four bytes (`lower.rs:383`), although the
scalar lowering stores lanes eight bytes apart (`scalar.rs:1195`), so half of the vector
is lost; the comment at `cranelift_backend.rs:4258` says a result that escapes is preserved.

The following show in the same models.  Those marked * were found with a run that the
project no longer keeps, by the property and the setting named.

Order and failure:

* An expired process nobody cancelled can be published as Cancelled (`process_runtime.rs:862`)*,
  with two threads and a deadline.
* A second observer that passed the entry check replaces the published terminal observation
  (`process_runtime.rs:885`), so that two callers may be told of different ends of one process*: by
  the claim that a published terminal observation never changes, with two threads and the operations "observe" and
  "cancel".  `TerminalSettles` is what does hold.
* The registry sweep finalizes an expired process as TimedOut with `deadline_exceeded` false
  (`:464`, `:916`), because only `observe` sets the flag; the test at `:1239` expects both.
* Drop joins the stream threads of a tree that survived (`:513`): `CallsReturn` with the
  event "stuck_io".
* A writer killed inside `remove_dir_all` leaves an addressable half entry (`cache.rs:445`), against
  the comment at `cache.rs:349-351`: "A killed writer leaves only an unaddressable pending directory".  The wreck
  blocks its key for good: a load misses or reports `cache_corrupt`, a store reports `cache_conflict`, and no
  prune recognizes it as an entry.  The run `cache` contains it; `WrecksComeFromEvictions` and
  `ConcurrentAdmissionsSucceed` confine it.
* A read that fails ends the capture of `run_bounded` (`process.rs:234`) with less than the output and
  without the truncation flag of `process.rs:107-108`; the result does not tell.  An interrupted read is such a failure.
  `CaptureIsExact` names it.
* The barrier of `fs_sync_at` covers "file bytes plus containing-directory and root edges"
  (`docs/source-profile-0.16.md:66`), and the code syncs parent and root only (`fs_resource.rs:1136-1155`): for
  a file three or more levels down, a directory between whose own name has not reached the medium
  takes the acknowledged file with it at a power loss*, by `BarrierIsDurable` without `firm`.  The same document says at `:124` that
  survival must never be inferred from a receipt alone.
* Processes with and without the storage root lock different files for one cache
  root (`cache.rs:368`), so that an eviction can come between a reader's two reads.  What a
  lookup answers is right all the same (`LoadsWhatWasStored` needs no assumption on locks).
* Close between a worker's check and its call lets pending work run after close
  (`scope.rs:310`)*; `AtMostOneLateCall` is what does hold.
* A call in flight at `cancel()` still publishes success (`scope.rs:313`), which the
  contract in `std/scope.mncs:25-28` excludes and the comment at `scope.rs:153` allows.
* Two sessions share one arena (`cranelift_backend.rs:4808`)*, by a model of two threads on the
  session's globals.
* A descendant that inherited the pipes holds `run_bounded` past its deadline
  (`process.rs:196`); `CallReturns` names it as the exception.
* A producer's report delivered twice stands for another's (`channel.mncs:101`);
  `CloseWaitsForProducers` counts it.
* A call whose index went stale between two of its system calls may carry out its
  effect and answer without a value, or with the value of another entry
  (`fs_resource.rs:594`)*.
* The comment at `fs_resource.rs:616-619` promises an exact index to intents; for the
  renaming of a directory the listing of its children moves too, so `IntentIsExact` is
  stated of creations and of files.

Front end:

* The comment at `source.rs:5432-5433` says bitwise operators bind tighter than equality, and the one at
  `:5443-5444` that shifts bind tighter than addition; by the levels beside them `a | b == c` is
  `a | (b == c)` and `a << b + c` is `a << (b + c)`.  `GroupsByPrecedence` is stated of the code's levels, all
  ten of them; `docs/source-profile-0.6.md:83` documents the six others, and `docs/source-profile-0.7.md` gives none for
  the operators it adds.
* `structured_read_identity` has to be declared twice: the elaborator asks for an effect of kind
  `structured_read_identity` (`frontend.rs:7731`), validation for one of kind `structured_read`
  (`body.rs:1123`).
* The parser accepts a source in which a `>>` left one closer over outside a generic list;
  `AcceptedIsWhole` is stated of the others.

Executors:

* The SSA engine checks a finite value's discriminant only at the top level of an argument.
* A comment near `ssa_execution.rs:1530` says results match their declared types; `blob_read`
  may deliver more bytes than declared.
* Without a session the reference engine calls lifecycle operations unsupported while the
  SSA engine answers with a value and an event.
* Validation accepts cycles with two entries that no bounded iteration declares, against
  `docs/source-profile-0.4.md:21` and the comment at `body.rs:1515`*.
* Validation does not look at several things execution then meets: bool as the target of a
  conversion, the operand of a sequence length, u1 operands given as Booleans, constants
  out of range, non-wrapping bitwise lanes, host call types, the effect closure of
  capabilities of a host call's target.
* A body whose entry block is not listed first validates and lowers with the first block as
  its entry; calls of functions without a body end differently in the two engines.
* For shift counts that are no value of the shifted type the engines fail (`execution.rs:8668`); the
  comment at `body.rs:1754-1756` and `docs/source-profile-0.7.md:145` say modulo the width, which
  the realizations do.  The wrapping fast path and the general evaluator differ for wide types
  (`execution.rs:8708`, `machine_intent.rs:117`), but in left shifts only; `FastPathIsGeneral` is stated of those up to half the host's width.

Realizations against the engines (the list is `Strays` and `WasmStrays`):

* A saturating division by zero clamps in the reference and fails everywhere else; MIN / -1,
  wrapping or saturating, fails on the native realizations; WebAssembly guards MIN / -1 at the
  width of the carrier instead of the type.
* A saturating unsigned difference below zero becomes the largest value on Cranelift, C11 and
  narrow WebAssembly.
* C11 keeps a masked narrow signed result without its sign, converts by a C cast, and takes a view's
  start above the signed range for one below zero.
* Cranelift converts a float to a float by reading its bit pattern as an unsigned integer
  (`cranelift_backend.rs:3430-3436`); validation admits the conversion and the engines take it for the identity.
* Cranelift does not restore the sign of a narrow element of a sequence (`cranelift_backend.rs:3714-3789`,
  against the comment at `:3339`).
* LLVM and C11 assign block parameters one by one, so a rotation of values loses one.
* A failed Cranelift allocation is the address `u64::MAX`, and a store to its second slot wraps
  around; the run then ends as exhausted.  An empty view read from an empty arena is an
  invalid request.
* WebAssembly's loop regions do not copy cells behind views that live on (`lower.rs:55-67`, `:188-190`).
* The native boundary refuses requests the engines take: arguments spelled by name inside
  aggregates; it skips the check for requests of scalars only.
* Native realizations ignore the step budget.

## 5. What is proved

TLAPS checks the proofs; they hold for every value of the constants that
satisfies the named assumptions, so for any number of threads, processes, executions,
producers, runs, paths and calls, and any limits.  Each module's header says why the
property is not inductive and what is added to it.

**ProcessRuntimeProofs** (assumption: positive limits, a finite set of tokens,
`NoToken` and `NoThread` outside).  `SlotsAccounted`: `active_slots` is the number of
executions that hold a slot.  `RegistryAccounted`: `registry_slots` is the number of
registry entries and starts that have reserved one, within its limit.  `TypeCorrect`.
Neither counting property is inductive: a step that decrements must know that
the token it acts for is among the holders and that no other thread acts for it.
`IndInv` adds to the types that a token being started belongs to one thread
(`NewOwners`) whose position fixes the token's stage (`StartStages`), that a token
under observation is managed (`CurManaged`), that continuations of nested calls
fit the outer call (`Continuations`), and what a managed token's fields exclude
(`Managed`).  `Accounting` then follows per action from the cardinality lemmas of
`FiniteSetTheorems` for adding and removing one element.

The second half of the module is about terminal observations.  `CleanupsAreReal`: a terminal observation is
published only for an ended tree and a reaped launcher.  What an observer read of the unit
and the launcher must still be true two steps later, when it acts on it; it is, because
launcher and unit of a started token only move one way (`Advances`).  `CleanupInv` says what each
thread has seen and that it is still so (`Evidence`), and one of two facts about the
provider: a published execution has begun (`StartsBegun`), or a launcher ends after its unit
(`LauncherLast`).  The first needs that no start is slow, the second that nobody else kills
launchers; the theorem assumes that not both happen (2.1), and with both TLC finds
`CleanupIsReal` violated.  `FinalizedAreReaped` needs no such assumption.
`TerminalsSettle`: for any number of threads a terminal observation is replaced only by a thread
that was past the entry check when it was published (`PastEntry`); with that the set of threads that could still replace it only
shrinks, and when it is empty the observation is final.

**ArtifactCacheProofs** (assumption: finite sets of processes, namespaces and keys, natural sizes).
`LoadsWhatWasStored`: a lookup answers with what was handed to `store()` for its slot, under all
faults and all lock scopes.  `OnlyEvictionsLeaveWrecks`: whatever fails and whoever dies, an addressable
directory that lacks a file is being removed by a live process, or became so in a removal that was cut short.  The tree must hold only what
was offered (`Contents`), which is a matter of what is renamed into it (`Publications`) and of
where a process works (`Positions`); `ChangeStep` lists every way in which a step changes the
tree.  That a fresh inode exists is a counting argument.

The second half of the module is under `SharedScope`, the assumption that processes in one
directory lock the same file.  `StoresLeaveCacheBounded`, `AdmissionsSucceed`, and `ImplementsMap`: the
refinement of `LossyCache`, step by step, where loads answer at the read of the payload, a
store binds at the rename and an eviction loses the binding at its first removal.  The invariant
says what a process may rely on under its lock: a reader's record is still there
(`Loading`), a pruner's list is what is in the tree (`Planned`), a publisher's slot is free and its pending
directory not reaped (`Clear`).  All three rest on one fact: a step writes only in the
scope of the lock its process holds.  `AdmissionsSucceed` also assumes
that an old-format entry is what was compiled for its key.  The bound on bytes is proved by taking the least set of entries that would violate it.

**TaskScopeProofs**.  `MergesByIndex`: a finished run reports every item once, in index order,
executed exactly when the report says so.  `LateCallsBounded`.  The invariant has the arithmetic of
the chunks (consecutive pieces meet, and the last one ends at the last item), that each worker has
emitted a prefix of its piece and called exactly the items its outputs name (`Piece`),
and that the joined pieces are a prefix of all items (`Merged`), so that the sort of `finish()`
finds nothing to move (`SortedStays`).

**FsResourceProofs** (assumption: the paths are closed under taking directories; they may be of any
length).  `TreeStaysATree`, `BarriersAreDurable`, `IntentsAreExact`, and `CallsAreResolved`: at every step of a
call its index names an entry of the listing it came from, whose path is below the root.  A barrier holds because the file's
bytes, its name and every directory above it are on the medium (`OnMedium`): the root's entries and the name because they are synced, those
between because the record is firm, and what the tree puts there is a directory since whatever lies above
an entry is one (`Whole`).  That a rename keeps it so is the longest part (`MovedIsWhole`): what moves keeps its
order, and a directory never moves below itself.  Where a call works is `GoodCall`; a walk lists each path once because
nothing listed is below a directory still to be read.  `IntentIsExact` holds of every tree without orphans.

**SourceParseCacheProofs** (assumptions: `ConstantsAssumption`, see 2.7).  `Transparency`: what `parse()` returns is what
the running parser returns, for any versions, envelopes, limits, damage and doubled entries.  `Limits`: after
every call the entries kept are within both limits (`WithinLimits`), the bytes
being counted by the entries' own sizes and not by the sizes the cache remembers.  `Transparent`
looks at an answer and not at the entries it came from.  The invariant (`IndInvHolds`) says what the file can hold: entries some
version wrote, and such entries with one field lost (`Good`).  Such an entry states profile and
version in two places and its tree by a digest too, so one whose statements agree is what was written, and
an entry that a lookup takes is genuine; the rest is that
rejecting, promoting, trimming and publishing select among entries, and that sizes are none or those of the entries beside them
(`Own`), through every such selection.  What is left after trimming is bounded because sums add up over concatenation.

**MachineIntegersProofs** (assumption: `HostIsWide`, a host at least two bits wider than a byte; the code's is 128).  For every width up
to two bits below the host's, every sign and all operands: `ArithmeticIsExact`, addition, subtraction
and multiplication give the exact result reduced modulo the width (wrapping), clamped (saturating), the
exact result or none (checked, trapping), and an admitted widening is always exact; the
host's own integers overflow on the way and it never shows.  `ResultsAreInRange`: every operator
under every intent gives nothing or a value of its type.  `FastPathIsTheGeneralOne`: the fast path for wrapping is the general evaluator,
left shifts above half the host's width excepted (section 4); the run `engines` checks the
same where programs execute.  `BytesStayBytes`.  The provers know nothing of 2^n, so `PowerCounts` takes
it as the number of subsets of 1..n, from which it follows that it grows, doubles, and
turns sums into products.  Wraps are compared through the uniqueness of division
(`Division`, `HostWrapIsInvisible`), bitwise results are bounded by a sum over digits (`BitwiseFits`).  The proof showed that two arms of
the `CASE` of `GeneralShift` overlapped; they do not any more.

**BoundedProcessProofs**.  `ExactCapture`: when the call returns, each stream's
capture is the output up to the limit, and truncation is set exactly when there
was more, unless a read of it failed, and then it is no more than that.  `ReapedChild`.  The strengthening is a conservation law (`Conserved`: written =
read + in the pipe, kept = read up to the limit), that a reader whose reads succeed ends only on an
empty pipe nobody holds (`EndIsFinal`), and that the caller returns only after
joining the readers (`JoinsReaders`) and waiting (`Reaps`).

**StdChannelProofs** (assumption: at least one cell, finitely many producers).  `Fifo`:
what was received followed by the buffer's live cells is what was accepted.
`Drained`: a consumer that saw the close has everything.  `CloseWaits`: a closed channel shuts
out at most one producer for each that was not registered or clamped away, and for
each repeated report; from it `NobodyShutOut`: with all registered and no
repetition, every producer has reported.  `Final`: a closed channel stays closed
and takes nothing more (an action property).  The invariant relates the ring to a window of the
history (`IndInv`) and the counter `done` to the sets of producers that reported and that
repeated (`Reports`); the second needs the first, because the counter's bound is part of the type.

## 6. What is only model-checked

* `CancelCompletes`, `CallsReturn`, `CallReturns`, `RunsReturn`: liveness under fairness,
  which is beyond the prover.
* All of `FrontEnd`, `Engines` and `Backends`.  Trees, values, types and programs nest, so the operators over them are
  recursive (`RECURSIVE`), which closes the module to the prover, and what they compute for every input would need induction over data.  The runs
  take every value of the small types and a corpus with every form and operation instead.  What is proved of
  `MachineIntegers` holds of the arithmetic inside them.

Recursive functions over numbers are not out of reach: sums over sequences and over digits are
handled by the least number at which a claim would fail (`NatLessThanWellFounded`, `WFMin`), which needs no
theorem with an operator parameter.

## 7. What is not modelled

Inside the modelled parts: contents of streams and messages; validation of
host requests (a guard without effect); logging and diagnostics; the bytes of paths,
digests and JSON; loss of unsynced writes of the artifact cache at a power failure; clocks that go
backwards; a worker that panics; how locations are rebased; the JIT session with its globals and its AOT fallback;
traces, observation recorders and profiling of the engines; generic parameters and spellings of type
names; links that replace directories in the file system, so that nothing is said of calls that such a link leads outside the root,
sizes, times and the generation of a listing, and renames whose subtree would leave the paths of the instance;
toolchains, linking, digests and the text protocol of driver processes; the binary encoding,
imports, exports and host buffers of WebAssembly.  Whole parts: section 1 and `PROJECT.json`.

Three hazards have no property: processes with and without a storage root in one tree (section 4; the
proofs exclude it by `SharedScope`), and a published entry that a power failure damages, because neither
file nor directory is synced before the rename (`cache.rs:348`), and flags and arena that a failed or
refused JIT call leaves to the next (`cranelift_backend.rs:4821`).

## 8. Plan

Next theorems: that a start which fails gives back all it reserved (process runtime), the
division and shift operators of `MachineIntegers` against their exact results (addition, subtraction and multiplication
are done), and the operators on finite types of `Values`, once recursion over types is a function
over a set of them.

Next modules, the most consequential first:

1. The front end over several modules: imports and the resolution of names across them, on top of the
   elaborator of one module that is modelled.
2. `StdTask` and `StdScope`, the lifecycle contracts; then `TaskScope` checked against
   them by a refinement mapping.
3. `ScopedJit`: the JIT session on its process-global arena, composed with `TaskScope`.
4. `Authority`: admission, attenuation along delegation, revocation and expiry.
5. `Evidence` with refinement proposals and backend promises: nothing is promoted or
   emitted on invalidated evidence.
6. `VerificationFacts`: reuse and invalidation along dependencies, against the
   reference of deriving everything again.
7. Proof admission and transport as a protocol; provider admission.
8. Pure algorithms against reference definitions over bounded inputs: module
   resolution, structural termination, `std/sort`, `std/store`.

## 9. How to run it

    tlc -workers 2 -config ProcessRuntimeRace.cfg MCProcessRuntime
    tlapm ProcessRuntimeProofs.tla

The module of each configuration is in `PROJECT.json` under "runs".  Every passing
run takes between a few seconds and five minutes; the largest proofs about six
minutes.
