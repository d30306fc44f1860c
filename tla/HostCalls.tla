------------------------------- MODULE HostCalls -------------------------------
(***************************************************************************)
(* The host calls of the reference engine (the HostCall arm of             *)
(* execute_operation in crates/mncs-model/src/execution.rs).               *)
(*                                                                         *)
(* A request carries an effect policy, the host's grants and, perhaps, an  *)
(* admitted provider.  What a granted resource answers is the request's    *)
(* environment: "ok", "invalid" (it refuses the call) or "fails" (it is    *)
(* reached and fails).  An act is something done outside the program, an   *)
(* event is what the result says of it; real means the event claims it was *)
(* realised.                                                               *)
(***************************************************************************)
EXTENDS BodyOperations

CONSTANTS MaxGrant   \* HOST_GRANT_MAX_BYTES

\* Lengths of digests (and keys, provider identities) and of signatures.
DigestLen == 1
SignatureLen == 2
ByteSeq(v) == v.k = "seq" /\ \A i \in DOMAIN v.vals : v.vals[i].k = "byte"
View(v, i) == i \in DOMAIN v /\ ByteSeq(v[i]) /\ Len(v[i].vals) <= MaxGrant
Bytes(n) == SeqV([i \in 1 .. n |-> ByteV(0)])
HostU64(v, i) == KindAt(v, i, "int") /\ v[i].ty = U64 /\ v[i].n >= 0
ViewPositions(op) == CASE op = "fs_create_file" -> {1, 2} [] op \in {"fs_append_bytes_at", "fs_rename_at"} -> {2}
                       [] op = "fs_write_bytes_at" -> {3} [] op = "fs_mkdir" -> {1} [] OTHER -> {}
GrantsFor(req, cap) == SelectSeq(req.grants, LAMBDA g : g.cap = cap)
Event(op, target, cap, real) == [kind |-> op, target |-> target, cap |-> cap, real |-> real]

\* A value of the type, as a decoder of typed artifacts builds it.
RECURSIVE Sample(_)
SampleFields(fields) == [i \in DOMAIN fields |-> <<NameOf(fields[i]), Sample(fields[i][2])>>]
Sample(ty) ==
    CASE IsBoolean(ty) -> BoolV(FALSE) [] ty.t = "int" -> IntV(0, ty) [] ty = ByteT -> ByteV(0) [] ty = FloatT -> FloatV(0)
      [] ty.t = "seq" -> SeqV([i \in 1 .. (IF ty.exact THEN ty.cap ELSE 0) |-> Sample(ty.elem)])
      [] ty.t = "vec" -> VecV([i \in 1 .. ty.lanes |-> Sample(ty.elem)])
      [] ty.t = "mask" -> MaskV([i \in 1 .. ty.lanes |-> FALSE])
      [] ty.t = "rec" -> RecV(ty.id, SampleFields(Records[ty.id]))
      [] OTHER -> FinV(ty.id, 1, SampleFields(Finites[ty.id][1]))

\* The services behind the grants.
FsRealize(op, g) ==
    CASE g.answer = "ok" -> Some(IF op \in {"fs_entry_name_at", "fs_read_bytes_at"} THEN SeqV(g.bytes)
                                 ELSE IntV(Len(g.bytes) % 2^CounterBits, U64))
      [] OTHER -> None
AnswerFailure(g) == IF g.answer = "invalid" THEN Refuse("resource refuses") ELSE Fail("RuntimeFailure", "resource fails")
ProcessRequestOf(v) == KindAt(v, 1, "rec") /\ v[1].id = "ProcessRequest"
OwnedHandle(v, g) == KindAt(v, 1, "rec") /\ v[1].id = "ProcessHandle" /\ g.answer = "ok"
ProcessResult(R, kind) == R[1].t = "rec" /\ R[1].id = kind
-----------------------------------------------------------------------------
\* Reads of a granted tree: every operand is a u64.
HostFsRead(o, v, g) ==
    IF \E i \in 1 .. HostArity(o.host) : ~HostU64(v, i) THEN Refuse("fs operands")
    ELSE IF FsRealize(o.host, g) = None THEN AnswerFailure(g)
    ELSE Done(FsRealize(o.host, g), <<Event(HostEffect(o.host), "tree", o.needs, TRUE)>>, <<>>)
\* Writes: the name and content positions are views.  Recording validates and values the call
\* and leaves the tree alone.
HostFsMutate(o, v, g, observing) ==
    IF \E i \in 1 .. HostArity(o.host) : IF i \in ViewPositions(o.host) THEN ~View(v, i) ELSE ~HostU64(v, i)
    THEN Refuse("fs operands")
    ELSE IF g.answer = "invalid" \/ (g.answer = "fails" /\ ~observing) THEN AnswerFailure(g)
    ELSE Done(<<IntV(0, U64)>>, <<Event("fs_write", "tree", o.needs, ~observing)>>,
              IF observing THEN <<>> ELSE <<o.host>>)
\* A provider is invoked whatever the policy; only its value is checked against the result type.
HostProviderCall(o, v, R, req, remaining) ==
    IF ~KindAt(v, 1, "seq") \/ ~ByteSeq(v[1]) \/ Len(v[1].vals) > DigestLen THEN Refuse("provider identity view")
    ELSE IF Len(v[1].vals) # DigestLen THEN Refuse("provider identity length")
    ELSE IF Missing(v) THEN Refuse("provider request")
    ELSE IF req.provider = None THEN Fail("Unsupported", "provider runtime")
    ELSE IF remaining = 0 THEN Fail("BudgetExhausted", "budget before provider")
    ELSE IF req.provider[1].answer # "ok" THEN Refuse("provider refused")
    ELSE IF ~MatchesType(req.provider[1].value, R[1]) THEN FailAfter("InvalidRequest", "provider value", <<o.host>>)
    ELSE Done(<<req.provider[1].value>>,
              <<Event("provider_call", "provider", o.needs, FALSE)>> \o req.provider[1].events, <<o.host>>)
HostStructuredRead(o, v, R, g) ==
    IF \E i \in 1 .. HostArity(o.host) : ~View(v, i) THEN Refuse("structured operand")
    ELSE IF g.answer # "ok" THEN AnswerFailure(g)
    ELSE Done(<<Sample(R[1])>>, <<Event("structured_read", "artifact", o.needs, TRUE)>>, <<>>)
HostStructuredWrite(o, v, g, observing) ==
    IF Missing(v) THEN Refuse("structured value")
    ELSE IF ~View(v, 1) \/ ~View(v, 2) THEN Refuse("structured operand")
    ELSE IF g.answer = "invalid" \/ (g.answer = "fails" /\ ~observing) THEN AnswerFailure(g)
    ELSE Done(<<IntV(1, U64)>>, <<Event("structured_write", "artifact", o.needs, ~observing)>>,
              IF observing THEN <<>> ELSE <<o.host>>)
\* Owned processes live in a retained session.  A refusal to start for want of resources is a
\* value, not a failure; so is what is asked of a process the session does not own.
HostStart(o, v, R, g) ==
    LET acts == IF g.answer = "ok" THEN <<o.host>> ELSE <<>>
    IN IF ~ProcessRequestOf(v) THEN Refuse("process request")
       ELSE IF ~g.authorizes THEN Refuse("process executable")
       ELSE IF g.answer = "invalid" THEN Refuse("resource refuses")
       ELSE IF ~ProcessResult(R, "ProcessStartResult") THEN FailAfter("InvalidRequest", "process result", acts)
       ELSE Done(<<Sample(R[1])>>, <<Event(o.host, "process", o.needs, TRUE)>>, acts)
HostManage(o, v, R, g) ==
    LET owned == OwnedHandle(v, g)
        acts == IF owned THEN <<o.host>> ELSE <<>>
    IN IF owned /\ ~g.authorizes THEN Refuse("owned executable")
       ELSE IF ~ProcessResult(R, "ProcessObservation") THEN FailAfter("InvalidRequest", "process result", acts)
       ELSE Done(<<Sample(R[1])>>, <<Event(o.host, IF owned THEN "process" ELSE "unknown process", o.needs, TRUE)>>, acts)
HostLifecycle(o, v, R, g, req, observing) ==
    IF ~req.session THEN Fail("Unsupported", "retained session")
    ELSE IF observing THEN Fail("Unsupported", "lifecycle policy")
    ELSE IF v = <<>> \/ Missing(v) THEN Refuse("process argument")
    ELSE IF o.host = "process_start" THEN HostStart(o, v, R, g) ELSE HostManage(o, v, R, g)
\* The event is recorded when everything after the start succeeded as well.
HostProcessRun(o, v, R, g, observing) ==
    IF observing THEN Fail("Unsupported", "process policy")
    ELSE IF Missing(v) THEN Refuse("process argument")
    ELSE IF ~ProcessRequestOf(v) THEN Refuse("process request")
    ELSE IF ~g.authorizes THEN Refuse("process executable")
    ELSE IF g.answer = "invalid" THEN Refuse("resource refuses")
    ELSE IF g.answer = "fails" THEN FailAfter("Unsupported", "process completion", <<o.host>>)
    ELSE IF ~ProcessResult(R, "ProcessResult") THEN FailAfter("InvalidRequest", "process result", <<o.host>>)
    ELSE Done(<<Sample(R[1])>>, <<Event("process_run", "process", o.needs, TRUE)>>, <<o.host>>)
HostPure(o, v, g) ==
    LET done(val) == Done(<<val>>, <<Event(HostEffect(o.host), o.host, o.needs, TRUE)>>, <<>>)
    IN CASE o.host = "structured_digest" -> IF Missing(v) THEN Refuse("digest operand") ELSE done(Bytes(DigestLen))
         [] o.host = "clock_read" -> IF g.answer # "ok" THEN Refuse("clock") ELSE done(IntV(1, U64))
         [] o.host = "sha256_digest" -> IF ~View(v, 1) THEN Refuse("digest view") ELSE done(Bytes(DigestLen))
         [] o.host = "ed25519_verify" ->
              IF ~View(v, 1) THEN Refuse("public key")
              ELSE IF ~View(v, 2) THEN Refuse("message")
              ELSE IF ~View(v, 3) THEN Refuse("signature")
              ELSE IF Len(v[1].vals) # DigestLen \/ Len(v[3].vals) # SignatureLen THEN Refuse("key lengths")
              ELSE done(BoolV(TRUE))
HostBlobAppend(o, v, g, observing) ==
    IF ~View(v, 1) THEN Refuse("write view")
    ELSE IF ~observing /\ g.answer # "ok" THEN Fail("RuntimeFailure", "resource fails")
    ELSE Done(<<IntV(Len(v[1].vals), U64)>>, <<Event("host_write", o.host, o.needs, ~observing)>>,
              IF observing THEN <<>> ELSE <<o.host>>)
\* The granted bytes, whatever the declared result.
HostBlobRead(o, g) == Done(<<SeqV(g.bytes)>>, <<Event("host_read", o.host, o.needs, TRUE)>>, <<>>)

AdmittedGrant(cap) == [cap |-> cap, bytes |-> <<>>, answer |-> "ok", authorizes |-> TRUE]
\* Policy, grant and its bound, then the operation.
HostCall(o, v, R, req, remaining) ==
    LET observing == req.policy = "record"
        found == IF o.host = "provider_call" /\ req.provider # None THEN <<AdmittedGrant(o.needs)>>
                 ELSE GrantsFor(req, o.needs)
        g == found[1]
    IN IF o.host \notin HostOps THEN Fail("Unsupported", "host operation")
       ELSE IF req.policy \notin {"record", "realize"} THEN Fail("Unsupported", "host policy")
       ELSE IF found = <<>> THEN Refuse("host grant")
       ELSE IF Len(g.bytes) > MaxGrant THEN Refuse("grant bound")
       ELSE CASE o.host \in FsLists \cup {"fs_read_bytes_at"} -> HostFsRead(o, v, g)
              [] o.host \in FsWrites -> HostFsMutate(o, v, g, observing)
              [] o.host = "provider_call" -> HostProviderCall(o, v, R, req, remaining)
              [] o.host \in {"structured_read", "structured_read_identity"} -> HostStructuredRead(o, v, R, g)
              [] o.host = "structured_write" -> HostStructuredWrite(o, v, g, observing)
              [] o.host \in Lifecycle -> HostLifecycle(o, v, R, g, req, observing)
              [] o.host = "process_run" -> HostProcessRun(o, v, R, g, observing)
              [] o.host = "blob_append" -> HostBlobAppend(o, v, g, observing)
              [] o.host = "blob_read" -> HostBlobRead(o, g)
              [] OTHER -> HostPure(o, v, g)
=============================================================================
