------------------------------- MODULE Backends -------------------------------
(***************************************************************************)
(* One request, the SSA engine and then a realization of the same module:  *)
(* a native one or WebAssembly (compare_body_ssa_and_backend in crates/mncs-codegen/src/lib.rs; *)
(* Engines compares the body with the SSA engine).                         *)
(*                                                                         *)
(* `strayed` remembers that the run executed an instruction on operands    *)
(* for which the emitted code is known to differ from the reference; the   *)
(* list is Strays.                                                         *)
(***************************************************************************)
EXTENDS WasmExecution

CONSTANT Realizations    \* those looked at

VARIABLE strayed
vars == <<program, req, valid, module, moduleValid, bodyVars, ssaVars, target, scalars, nativeVars, wasmVars, strayed>>
-----------------------------------------------------------------------------
(* Where the emitted code differs.  x and y are the operands read in their own type. *)
Reading(w, sty) == IF sty.t \in {"int", "byte"} THEN Wrap(w, BitsOf(sty), SignedOf(sty)) ELSE w
\* A quotient outside the type fails, whatever the intent: the reference wraps MIN / -1, and clamps it
\* and a division by zero.
QuotientOverflows(i, x) ==
    \/ /\ i.op = "div" /\ i.intent \in {"wrapping", "saturating"} /\ SignedOf(i.ty)
       /\ x[1] = Limits(i.ty.bits, TRUE).min /\ x[2] = -1
    \/ i.op \in {"div", "mod"} /\ i.intent = "saturating" /\ x[2] = 0
\* Cranelift and C11 clamp a difference below zero to the largest value.
UnsignedUnderflow(i, x) == target # "llvm" /\ i.op = "sub" /\ i.intent = "saturating" /\ ~SignedOf(i.ty) /\ x[1] < x[2]
\* C11 keeps the masked result in int32_t, without its sign.
C11LosesSign(i, x) ==
    /\ target = "c11" /\ SignedOf(i.ty) /\ i.ty.bits < NarrowBits
    /\ i.op = "shl" \/ (i.op \in {"add", "sub", "mul"} /\ (i.intent = "wrapping" \/ ~i.checked))
\* A count is reduced to the width; the reference fails on one that is no value of the shifted type.
CountReduced(i, x) == i.op \in {"shl", "shr"} /\ i.ty.t = "int" /\ ~InRange(x[2], i.ty)
\* C11 converts by a C cast: too little for a narrower type, and from the sign of int32_t.
C11Casts(i, x) ==
    /\ target = "c11" /\ i.ty.t \in {"int", "byte"}
    /\ \/ i.to.t = "int" /\ i.to.bits <= NarrowBits /\ ~InRange(x[1], i.to)
       \/ ~SignedOf(i.ty) /\ BitsOf(i.ty) = NarrowBits /\ x[1] >= 2^(NarrowBits - 1)
\* Cranelift converts a float to float by its bit pattern, taken for an unsigned integer.
PatternConverted(i, v) == target = "cranelift" /\ i.ty = FloatT /\ i.to = FloatT /\ v[1] # 0
\* Cranelift does not restore the sign of a sequence's element.
ElementLosesSign(i) == target = "cranelift" /\ i.kind = "seq_project" /\ SignedOf(i.out[1][2]) /\ ~IsWide(i.out[1][2])
\* C11 takes a start beyond the signed range for one below zero.
C11Ends(i, v) == target = "c11" /\ i.kind = "view" /\ \E k \in {2, 3} : v[k] >= 2^(WideBits - 1)
\* Cranelift's copy of a vector's narrow lanes steps half a slot.
LanesAreHalved(i) ==
    /\ target = "cranelift" /\ i.kind = "call" /\ i.out[1][2] = CellT
    /\ CallResultShape(program[i.fn].outs[1]) # None /\ program[i.fn].outs[1].t = "vec" /\ ~IsWide(program[i.fn].outs[1].elem)
Strays(i, T, v) ==
    LET x == [k \in DOMAIN v |-> Reading(v[k], T[k])]
    IN \/ i.kind = "int" /\ (QuotientOverflows(i, x) \/ UnsignedUnderflow(i, x) \/ C11LosesSign(i, x) \/ CountReduced(i, x))
       \/ i.kind = "convert" /\ (C11Casts(i, x) \/ PatternConverted(i, v) \/ i.to = BoolT)
       \/ ElementLosesSign(i) \/ C11Ends(i, v) \/ LanesAreHalved(i)
\* LLVM and C11 assign block parameters one by one: an argument may be gone when it is read.
LosesCopy(f) ==
    LET term == ScalarBlockOf(f).term
        edge(to, args) == \E j \in DOMAIN args : \E k \in 1 .. j - 1 : args[j] = ScalarFn(f).blocks[to].params[k][1]
    IN target # "cranelift" /\ CASE term.k = "branch" -> edge(term.to, term.args)
                                 [] term.k = "cond" -> edge(term.to, term.args) \/ edge(term.else, term.elseArgs)
                                 [] OTHER -> FALSE
\* Cranelift cannot read a result from an arena nothing was put in: an empty view of an empty one.
NothingToRead == ~NativeRunning /\ nativeResult.status = 0 /\ target = "cranelift" /\ arena.bump = 0 /\ NeedsArena(Output)
\* WebAssembly divides at the width of the carrier: MIN / -1 stops where the type fills it, and only there.
WasmQuotient(o, x) ==
    /\ o.op = "div" /\ o.ty.signed /\ x[1] = Limits(o.ty.bits, TRUE).min /\ x[2] = -1
    /\ (o.intent = "wrapping") = (o.ty.bits \in {NarrowBits, WideBits})
WasmUnderflow(o, x) == o.op = "sub" /\ o.intent = "saturating" /\ ~o.ty.signed /\ o.ty.bits <= NarrowBits /\ x[1] < x[2]
WasmStrays(o, T, v) ==
    LET x == [k \in {1, 2} |-> Reads(v[k], T[k])]
    IN o.kind = "int" /\ (WasmQuotient(o, x) \/ WasmUnderflow(o, x) \/ (o.op \in {"shl", "shr"} /\ ~InRange(x[2], o.ty)))
\* A region that is given back takes along the cells of the views that live on, which are not copied.
DropsViews(f) ==
    LET e == EdgeOf(f)
        types == SsaTypes(SsaFn(f))
        live == Names(DefsOf(SsaFn(f).blocks[e.to].params)) \cup LiveInto(SsaFn(f), LiveAtEntry(SsaFn(f)), e.to)
    IN IsBackedge(f, e.to) /\ \E id \in live : ContainsView(types[id], {})
WasmStraysNow ==
    LET f == Top(nativeFrames)
        types == SsaTypes(SsaFn(f))
    IN nativeFrames # <<>> /\ IF SsaAtOp(f) THEN WasmStrays(SsaOpOf(f), [k \in DOMAIN SsaOpOf(f).in |-> types[SsaOpOf(f).in[k]]], WordsOf(f, SsaOpOf(f).in))
                              ELSE SsaBlockOf(f).term.k \in {"branch", "cond"} /\ DropsViews(f)
NativeStraysNow ==
    LET f == Top(nativeFrames)
    IN \/ NothingToRead
       \/ NativeRunning /\ IF NativeAtOp(f) THEN Strays(InstOf(f), TypesIn(f, InstOf(f).in), WordsOf(f, InstOf(f).in)) ELSE LosesCopy(f)
-----------------------------------------------------------------------------
Init ==
    /\ program \in Programs
    /\ req \in Requests(program)
    /\ valid = ValidProgram(program)
    /\ module = LowerProgram(program)
    /\ moduleValid = (valid /\ SsaValid(module))
    /\ target = "none"
    /\ scalars = LowerToScalar(module, [f \in DOMAIN module |-> program[f].outs])
    /\ BodyInit /\ SsaInit /\ NativeInit /\ WasmInit /\ strayed = FALSE
Engine == ~SsaDone /\ SsaNext /\ UNCHANGED <<target, nativeVars, wasmVars, strayed>>
Choose == SsaDone /\ target = "none" /\ target' \in Realizations /\ UNCHANGED <<ssaVars, nativeVars, wasmVars, strayed>>
Native == /\ target \notin {"none", "wasm"} /\ NativeNext /\ UNCHANGED <<ssaVars, target, wasmVars>>
          /\ strayed' = (strayed \/ NativeStraysNow)
Wasm == /\ target = "wasm" /\ WasmNext /\ UNCHANGED <<ssaVars, target>>
        /\ strayed' = (strayed \/ WasmStraysNow)
Next == UNCHANGED <<program, req, valid, module, moduleValid, bodyVars, scalars>> /\ (Engine \/ Choose \/ Native \/ Wasm)
Spec == Init /\ [][Next]_vars
-----------------------------------------------------------------------------
\* Nominal arguments are given under their identity, not spelled by name.
RECURSIVE ByIdentity(_)
ByIdentity(v) == CASE v.k \in {"seq", "vec"} -> \A i \in DOMAIN v.vals : ByIdentity(v.vals[i])
                   [] v.k \in {"rec", "fin"} -> ~v.spelled /\ \A i \in DOMAIN v.fields : ByIdentity(v.fields[i][2])
                   [] OTHER -> TRUE
Sound == moduleValid /\ ssaResult.st # "InvalidRequest" /\ \A i \in DOMAIN req.args : ByIdentity(req.args[i])
\* Nothing was refused by the arena yet: a failed allocation of Cranelift is an address at the very top,
\* and a store to its second slot wraps around to the first cells; the run then ends as exhausted.
Intact == Sound /\ ~arena.failed /\ ~arena.exhausted
Comparable == NativeDone /\ Sound /\ ~strayed /\ nativeResult.st # "Unsupported" /\ ssaResult.st # "Unsupported"
\* compare_body_ssa_and_backend: where a realization takes the request and the run meets none of the
\* listed differences, it ends as the SSA engine does and its decoded value is the engine's.  A step
\* budget binds the engine alone, an arena the realization alone.
BackendsAgree ==
    (Comparable /\ ssaResult.why # "steps" /\ ~arena.exhausted) => nativeResult.st = ssaResult.st /\ nativeResult.out = ssaResult.out
\* The arguments of the request, read back from the arena through the words the entry function was
\* called with, are the arguments the engine sees at every moment of the run: no store of the emitted
\* code and no region given back reaches a cell it did not allocate.
ReadBack(m, w, ty) ==
    IF target # "wasm" THEN Decode(ImageOf(m), w, ty) ELSE LET r == WasmRead(m, w, ty) IN IF r.st = 0 THEN Some(r.w) ELSE None
EntryParameter(k) == IF target = "wasm" THEN module[req.fn].params[k][1] ELSE scalars[req.fn].params[k][1]
ArgumentsSurvive ==
    (NativeRunning /\ Intact) =>
      \A k \in DOMAIN Inputs : NeedsArena(Inputs[k]) =>
        ReadBack(arena, nativeFrames[1].env[EntryParameter(k)], Inputs[k]) = SsaNormalize(req.args[k], Inputs[k])
\* Between two instructions of the source: what an activation defined so far is complete.
Settled(f) == \/ ~NativeAtOp(f) \/ InstOf(f).kind = "call"
              \/ f.pc > 1 /\ ScalarBlockOf(f).ops[f.pc - 1].kind = "call"
Readable(f) ==
    LET types == SsaTypes(module[f.fn])
    IN \A id \in DOMAIN f.env \cap DOMAIN types : NeedsArena(types[id]) => Decode(ImageOf(arena), f.env[id], types[id]) # None
\* Every aggregate an activation holds can be read: its cells lie in what is allocated, whatever the
\* callees (host_cell_reset in cranelift_backend.rs) or the rounds of a loop (emit_backedge_region in
\* lower.rs) gave back.
\* WebAssembly never clears memory: a cell counts as lost once the bump pointer is below it.
Allocated(m) == [m EXCEPT !.data = [a \in {a \in DOMAIN @ : a < m.bump} |-> @[a]]]
WasmReadable(f) ==
    LET types == SsaTypes(SsaFn(f))
    IN \A id \in DOMAIN f.env \cap ReadsFrom(SsaBlockOf(f), f.pc) : NeedsArena(types[id]) => WasmRead(Allocated(arena), f.env[id], types[id]).st = 0
HeldCellsAreAllocated ==
    (Intact /\ ~strayed) => \A j \in DOMAIN nativeFrames :
      IF target = "wasm" THEN WasmReadable(nativeFrames[j]) ELSE Settled(nativeFrames[j]) => Readable(nativeFrames[j])
\* cranelift_backend.rs, host_cell_reset: "Generated code preserves any cell-valued result that escapes
\* the frame before this callback runs."  What a caller keeps of a callee can be read.
CallRegionsPreserveResults == Intact => \A j \in DOMAIN nativeFrames : Settled(nativeFrames[j]) => Readable(nativeFrames[j])
\* What is emitted links: every call in an emitted function is to an emitted one, with as many
\* arguments as it takes, and the caller keeps what it returns.
EmittedCallsLink ==
    \A f \in DOMAIN scalars : \A b \in DOMAIN scalars[f].blocks : \A i \in Range(scalars[f].blocks[b].ops) :
      (moduleValid /\ i.kind = "call") =>
        /\ i.fn \in DOMAIN scalars
        /\ Len(i.in) = Len(scalars[i.fn].params) /\ i.out[1][2] = scalars[i.fn].result
=============================================================================
