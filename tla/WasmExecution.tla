----------------------------- MODULE WasmExecution -----------------------------
(***************************************************************************)
(* A call of the WebAssembly realization (lower.rs and wasm.rs in          *)
(* crates/mncs-codegen/src): the plan of a function's loop regions, the    *)
(* control flow of an emitted function, and the marshalled boundary.       *)
(*                                                                         *)
(* A loop region gives back, at each back edge, what the last round        *)
(* allocated: the live cells are copied out, the bump pointer returns to   *)
(* the mark taken when the loop was entered, and the cells are rebuilt.    *)
(***************************************************************************)
EXTENDS WasmOperations

CONSTANTS
    RegionTempCapWords,   \* REGION_TEMP_CAP_WORDS
    WasmStepsPerBudget    \* instructions paid by a unit of the step budget: 32 opcodes, over those of one instruction

VARIABLES
    wasmPlans,     \* realized function -> its loop-region plan
    wasmRegions,   \* <<function, header>> -> the two globals of the region
    wasmFuel
wasmVars == <<wasmPlans, wasmRegions, wasmFuel>>
-----------------------------------------------------------------------------
(* The plan.  Blocks are emitted in order, so a back edge goes to a block that is not later. *)
TermReads(term) ==
    CASE term.k = "return" -> Range(term.vals) [] term.k = "branch" -> Range(term.args)
      [] term.k = "cond" -> {term.on} \cup Range(term.args) \cup Range(term.elseArgs) [] OTHER -> {}
Names(defs) == {d[1] : d \in defs}
MadeBetween(block, from, to) == Names(UNION {DefsOf(block.ops[i].out) : i \in from .. to})
\* What is read from instruction `from` on before the block writes it.
ReadsFrom(block, from) ==
    UNION {Range(block.ops[i].in) \ MadeBetween(block, from, i - 1) : i \in from .. Len(block.ops)}
    \cup (TermReads(block.term) \ MadeBetween(block, from, Len(block.ops)))
\* Pairs of a block and a value that is live where the block begins.
LiveInto(f, live, b) ==
    LET block == f.blocks[b]
        params(c) == Names(DefsOf(f.blocks[c].params))
        out == UNION {{e[2] : e \in {e \in live : e[1] = c}} \ params(c) : c \in Targets(block.term)}
    IN (out \ Names(DefinedIn(block))) \cup (ReadsFrom(block, 1) \ params(b))
LiveAtEntry(f) ==
    FoldLeft(LAMBDA live, n : UNION {{b} \X LiveInto(f, live, b) : b \in DOMAIN f.blocks}, {}, [n \in DOMAIN f.blocks |-> n])
Latches(f, h) == {b \in DOMAIN f.blocks : h <= b /\ h \in Targets(f.blocks[b].term)}
PredecessorsOf(f, b) == {a \in DOMAIN f.blocks : b \in Targets(f.blocks[a].term)}
\* The header and every block that reaches a latch without passing through it.
LoopBody(f, h) ==
    FoldLeft(LAMBDA body, n : body \cup UNION {PredecessorsOf(f, b) : b \in body \ {h}}, {h} \cup Latches(f, h), [n \in DOMAIN f.blocks |-> n])
EnteredAtHeader(f, h) == \A b \in LoopBody(f, h) \ {h} : PredecessorsOf(f, b) \subseteq LoopBody(f, h)
LocalOrder(f) ==
    IdsOf(f.params) \o FlattenSeq([b \in DOMAIN f.blocks |->
        IdsOf(f.blocks[b].params) \o FlattenSeq([i \in DOMAIN f.blocks[b].ops |-> IdsOf(f.blocks[b].ops[i].out)])])
Preserved(f, h, live) == Names(DefsOf(f.blocks[h].params)) \cup {e[2] : e \in {e \in live : e[1] = h}}
\* The live cells with their shapes, in the order of their locals; words stay where they are.
CopiesOf(f, h, live) ==
    LET types == SsaTypes(f)
        kept == Preserved(f, h, live)
        shape == [id \in kept |-> CopyShapeOf(types[id], {})]
        cells == SelectSeq(LocalOrder(f), LAMBDA id : id \in kept /\ shape[id] # None /\ shape[id][1].k # "word")
    IN IF \E id \in kept : shape[id] = None THEN None ELSE Some([k \in DOMAIN cells |-> [id |-> cells[k], shape |-> shape[cells[k]][1]]])
ScratchWords(copies) == FoldFunction(LAMBDA n, acc : n + acc, 0, [k \in DOMAIN copies |-> FlattenWords(copies[k].shape)])
\* Header -> its loop body and its copies, for each header that can be planned.
LoopPlan(f) ==
    LET live == LiveAtEntry(f)
        natural == {h \in DOMAIN f.blocks : Latches(f, h) # {} /\ (\A b \in Latches(f, h) : SsaDominates(f, h, b)) /\ EnteredAtHeader(f, h)}
        copies == [h \in natural |-> CopiesOf(f, h, live)]
    IN [h \in {h \in natural : copies[h] # None /\ ScratchWords(copies[h][1]) <= RegionTempCapWords} |->
          [body |-> LoopBody(f, h), copies |-> copies[h][1]]]
\* What can be emitted on its own, and then what calls nothing but that.
EmittedAlone(f) ==
    /\ f.outs = 1
    /\ \A id \in DOMAIN SsaTypes(f) : HasCarrier(SsaTypes(f)[id])
    /\ \A b \in DOMAIN f.blocks : /\ \A o \in Range(f.blocks[b].ops) : Emitted(o)
                                  /\ f.blocks[b].term.k = "return" => f.blocks[b].term.vals # <<>>
LowerModule ==
    [f \in RealizedFunctions(module, {f \in DOMAIN module : EmittedAlone(module[f])}) |-> LoopPlan(module[f])]
-----------------------------------------------------------------------------
(* A cell and the cells it refers to, out of memory and into it again.  A reference is kept next to what *)
(* it refers to. *)
FieldWidth(f) == IF f.shape.k = "word" THEN f.width ELSE NarrowBits
RECURSIVE WasmFlatten(_, _, _)
WasmFlatten(m, cell, s) ==
    AndThen(IF s.k = "finite" THEN WasmLoad(m, cell, NarrowBits) ELSE Going(0, m), LAMBDA tag, n :
      LET fields == FieldsAt(s, tag)
          read(r, i) ==
            AndThen(r, LAMBDA tree, n1 : AndThen(WasmLoad(n1, Low(cell + fields[i].at), FieldWidth(fields[i])), LAMBDA w, n2 :
              IF fields[i].shape.k = "word" THEN Going(Append(tree, w), n2)
              ELSE AndThen(WasmFlatten(n2, w, fields[i].shape), LAMBDA t, n3 : Going(Append(tree, [old |-> w, cell |-> t]), n3))))
      IN FoldLeft(read, Going(<<tag>>, n), [i \in DOMAIN fields |-> i]))
\* Only the fields of the variant at hand are allocated; a tag nobody declared leaves the old address.
RebuiltHalves(s, fields) == IF s.k = "finite" THEN 2 * (Len(fields) + 1) ELSE CellHalves(s)
RECURSIVE WasmRebuild(_, _, _, _)
WasmRebuild(m, tree, s, old) ==
    LET fields == FieldsAt(s, tree[1])
        put(n, cell, i, w) == WasmStore(n, Low(cell + fields[i].at), FieldWidth(fields[i]), w)
        write(r, i) ==
          AndThen(r, LAMBDA cell, n :
            AndThen(IF fields[i].shape.k = "word" THEN put(n, cell, i, tree[i + 1])
                    ELSE AndThen(WasmRebuild(n, tree[i + 1].cell, fields[i].shape, tree[i + 1].old), LAMBDA w, n1 : put(n1, cell, i, w)),
                    LAMBDA done, n2 : Going(cell, n2)))
    IN IF s.k = "finite" /\ tree[1] \notin DOMAIN s.variants THEN Going(old, m)
       ELSE AndThen(WasmAlloc(m, RebuiltHalves(s, fields)), LAMBDA cell, n :
              AndThen(IF s.k = "finite" THEN WasmStore(n, cell, NarrowBits, tree[1]) ELSE Going(0, n), LAMBDA done, n1 :
                FoldLeft(write, Going(cell, n1), [i \in DOMAIN fields |-> i])))
\* A back edge: all copies out, the bump pointer back, all copies in.  Nothing is given back below the
\* end of what the host reserved.  The word of the outcome is the activation's locals.
HostEnd == 2
ResetRegion(m, env, mark, copies) ==
    LET out(r, c) == AndThen(r, LAMBDA trees, n : AndThen(WasmFlatten(n, env[c.id], c.shape), LAMBDA t, n1 : Going(Append(trees, t), n1)))
        in(trees, r, k) ==
          AndThen(r, LAMBDA e, n : AndThen(WasmRebuild(n, trees[k], copies[k].shape, env[copies[k].id]),
                                           LAMBDA w, n1 : Going(Bind(e, <<copies[k].id>>, <<w>>), n1)))
    IN IF mark < HostEnd THEN Going(env, m)
       ELSE AndThen(FoldLeft(out, Going(<<>>, m), copies), LAMBDA trees, n :
              FoldLeft(LAMBDA r, k : in(trees, r, k), Going(env, [n EXCEPT !.bump = mark]), [k \in DOMAIN copies |-> k]))
-----------------------------------------------------------------------------
(* The boundary.  Inside another value a vector and a mask have no descriptor of their own and are      *)
(* taken for a wide integer; a byte is an unsigned integer of its width. *)
Nested(ty) == IF ty.t \in {"vec", "mask"} THEN IntT(WideBits, TRUE) ELSE ty
IsOctet(ty) == ty = ByteT \/ ty = IntT(ByteBits, FALSE)
InCell(ty) == (ty.t = "fin" /\ Boxed(ty.id)) \/ ty.t \in {"rec", "vec"} \/ (ty.t = "seq" /\ ty.exact)
NestedWidth(ty) == IF InCell(ty) THEN NarrowBits ELSE SlotWidth(ty)
RECURSIVE WasmWrite(_, _, _)
\* Field k of the declared ones, in the slots from `first` on.
WriteSlots(m, halves, first, declared, received) ==
    LET slot(r, k) ==
          LET ty == declared[k][2]
          IN AndThen(r, LAMBDA cell, n :
               IF ty.t \in {"vec", "mask"} THEN Stopped(4, n)
               ELSE AndThen(WasmWrite(n, Received(received, NameOf(declared[k])), ty), LAMBDA w, n1 :
                      AndThen(WasmStore(n1, Low(cell + 2 * (first + k - 1)), NestedWidth(ty), w), LAMBDA done, n2 : Going(cell, n2))))
    IN AndThen(WasmAlloc(m, halves), LAMBDA cell, n : FoldLeft(slot, Going(cell, n), [k \in DOMAIN declared |-> k]))
WriteElements(m, vals, elem) ==
    WriteSlots(m, 2 * Len(vals), 0, [k \in DOMAIN vals |-> <<k, elem>>], [k \in DOMAIN vals |-> <<k, vals[k]>>])
\* Bytes of a view lie side by side.
WriteOctets(m, vals) ==
    IF \E k \in DOMAIN vals : vals[k].k # "byte" THEN Stopped(4, m)
    ELSE Fill(m, Len(vals), [k \in DOMAIN vals |-> Place(k - 1, NarrowBits)], [k \in DOMAIN vals |-> vals[k].byte])
WriteView(m, vals, elem) ==
    IF vals = <<>> THEN Going(0, m)
    ELSE AndThen(IF IsOctet(elem) THEN WriteOctets(m, vals) ELSE WriteElements(m, vals, elem),
                 LAMBDA cell, n : Going(PackView(cell, Len(vals)), n))
WriteFinite(m, v) ==
    LET fields == Finites[v.id][v.disc]
    IN IF ~Boxed(v.id) THEN Going(v.disc, m)
       ELSE AndThen(WriteSlots(m, 2 * (Len(fields) + 1), 1, fields, v.fields), LAMBDA cell, n :
              AndThen(WasmStore(n, cell, NarrowBits, v.disc), LAMBDA done, n1 : Going(cell, n1)))
WasmWrite(m, v, ty) ==
    CASE v.k = "int" -> Going(Pat(v.n, Carrier(ty)), m)
      [] v.k = "bool" -> Going(IF v.b THEN 1 ELSE 0, m)
      [] v.k = "byte" -> Going(v.byte, m)
      [] v.k = "float" -> Going(v.f, m)
      [] v.k = "mask" -> Going(PackMask(v.on), m)
      [] v.k = "vec" -> Fill(m, LaneStride(ty) * ty.lanes, Lanes(ty.elem, ty.lanes), [k \in DOMAIN v.vals |-> Pat(v.vals[k].n, Carrier(ty.elem))])
      [] v.k = "seq" -> IF ty.exact THEN WriteElements(m, v.vals, ty.elem) ELSE WriteView(m, v.vals, ty.elem)
      [] v.k = "rec" -> LET fields == Records[v.id] IN WriteSlots(m, 2 * Len(fields), 0, fields, v.fields)
      [] v.k = "fin" -> WriteFinite(m, v)
WriteArguments(m, args, T) ==
    FoldLeft(LAMBDA r, k : AndThen(r, LAMBDA words, n : AndThen(WasmWrite(n, args[k], T[k]), LAMBDA w, n1 : Going(Append(words, w), n1))),
             Going(<<>>, m), [k \in DOMAIN args |-> k])
RECURSIVE WasmRead(_, _, _)
ReadAt(m, at, ty) ==
    AndThen(WasmLoad(m, at, NestedWidth(ty)), LAMBDA w, n :
      IF IsOctet(ty) THEN Going(ByteV(w % 2^ByteBits), n)
      ELSE IF ty = FloatT /\ ~Finite(w) THEN Stopped(4, n) ELSE WasmRead(n, w, ty))
ReadSlots(m, cell, first, types) ==
    FoldLeft(LAMBDA r, k : AndThen(r, LAMBDA vals, n : AndThen(ReadAt(n, Low(cell + 2 * (first + k - 1)), Nested(types[k])),
                                                             LAMBDA v, n1 : Going(Append(vals, v), n1))),
             Going(<<>>, m), [k \in DOMAIN types |-> k])
AsFields(declared, vals) == [k \in DOMAIN declared |-> <<NameOf(declared[k]), vals[k]>>]
SequenceOf(r) == AndThen(r, LAMBDA vals, n : Going(SeqV(vals), n))
Repeated(elem, n) == [k \in 1 .. n |-> elem]
ReadOctets(m, w) ==
    LET step == IF InSlots(w) THEN 2 ELSE 1
    IN AndThen(WasmLoads(m, [k \in 1 .. ViewLength(w) |-> Place(Low(w) + step * (k - 1), ByteBits)]),
               LAMBDA words, n : Going([k \in DOMAIN words |-> ByteV(words[k])], n))
ReadView(m, w, ty) ==
    IF ViewLength(w) > ty.cap THEN Stopped(1, m)
    ELSE SequenceOf(IF IsOctet(ty.elem) THEN ReadOctets(m, w) ELSE ReadSlots(m, Low(w), 0, Repeated(ty.elem, ViewLength(w))))
ReadVector(m, w, ty) ==
    AndThen(WasmLoads(m, Moved(Lanes(ty.elem, ty.lanes), w)),
            LAMBDA words, n : Going(VecV([k \in DOMAIN words |-> FromSlotBits(words[k], ty.elem)]), n))
\* A bare variant nobody declared is passed on as it is, a boxed one is refused.
ReadFinite(m, w, ty) ==
    IF ~Boxed(ty.id) THEN Going(FiniteOf(ty.id, w, <<>>), m)
    ELSE AndThen(WasmLoad(m, w, NarrowBits), LAMBDA tag, n :
           IF ~HasVariant(ty.id, tag) THEN Stopped(1, n)
           ELSE LET fields == Finites[ty.id][tag]
                IN AndThen(ReadSlots(n, w, 1, TypesOf(fields)), LAMBDA vals, n1 : Going(FiniteOf(ty.id, tag, AsFields(fields, vals)), n1)))
WasmRead(m, w, ty) ==
    CASE ty.t = "int" -> Going(FromSlotBits(w, ty), m)
      [] ty.t = "bool" -> Going(BoolV(w = 1), m)
      [] ty.t = "byte" -> Going(ByteV(w % 2^ByteBits), m)
      [] ty.t = "float" -> IF Finite(w) THEN Going(FloatV(w), m) ELSE Stopped(2, m)
      [] ty.t = "mask" -> Going(UnpackMask(w, ty.lanes), m)
      [] ty.t = "vec" -> ReadVector(m, w, ty)
      [] ty.t = "seq" -> IF ty.exact THEN SequenceOf(ReadSlots(m, w, 0, Repeated(ty.elem, ty.cap))) ELSE ReadView(m, w, ty)
      [] ty.t = "rec" -> LET fields == Records[ty.id]
                         IN AndThen(ReadSlots(m, w, 0, TypesOf(fields)), LAMBDA vals, n : Going(RecV(ty.id, AsFields(fields, vals)), n))
      [] ty.t = "fin" -> ReadFinite(m, w, ty)
-----------------------------------------------------------------------------
(* Activations: those of NativeExecution, over the blocks of the SSA module. *)
WasmMemory == [data |-> [a \in 0 .. WasmHalves - 1 |-> 0], bump |-> HostEnd, failed |-> FALSE, exhausted |-> FALSE]
WasmStatus(st) == CASE st = 1 -> "RuntimeFailure" [] st = 2 -> "Unsupported" [] st = 3 -> "BudgetExhausted" [] st = 4 -> "InvalidRequest"
WasmEnd(st, m, out) ==
    /\ nativeFrames' = <<>> /\ arena' = m
    /\ nativeResult' = [nativeResult EXCEPT !.st = st, !.out = out]
    /\ UNCHANGED <<wasmPlans, wasmRegions, wasmFuel>>
WasmTrap(r) == WasmEnd(WasmStatus(r.st), r.m, <<>>)
WasmRunning == nativeFrames # <<>> /\ wasmFuel < WasmStepsPerBudget * req.budget
WasmFrame(name, words, depth) ==
    [fn |-> name, block |-> 1, pc |-> 1, env |-> Bind(<<>>, IdsOf(module[name].params), words), depth |-> depth, mark |-> None]
\* Every activation starts with the flags of its function's regions off.
Entered(regions, name) == [r \in DOMAIN regions |-> IF r[1] = name THEN [regions[r] EXCEPT !.on = FALSE] ELSE regions[r]]
\* A header that is visited with its flag off takes the mark.
Visited(regions, name, b, m) ==
    LET r == <<name, b>>
    IN IF r \in DOMAIN regions /\ ~regions[r].on THEN [regions EXCEPT ![r] = [mark |-> m.bump, on |-> TRUE]] ELSE regions
WasmAdvance(f, ids, words) == SetTop(nativeFrames, [f EXCEPT !.pc = @ + 1, !.env = Bind(@, ids, words)])
WasmOperate ==
    LET f == Top(nativeFrames)
        o == SsaOpOf(f)
        types == SsaTypes(module[f.fn])
    IN /\ WasmRunning /\ SsaAtOp(f) /\ o.kind # "call"
       /\ \E r \in {WasmInstruction(o, [k \in DOMAIN o.in |-> types[o.in[k]]], o.out[1][2], WordsOf(f, o.in), arena)} :
            IF r.st # 0 THEN WasmTrap(r)
            ELSE /\ nativeFrames' = WasmAdvance(f, IdsOf(o.out), <<r.w>>) /\ arena' = r.m
                 /\ wasmFuel' = wasmFuel + 1 /\ UNCHANGED <<nativeResult, wasmPlans, wasmRegions>>
WasmCall ==
    LET f == Top(nativeFrames)
        o == SsaOpOf(f)
    IN /\ WasmRunning /\ SsaAtOp(f) /\ o.kind = "call"
       /\ IF f.depth + 1 > MaxDepth THEN WasmTrap(Stopped(3, arena))
          ELSE /\ nativeFrames' = Append(nativeFrames, WasmFrame(o.fn, WordsOf(f, o.in), f.depth + 1))
               /\ wasmRegions' = Visited(Entered(wasmRegions, o.fn), o.fn, 1, arena)
               /\ wasmFuel' = wasmFuel + 1 /\ UNCHANGED <<arena, nativeResult, wasmPlans>>
WasmReturn ==
    LET f == Top(nativeFrames)
        term == SsaBlockOf(f).term
        word == f.env[term.vals[1]]
        below == Front(nativeFrames)
        c == Top(below)
    IN /\ WasmRunning /\ ~SsaAtOp(f) /\ term.k = "return"
       /\ IF below = <<>>
          THEN \E r \in {WasmRead(arena, word, Output)} : IF r.st # 0 THEN WasmTrap(r) ELSE WasmEnd("Returned", r.m, Some(r.w))
          ELSE /\ nativeFrames' = SetTop(below, [c EXCEPT !.pc = @ + 1, !.env = Bind(@, IdsOf(SsaOpOf(c).out), <<word>>)])
               /\ wasmFuel' = wasmFuel + 1 /\ UNCHANGED <<arena, nativeResult, wasmPlans, wasmRegions>>
\* An edge: the arguments are moved, a planned back edge resets its region, the flags of the regions it
\* leaves go off, and then the target is visited.
IsBackedge(f, to) == to <= f.block /\ to \in DOMAIN wasmPlans[f.fn]
Left(f, to) == {<<f.fn, h>> : h \in {h \in DOMAIN wasmPlans[f.fn] : f.block \in wasmPlans[f.fn][h].body /\ to \notin wasmPlans[f.fn][h].body}}
TurnedOff(regions, off) == [r \in DOMAIN regions |-> IF r \in off THEN [regions[r] EXCEPT !.on = FALSE] ELSE regions[r]]
EdgeOf(f) ==
    LET term == SsaBlockOf(f).term
    IN IF term.k = "branch" \/ f.env[term.on] # 0 THEN [to |-> term.to, args |-> term.args] ELSE [to |-> term.else, args |-> term.elseArgs]
Arrived(f, e) == PassedAtOnce(f.env, IdsOf(SsaFn(f).blocks[e.to].params), e.args)
WasmJump ==
    LET f == Top(nativeFrames)
        e == EdgeOf(f)
    IN /\ WasmRunning /\ ~SsaAtOp(f) /\ SsaBlockOf(f).term.k \in {"branch", "cond"}
       /\ \E r \in {IF IsBackedge(f, e.to)
                    THEN ResetRegion(arena, Arrived(f, e), wasmRegions[<<f.fn, e.to>>].mark, wasmPlans[f.fn][e.to].copies)
                    ELSE Going(Arrived(f, e), arena)} :
            IF r.st # 0 THEN WasmTrap(r)
            ELSE /\ nativeFrames' = SetTop(nativeFrames, [f EXCEPT !.block = e.to, !.pc = 1, !.env = r.w]) /\ arena' = r.m
                 /\ wasmRegions' = Visited(TurnedOff(wasmRegions, Left(f, e.to)), f.fn, e.to, r.m)
                 /\ wasmFuel' = wasmFuel + 1 /\ UNCHANGED <<nativeResult, wasmPlans>>
WasmFailure ==
    LET f == Top(nativeFrames)
    IN WasmRunning /\ ~SsaAtOp(f) /\ SsaBlockOf(f).term.k = "failure" /\ WasmTrap(Stopped(1, arena))
WasmExhausted ==
    nativeFrames # <<>> /\ ~WasmRunning /\ WasmTrap(Stopped(3, [arena EXCEPT !.exhausted = TRUE]))
\* execute_portable_wasm_decoded: the contract is checked for every request, then the entry, then the depth.
WasmRefusal(plans) ==
    IF req.fn \notin DOMAIN program THEN Some(4)
    ELSE IF Len(req.args) # Len(Inputs) THEN Some(4)
    ELSE IF ~(\A k \in DOMAIN Inputs : Accepts(req.args[k], Inputs[k])) THEN Some(4)
    ELSE IF req.fn \notin DOMAIN plans THEN Some(2)
    ELSE IF req.depth # None /\ req.depth[1] \notin 1 .. MaxDepth THEN Some(4) ELSE None
NoRegions(plans) == [r \in UNION {{f} \X DOMAIN plans[f] : f \in DOMAIN plans} |-> [mark |-> 0, on |-> FALSE]]
WasmStart ==
    /\ nativeFrames = <<>> /\ wasmFuel = 0
    /\ \E plans \in {LowerModule} :
         IF WasmRefusal(plans) # None THEN WasmTrap(Stopped(WasmRefusal(plans)[1], arena))
         ELSE \E r \in {WriteArguments(WasmMemory, req.args, Inputs)} :
                IF r.st # 0 THEN WasmTrap(r)
                ELSE /\ nativeFrames' = <<WasmFrame(req.fn, r.w, DepthSeed)>> /\ arena' = r.m
                     /\ wasmPlans' = plans /\ wasmRegions' = Visited(NoRegions(plans), req.fn, 1, r.m)
                     /\ wasmFuel' = 1 /\ UNCHANGED nativeResult
WasmInit == wasmPlans = <<>> /\ wasmRegions = <<>> /\ wasmFuel = 0
WasmNext ==
    /\ nativeResult.st = "Running"
    /\ WasmStart \/ WasmOperate \/ WasmCall \/ WasmReturn \/ WasmJump \/ WasmFailure \/ WasmExhausted
=============================================================================
