---------------------------- MODULE NativeExecution ----------------------------
(***************************************************************************)
(* A call of a native realization: the Cranelift JIT, LLVM or C11          *)
(* (cranelift_backend.rs, llvm.rs, c11.rs in crates/mncs-codegen/src).     *)
(*                                                                         *)
(* A frame is one activation of an emitted function.  The arena is a bump  *)
(* allocator over half-words; Cranelift reclaims what a callee allocated,  *)
(* after it copied the result out.  LLVM branches to failure where it      *)
(* meets an address outside the arena, the other two set a flag and go on. *)
(***************************************************************************)
EXTENDS SsaExecution, NativeOperations, Marshalling

CONSTANTS
    ArenaHalves,    \* CRANELIFT_ARENA_BYTES, NATIVE_ARENA_LEN, MNCS_ARENA_BYTES
    CopyWordCap     \* CALL_REGION_COPY_WORD_CAP

VARIABLES target, scalars, nativeFrames, arena, nativeResult
nativeVars == <<nativeFrames, arena, nativeResult>>

-----------------------------------------------------------------------------
(* The arena.  An outcome has a status (0 go on, 1 failed, 3 exhausted), a word and the arena. *)
Going(w, m) == [st |-> 0, w |-> w, m |-> m]
Stopped(st, m) == [st |-> st, w |-> 0, m |-> m]
AndThen(r, Next1(_, _)) == IF r.st # 0 THEN r ELSE Next1(r.w, r.m)
Installed(img) ==
    [data |-> [a \in 0 .. ArenaHalves - 1 |-> IF a < Len(img) THEN img[a + 1] ELSE 0],
     bump |-> Len(img), failed |-> FALSE, exhausted |-> FALSE]
ImageOf(m) == [a \in 1 .. m.bump |-> m.data[a - 1]]
Halves(width) == width \div NarrowBits
At(base, slot) == (base + 2 * slot) % 2^WideBits
Outwith(m, at, width) == at + Halves(width) > (IF target = "cranelift" THEN m.bump ELSE ArenaHalves)
\* C11: once something failed, nothing is allocated, stored or loaded.
Inert(m) == target = "c11" /\ m.failed
\* Exhausted, the host callback of Cranelift answers the top address, C11's helper answers 0.
CraneliftAlloc(m, base, halves) ==
    IF base + halves <= ArenaHalves THEN Going(base, [m EXCEPT !.bump = base + halves])
    ELSE Going(2^WideBits - 1, [m EXCEPT !.exhausted = TRUE])
LlvmAlloc(m, base, halves) ==
    IF base + halves <= ArenaHalves THEN Going(base, [m EXCEPT !.bump = base + halves]) ELSE Stopped(3, m)
C11Alloc(m, base, halves) ==
    IF Inert(m) THEN Going(0, m)
    ELSE IF base + halves <= ArenaHalves THEN Going(base, [m EXCEPT !.bump = base + halves])
    ELSE Going(0, [m EXCEPT !.failed = TRUE, !.exhausted = TRUE])
\* Aligned to a slot.
CellAlloc(m, halves) ==
    LET base == m.bump + (m.bump % 2)
    IN CASE target = "cranelift" -> CraneliftAlloc(m, base, halves)
         [] target = "llvm" -> LlvmAlloc(m, base, halves)
         [] target = "c11" -> C11Alloc(m, base, halves)
WildAccess(m) == IF target = "llvm" THEN Stopped(1, m) ELSE Going(0, [m EXCEPT !.failed = TRUE])
\* LLVM stores a narrow value in its own width and leaves the rest of the half-word.
Narrowed(m, at, w, bits) ==
    IF target = "llvm" /\ bits < NarrowBits THEN (m.data[at] \div 2^bits) * 2^bits + Pat(w, bits) ELSE Low(w)
SlotStore(m, at, width, w, bits) ==
    IF Inert(m) THEN Going(0, m)
    ELSE IF Outwith(m, at, width) THEN WildAccess(m)
    ELSE Going(0, IF width = WideBits THEN [m EXCEPT !.data[at] = Low(w), !.data[at + 1] = High(w)]
                  ELSE [m EXCEPT !.data[at] = Narrowed(m, at, w, bits)])
SlotLoad(m, at, width) ==
    IF Inert(m) THEN Going(0, m)
    ELSE IF Outwith(m, at, width) THEN WildAccess(m)
    ELSE Going(IF width = WideBits THEN m.data[at] + m.data[at + 1] * 2^NarrowBits ELSE m.data[at], m)
\* host_cell_reset truncates; what is allocated again is zero.
CellReset(m, mark) ==
    IF mark > m.bump THEN [m EXCEPT !.failed = TRUE]
    ELSE [m EXCEPT !.bump = mark, !.data = [a \in DOMAIN @ |-> IF a < mark THEN @[a] ELSE 0]]
-----------------------------------------------------------------------------
(* Instructions on cells, sequences and views: i the instruction, T its operand types, v the words. *)
\* The register a loaded slot ends in; Cranelift restores the sign of a field, not of an element.
CraneliftLoaded(i, sty, w) == IF i.kind = "load" THEN NormalizeOne(w, BitsOf(sty), SignedOf(sty)) ELSE w
LlvmLoaded(sty, w) == Pat(w, BitsOf(sty))
C11Loaded(sty, w) == Pat(w, CBits(sty))
Loaded(i, w) ==
    LET sty == i.out[1][2]
    IN CASE IsWide(sty) -> w
         [] ~IsWide(sty) /\ target = "cranelift" -> CraneliftLoaded(i, sty, w)
         [] ~IsWide(sty) /\ target = "llvm" -> LlvmLoaded(sty, w)
         [] ~IsWide(sty) /\ target = "c11" -> C11Loaded(sty, w)
CellInstruction(i, T, v, m) ==
    CASE i.kind = "alloc" -> CellAlloc(m, 2 * i.n)
      [] i.kind = "store_tag" -> SlotStore(m, v[1], NarrowBits, i.val, NarrowBits)
      [] i.kind = "store" -> SlotStore(m, At(v[1], i.n), i.bits, v[2], BitsOf(T[2]))
      [] i.kind = "load" -> AndThen(SlotLoad(m, At(v[1], i.n), i.bits), LAMBDA w, n : Going(Loaded(i, w), n))
      [] i.kind = "fin_is" ->
           IF T[1] # CellT THEN Going(Flag(v[1] = i.val), m)
           ELSE AndThen(SlotLoad(m, v[1], NarrowBits), LAMBDA w, n : Going(Flag(w = i.val), n))
BaseOf(w, exact) == IF exact THEN w ELSE Low(w)
LengthOf(w, exact, cap) == IF exact THEN cap ELSE High(w)
\* One slot into another.
CopySlot(m, from, to, width) ==
    AndThen(SlotLoad(m, from, width), LAMBDA w, n : SlotStore(n, to, width, w, NarrowBits))
CopySlots(m, cell, slots, from(_), width) ==
    FoldLeft(LAMBDA r, k : AndThen(r, LAMBDA w, n : CopySlot(n, from(k - 1), At(cell, k - 1), width)),
             Going(0, m), [k \in 1 .. slots |-> k])
SequenceProject(i, v, m) ==
    IF i.checked /\ v[2] >= LengthOf(v[1], i.exact, i.cap) THEN Stopped(1, m)
    ELSE AndThen(SlotLoad(m, At(BaseOf(v[1], i.exact), v[2]), i.bits), LAMBDA w, n : Going(Loaded(i, w), n))
SequenceReplace(i, T, v, m) ==
    IF i.checked /\ v[2] >= i.cap THEN Stopped(1, m)
    ELSE AndThen(CellAlloc(m, 2 * i.cap), LAMBDA cell, n :
           AndThen(CopySlots(n, cell, i.cap, LAMBDA k : At(v[1], k), i.bits), LAMBDA w, n2 :
             AndThen(SlotStore(n2, At(cell, v[2]), i.bits, v[3], BitsOf(T[3])), LAMBDA w2, n3 : Going(cell, n3))))
\* The lanes of the window come from the source, the others from the destination.
InWindow(lane, at, len) == lane >= at /\ lane - at < len
SequenceCopy(i, v, m) ==
    LET ends == {<<(v[2] + v[5]) % 2^WideBits, v[2], i.cap>>,
                 <<(v[4] + v[5]) % 2^WideBits, v[4], LengthOf(v[3], i.src.exact, i.src.cap)>>}
        from(k) == IF InWindow(k, v[2], v[5]) THEN At(BaseOf(v[3], i.src.exact), v[4] + k - v[2]) ELSE At(v[1], k)
    IN IF i.checked /\ \E e \in ends : e[1] < e[2] \/ e[1] > e[3] THEN Stopped(1, m)
       ELSE AndThen(CellAlloc(m, 2 * i.cap), LAMBDA cell, n :
              AndThen(CopySlots(n, cell, i.cap, from, i.bits), LAMBDA w, n2 : Going(cell, n2)))
\* C11 compares the two ends as signed integers, the others as they are.
C11Ordered(a, b) == Wrap(a, WideBits, TRUE) <= Wrap(b, WideBits, TRUE)
ViewConstruct(i, v, m) ==
    LET span == (v[3] - v[2]) % 2^WideBits
        ordered == IF target = "c11" THEN C11Ordered(v[2], v[3]) ELSE v[2] <= v[3]
    IN IF ~ordered \/ v[3] > LengthOf(v[1], i.src.exact, i.src.cap) \/ span > i.cap THEN Stopped(1, m)
       ELSE Going(PackView(At(BaseOf(v[1], i.src.exact), v[2]), span), m)
SequenceInstruction(i, T, v, m) ==
    CASE i.kind = "seq_project" -> SequenceProject(i, v, m)
      [] i.kind = "seq_replace" -> SequenceReplace(i, T, v, m)
      [] i.kind = "seq_copy" -> SequenceCopy(i, v, m)
      [] i.kind = "seq_length" -> Going(LengthOf(v[1], i.exact, i.cap), m)
      [] i.kind = "view" -> ViewConstruct(i, v, m)
      [] i.kind = "narrow" -> IF High(v[1]) > i.cap THEN Stopped(1, m) ELSE Going(v[1], m)
      [] i.kind = "bound_check" -> IF v[2] >= LengthOf(v[1], i.exact, i.cap) THEN Stopped(1, m) ELSE Going(v[2], m)
NativeInstruction(i, T, v, m) ==
    IF i.kind \in {"alloc", "store_tag", "store", "load", "fin_is"} THEN CellInstruction(i, T, v, m)
    ELSE IF KeepsShape(i) THEN SequenceInstruction(i, T, v, m)
    ELSE LET r == NativeScalar(target, i, T, v) IN IF r = None THEN Stopped(1, m) ELSE Going(r[1], m)
-----------------------------------------------------------------------------
(* Call regions (Cranelift).  The shape of a result that is copied out of the callee's region, if it   *)
(* is known: no view in it, not recursive, not too large; laid out as the WASM lowering lays out cells. *)
RECURSIVE ContainsView(_, _)
ContainsView(ty, seen) ==
    CASE ty.t \in {"rec", "fin"} ->
           /\ ty.id \notin seen
           /\ \E fields \in (IF ty.t = "rec" THEN {Records[ty.id]} ELSE Range(Finites[ty.id])) :
                \E i \in DOMAIN fields : ContainsView(fields[i][2], seen \cup {ty.id})
      [] ty.t = "seq" -> ~ty.exact \/ ContainsView(ty.elem, seen)
      [] OTHER -> FALSE
WordShape(width) == [k |-> "word", width |-> width]
IsReference(ty) == ty.t \in {"rec", "fin", "vec"} \/ (ty.t = "seq" /\ ty.exact)
\* A nested cell is a narrow reference here.
WasmWidth(ty) == IF ty.t = "fin" \/ IsReference(ty) THEN NarrowBits ELSE SlotWidth(ty)
RECURSIVE CopyShapeOf(_, _)
FieldShapes(fields, seen) ==
    Every([i \in DOMAIN fields |->
             IF ~IsReference(fields[i][2]) THEN Some([width |-> WasmWidth(fields[i][2]), shape |-> WordShape(WasmWidth(fields[i][2]))])
             ELSE Then(CopyShapeOf(fields[i][2], seen),
                       LAMBDA s : IF s.k = "word" THEN None ELSE Some([width |-> WasmWidth(fields[i][2]), shape |-> s]))])
LaneStride(ty) == IF ty.t = "vec" /\ ty.elem.bits # WideBits THEN 1 ELSE 2
CopyShapeOf(ty, seen) ==
    CASE ty.t = "rec" -> IF ty.id \in seen THEN None
                         ELSE Then(FieldShapes(Records[ty.id], seen \cup {ty.id}), LAMBDA s : Some([k |-> "record", fields |-> s]))
      [] ty.t = "fin" /\ ~Boxed(ty.id) -> Some(WordShape(NarrowBits))
      [] ty.t = "fin" /\ Boxed(ty.id) ->
           IF ty.id \in seen THEN None
           ELSE Then(Every([v \in DOMAIN Finites[ty.id] |-> FieldShapes(Finites[ty.id][v], seen \cup {ty.id})]),
                     LAMBDA s : Some([k |-> "finite", variants |-> s]))
      [] ty.t = "seq" /\ ty.exact ->
           Then(CopyShapeOf(ty.elem, seen), LAMBDA s : Some([k |-> "lanes", count |-> ty.cap, stride |-> LaneStride(ty), elem |-> s]))
      [] ty.t = "vec" -> Some([k |-> "lanes", count |-> ty.lanes, stride |-> LaneStride(ty), elem |-> WordShape(SlotWidth(ty.elem))])
      [] OTHER -> Some(WordShape(WasmWidth(ty)))
RECURSIVE FlattenWords(_)
FieldWords(f) == IF f.shape.k = "word" THEN 1 ELSE 1 + FlattenWords(f.shape)
Total(fields) == FoldFunction(LAMBDA n, acc : n + acc, 0, [i \in DOMAIN fields |-> FieldWords(fields[i])])
FlattenWords(s) ==
    CASE s.k = "word" -> 1
      [] s.k = "record" -> Total(s.fields)
      [] s.k = "finite" -> 1 + Max({Total(s.variants[v]) : v \in DOMAIN s.variants})
      [] s.k = "lanes" -> s.count * FieldWords([shape |-> s.elem])
CallResultShape(ty) ==
    LET s == CopyShapeOf(ty, {})
    IN IF ContainsView(ty, {}) \/ s = None THEN None
       ELSE IF s[1].k = "word" \/ FlattenWords(s[1]) > CopyWordCap THEN None ELSE s
\* The fields of a cell of this shape that has this tag: where each is, in half-words, its width and shape.
FieldsAt(s, tag) ==
    LET listed(fields, from) == [i \in DOMAIN fields |-> [at |-> from + 2 * (i - 1), width |-> fields[i].width, shape |-> fields[i].shape]]
    IN CASE s.k = "record" -> listed(s.fields, 0)
         [] s.k = "finite" -> IF tag \in DOMAIN s.variants THEN listed(s.variants[tag], 2) ELSE <<>>
         [] s.k = "lanes" -> [i \in 1 .. s.count |-> [at |-> s.stride * (i - 1), shape |-> s.elem,
                                                       width |-> IF s.elem.k = "word" THEN s.elem.width ELSE WideBits]]
CellHalves(s) == CASE s.k = "record" -> 2 * Len(s.fields) [] s.k = "lanes" -> s.count * s.stride
                   [] s.k = "finite" -> Max({2 * (Len(s.variants[v]) + 1) : v \in DOMAIN s.variants})
AtHalf(base, k) == (base + k) % 2^WideBits
\* clif_flatten_cell: the words of a cell and of the cells it refers to, as a tree.
RECURSIVE Flatten(_, _, _)
Flatten(m, cell, s) ==
    LET tag == IF s.k = "finite" THEN SlotLoad(m, cell, NarrowBits) ELSE Going(0, m)
        fields == FieldsAt(s, tag.w)
        read(acc, i) ==
            LET r == SlotLoad(acc.m, AtHalf(cell, fields[i].at), fields[i].width)
                t == IF fields[i].shape.k = "word" THEN [m |-> r.m, tree |-> r.w] ELSE Flatten(r.m, r.w, fields[i].shape)
            IN [m |-> t.m, tree |-> Append(acc.tree, t.tree)]
    IN FoldLeft(read, [m |-> tag.m, tree |-> <<tag.w>>], [i \in DOMAIN fields |-> i])
\* clif_rebuild_cell: a cell is allocated before the cells it refers to.
RECURSIVE Rebuild(_, _, _)
Rebuild(m, tree, s) ==
    LET cell == CellAlloc(m, CellHalves(s))
        tagged == IF s.k = "finite" THEN SlotStore(cell.m, cell.w, NarrowBits, tree[1], NarrowBits) ELSE Going(0, cell.m)
        fields == FieldsAt(s, tree[1])
        write(n, i) ==
            LET child == IF fields[i].shape.k = "word" THEN Going(tree[i + 1], n) ELSE Rebuild(n, tree[i + 1], fields[i].shape)
            IN SlotStore(child.m, AtHalf(cell.w, fields[i].at), fields[i].width, child.w, NarrowBits).m
    IN Going(cell.w, FoldLeft(write, tagged.m, [i \in DOMAIN fields |-> i]))
\* Variant: the region is given back and the address kept.
LeaveRegion_NoCopy(m, mark, w, shape) == Going(w, CellReset(m, mark))
\* What the caller does with the word a callee returned.
LeaveRegion(m, mark, w, shape) ==
    IF shape = None \/ w < mark THEN Going(w, CellReset(m, mark))
    ELSE LET t == Flatten(m, w, shape[1]) IN Rebuild(CellReset(t.m, mark), t.tree, shape[1])
-----------------------------------------------------------------------------
(* Activations. *)
NativeFrame(name, words, depth) ==
    [fn |-> name, block |-> 1, pc |-> 1, env |-> Bind(<<>>, IdsOf(scalars[name].params), words), depth |-> depth, mark |-> None]
ScalarFn(f) == scalars[f.fn]
ScalarBlockOf(f) == ScalarFn(f).blocks[f.block]
NativeAtOp(f) == f.pc <= Len(ScalarBlockOf(f).ops)
InstOf(f) == ScalarBlockOf(f).ops[f.pc]
WordsOf(f, ids) == [i \in DOMAIN ids |-> f.env[ids[i]]]
TypesIn(f, ids) == [i \in DOMAIN ids |-> ScalarFn(f).types[ids[i]]]
\* A failed activation stores its status; its callers give their regions back and return it as it is.
NativeFail(st) == nativeFrames' = <<>> /\ nativeResult' = [nativeResult EXCEPT !.status = st] /\ UNCHANGED arena
NativeRunning == nativeFrames # <<>>
NativeOperate ==
    LET f == Top(nativeFrames)
        i == InstOf(f)
    IN /\ NativeRunning /\ NativeAtOp(f) /\ i.kind # "call"
       /\ \E r \in {NativeInstruction(i, TypesIn(f, i.in), WordsOf(f, i.in), arena)} :
            IF r.st # 0 THEN NativeFail(r.st)
            ELSE /\ nativeFrames' = SetTop(nativeFrames, [f EXCEPT !.pc = @ + 1, !.env = Bind(@, IdsOf(i.out), [k \in DOMAIN i.out |-> r.w])])
                 /\ arena' = r.m /\ UNCHANGED nativeResult
\* scalar_module_uses_cells.
UsesCells == \E f \in DOMAIN scalars :
    LET fn == scalars[f]
    IN \/ CellT \in {fn.result} \cup Range(TypesOf(fn.params))
       \/ \E b \in DOMAIN fn.blocks : \E i \in Range(fn.blocks[b].ops) :
            i.kind \in {"alloc", "store_tag", "store", "load", "seq_replace", "seq_copy", "seq_project"}
\* A region is opened around a call whose result cannot keep an address of it, or can be copied.
OpensRegion(i) ==
    /\ target = "cranelift" /\ UsesCells /\ i.out[1][2] # ViewT
    /\ i.out[1][2] = CellT => CallResultShape(program[i.fn].outs[1]) # None
NativeCall ==
    LET f == Top(nativeFrames)
        i == InstOf(f)
    IN /\ NativeRunning /\ NativeAtOp(f) /\ i.kind = "call"
       /\ IF f.depth + 1 > MaxDepth THEN NativeFail(3)
          ELSE /\ nativeFrames' = Append(SetTop(nativeFrames, [f EXCEPT !.mark = IF OpensRegion(i) THEN Some(arena.bump) ELSE None]),
                                         NativeFrame(i.fn, WordsOf(f, i.in), f.depth + 1))
               /\ UNCHANGED <<arena, nativeResult>>
\* The word a function stores for its caller: Cranelift as it is, LLVM and C11 in the width of the ABI.
LlvmReturned(w, sty) == Pat(Wrap(w, BitsOf(sty), ~(sty.t = "int" /\ ~sty.signed)), WideBits)
C11Returned(w, sty) == Pat(CValue(w, sty), WideBits)
ReturnedWord(w, sty) ==
    CASE target = "cranelift" \/ IsWide(sty) -> w
      [] target = "llvm" /\ ~IsWide(sty) -> LlvmReturned(w, sty)
      [] target = "c11" /\ ~IsWide(sty) -> C11Returned(w, sty)
\* And what the caller keeps of it.
TakenWord(w, sty) == IF IsWide(sty) THEN w ELSE Pat(w, StorageBits(target, sty))
NativeReturn ==
    LET f == Top(nativeFrames)
        term == ScalarBlockOf(f).term
        below == Front(nativeFrames)
        c == Top(below)
        i == InstOf(c)
        word == ReturnedWord(f.env[term.vals[1]], ScalarFn(f).result)
        shape == IF i.out[1][2] = CellT THEN CallResultShape(program[i.fn].outs[1]) ELSE None
    IN /\ NativeRunning /\ ~NativeAtOp(f) /\ term.k = "return"
       /\ IF Inert(arena) THEN NativeFail(IF arena.exhausted THEN 3 ELSE 1)
          ELSE IF below = <<>>
          THEN /\ nativeFrames' = <<>> /\ UNCHANGED arena
               /\ nativeResult' = [nativeResult EXCEPT !.status = 0, !.word = word]
          ELSE \E r \in {IF c.mark = None THEN Going(word, arena) ELSE LeaveRegion(arena, c.mark[1], word, shape)} :
                 /\ nativeFrames' = SetTop(below, [c EXCEPT !.pc = @ + 1, !.mark = None,
                                                            !.env = Bind(@, IdsOf(i.out), <<TakenWord(r.w, i.out[1][2])>>)])
                 /\ arena' = r.m /\ UNCHANGED nativeResult
\* Cranelift passes block arguments at once; LLVM and C11 assign one parameter after the other.
PassedAtOnce(env, ids, args) == Bind(env, ids, [k \in DOMAIN args |-> env[args[k]]])
AssignedInTurn(env, ids, args) == FoldLeft(LAMBDA e, k : Bind(e, <<ids[k]>>, <<e[args[k]]>>), env, [k \in DOMAIN ids |-> k])
Transfer(env, ids, args) == IF target = "cranelift" THEN PassedAtOnce(env, ids, args) ELSE AssignedInTurn(env, ids, args)
NativeJump ==
    LET f == Top(nativeFrames)
        term == ScalarBlockOf(f).term
        taken == term.k = "branch" \/ f.env[term.on] # 0
        to == IF taken THEN term.to ELSE term.else
        args == IF taken THEN term.args ELSE term.elseArgs
    IN /\ NativeRunning /\ ~NativeAtOp(f) /\ term.k \in {"branch", "cond"}
       /\ nativeFrames' = SetTop(nativeFrames, [f EXCEPT !.block = to, !.pc = 1,
                                                         !.env = Transfer(@, IdsOf(ScalarFn(f).blocks[to].params), args)])
       /\ UNCHANGED <<arena, nativeResult>>
NativeFailure ==
    LET f == Top(nativeFrames)
    IN NativeRunning /\ ~NativeAtOp(f) /\ ScalarBlockOf(f).term.k = "failure" /\ NativeFail(1)
-----------------------------------------------------------------------------
(* The call from outside: execute_cranelift, execute_c11 and its sibling for LLVM. *)
Inputs == program[req.fn].in
Output == program[req.fn].outs[1]
WithCallFile == NeedsCallFile(req.args, Inputs, program[req.fn].outs) \/ (target = "cranelift" /\ UsesCells)
ArgumentWord(w, ty) == IF IsWide(ty) THEN w ELSE Pat(w, StorageBits(target, ty))
\* Cranelift looks for the entry after it encoded the arguments, the others before.
NativeRefusal ==
    LET realized == req.fn \in DOMAIN scalars
    IN IF req.fn \notin DOMAIN program THEN Some("InvalidRequest")
       ELSE IF Len(req.args) # Len(Inputs) THEN Some("InvalidRequest")
       ELSE IF target # "cranelift" /\ ~realized THEN Some("Unsupported")
       ELSE IF \/ WithCallFile /\ ~(\A k \in DOMAIN Inputs : Accepts(req.args[k], Inputs[k]) /\ Written(req.args[k]))
               \/ req.depth # None /\ req.depth[1] \notin 1 .. MaxDepth
       THEN Some("InvalidRequest")
       ELSE IF ~realized THEN Some("Unsupported") ELSE None
DepthSeed == IF req.depth = None THEN 0 ELSE MaxDepth - req.depth[1]
NativeStart ==
    LET e == EncodeArguments(req.args, Inputs)
    IN /\ ~NativeRunning /\ nativeResult.st = "Running" /\ nativeResult.status = 2
       /\ IF NativeRefusal # None
          THEN nativeResult' = [nativeResult EXCEPT !.st = NativeRefusal[1]] /\ UNCHANGED <<nativeFrames, arena>>
          ELSE /\ nativeFrames' = <<NativeFrame(req.fn, [k \in DOMAIN e.words |->
                                      ArgumentWord(e.words[k], scalars[req.fn].params[k][2])], DepthSeed)>>
               /\ arena' = Installed(e.img) /\ UNCHANGED nativeResult
\* Cranelift: an access outside the arena counts before the status does, and an empty arena cannot be read.
NativeStatus ==
    IF target = "cranelift" /\ arena.failed THEN IF arena.exhausted THEN "BudgetExhausted" ELSE "RuntimeFailure"
    ELSE CASE nativeResult.status = 0 -> "Returned" [] nativeResult.status = 3 -> "BudgetExhausted" [] OTHER -> "RuntimeFailure"
NativeValue ==
    IF target = "cranelift" /\ NeedsArena(Output) /\ arena.bump = 0 THEN None
    ELSE DecodeObservation(ImageOf(arena), nativeResult.word, Output)
NativeFinish ==
    /\ ~NativeRunning /\ nativeResult.st = "Running" /\ nativeResult.status # 2
    /\ UNCHANGED <<nativeFrames, arena>>
    /\ nativeResult' = IF NativeStatus # "Returned" THEN [nativeResult EXCEPT !.st = NativeStatus]
                       ELSE IF NativeValue = None THEN [nativeResult EXCEPT !.st = "InvalidRequest"]
                       ELSE [nativeResult EXCEPT !.st = "Returned", !.out = NativeValue]
NativeDone == nativeResult.st # "Running"
NoNativeResult == [st |-> "Running", status |-> 2, word |-> 0, out |-> <<>>]
NativeInit == nativeFrames = <<>> /\ arena = Installed(<<>>) /\ nativeResult = NoNativeResult
NativeNext ==
    NativeStart \/ NativeOperate \/ NativeCall \/ NativeReturn \/ NativeJump \/ NativeFailure \/ NativeFinish
=============================================================================
