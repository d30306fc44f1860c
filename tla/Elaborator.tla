------------------------------ MODULE Elaborator ------------------------------
(***************************************************************************)
(* From the abstract tree of a function to its executable body             *)
(* (crates/mncs-compiler/src/frontend.rs).                                 *)
(*                                                                         *)
(* E elaborates an expression, knowing the type wanted of it if any: it    *)
(* appends operations to the current block, perhaps new blocks, and        *)
(* leaves the value in s.v, or nothing and a diagnostic.  Most wrong types *)
(* are noted and the value used all the same: the diagnostic is what keeps *)
(* the body from ever running.                                             *)
(***************************************************************************)
EXTENDS BodyBuilder

RECURSIVE E(_, _, _)

(* Operands, elaborated in turn; each is an item that says what is wanted. *)
Free(e) == [k |-> "any", e |-> e, want |-> None, code |-> ""]
Wish(e, ty) == [k |-> "any", e |-> e, want |-> Some(ty), code |-> ""]
Soft(e, ty, code) == [k |-> "soft", e |-> e, want |-> Some(ty), code |-> code]
Hard(e, ty, code) == [k |-> "hard", e |-> e, want |-> Some(ty), code |-> code]
Counter(e, code) == Hard(e, U64, code)
\* A sequence of bytes with room for at most cap.
BytesUpTo(e, cap, code) == [k |-> "bytes", e |-> e, want |-> None, code |-> code, cap |-> cap]
ByteView(e, code) == BytesUpTo(e, MaxSequence, code)
Ids(xs) == [i \in DOMAIN xs |-> xs[i].id]
Word(text) == [k |-> "word", t |-> text]
NameNode(word) == [k |-> "name", kids |-> <<[k |-> "path", kids |-> <<word>>]>>]
ProjectNode(e, word) == [k |-> "project", kids |-> <<e, word>>]
Unwanted(want, ty) == want # None /\ want[1] # ty
IsLiteral(e) == e.k = "integer"

\* emit_record_project
Projection(s, x, field, ty) ==
    Emit(s, [Op("rec_project") EXCEPT !.nominal = x.ty.id, !.field = Rank[field]], <<x.id>>, ty)
RECURSIVE Unresolved(_)
Unresolved(ty) == ty.t \in {"named", "param"} \/ (ty.t = "seq" /\ (~Concrete(ty) \/ Unresolved(ty.elem)))
Suits(i, x) ==
    CASE i.k = "bytes" -> x.ty.t = "seq" /\ x.ty.elem = ByteT /\ (IF Concrete(x.ty) THEN x.ty.cap ELSE MaxSequence) <= i.cap
      [] i.k = "record" -> x.ty.t = "rec" /\ (i.name = "" \/ x.ty.id = i.name)
      [] i.k = "resolved" -> ~Unresolved(x.ty)
      [] i.k = "any" -> TRUE
      [] OTHER -> x.ty = i.want[1]
Operand(i, s) == E([k |-> "operand", item |-> i], None, s)
Each(items, s) == E([k |-> "operands", items |-> items], None, s)
OperandOf(i, s) ==
    CASE i.k = "missing" -> Err(s, i.code)
      [] i.k = "argument" -> With(E(i.e, i.want, s), LAMBDA t, x : Fitted(t, x, i.want[1], i.code))
      [] i.k = "base" -> Projection(s, i.x, i.field, i.ty)
      [] OTHER -> With(E(i.e, i.want, s), LAMBDA t, x :
                       IF Suits(i, x) THEN t ELSE IF i.k = "soft" THEN Note(t, i.code) ELSE Err(t, i.code))
OperandsOf(items, s) ==
    FoldLeft(LAMBDA t, i : With(t, LAMBDA u, xs : With(Operand(i, u), LAMBDA w, x : [w EXCEPT !.v = Some(Append(xs, x))])),
             [s EXCEPT !.v = Some(<<>>)], items)
\* An operation on the operands.
Apply(items, s, op, ty) == With(Each(items, s), LAMBDA t, xs : Emit(t, op, Ids(xs), ty))
-----------------------------------------------------------------------------
(* Names and literals. *)
NameExpr(e, want, s) ==
    With(Resolve(s, Spelling(e.kids[1])), LAMBDA t, x : IF want = None THEN t ELSE Fitted(t, x, want[1], "MNE117"))
\* A path of three words or more: fields of a bound name, or a variant of a qualified type.
QualifiedExpr(e, want, s) ==
    LET words == e.kids[1].kids
    IN IF Len(words) < 3 THEN Err(s, "MNE183")
       ELSE IF Binds(s, words[1].t) THEN E(FoldLeft(ProjectNode, NameNode(words[1]), Tail(words)), want, s)
       ELSE E([k |-> "variant", kids |-> <<[k |-> "path", kids |-> Front(words)], Last(words),
                                           [k |-> "list", kids |-> <<>>]>>], want, s)
\* A literal takes the type wanted without a look at its range.
IntegerExpr(e, want, s) ==
    IF want # None /\ want[1] = FloatT
    THEN IF Since(s, 12) /\ e.n \in ExactFloat THEN Emit(s, [Op("float_const") EXCEPT !.val = e.n], <<>>, FloatT)
         ELSE Err(s, "MNE118")
    ELSE IF want = None THEN Constant(s, e.n, I64)
    ELSE IF want[1].t = "int" \/ (want[1] = ByteT /\ IsByte(e.n)) THEN Constant(s, e.n, want[1])
    ELSE Constant(Note(s, "MNE118"), e.n, I64)
FloatExpr(e, want, s) ==
    IF ~Since(s, 12) THEN Err(s, "MNE247")
    ELSE Emit(NoteIf(s, Unwanted(want, FloatT), "MNE118"), [Op("float_const") EXCEPT !.val = e.n], <<>>, FloatT)
BooleanExpr(e, want, s) ==
    Constant(NoteIf(s, Unwanted(want, BoolT), "MNE122"), IF e.kids[1].t = "true" THEN 1 ELSE 0, BoolT)
-----------------------------------------------------------------------------
(* Nominal values.  A declared field is a pair <<word, type>>, a supplied one a node. *)
WordsOf(declared) == {declared[i][1] : i \in DOMAIN declared}
RanksOf(declared) == [i \in DOMAIN declared |-> Rank[declared[i][1]]]
Supplies(fields, word) == {i \in DOMAIN fields : fields[i].kids[1].t = word}
\* The last of the values supplied for a field.
Supplied(fields, word) == fields[CHOOSE i \in Supplies(fields, word) : \A j \in Supplies(fields, word) : j <= i].kids[2]
Faults(s, fields, declared, unknown, twice) ==
    FoldLeft(LAMBDA t, i : IF fields[i].kids[1].t \notin WordsOf(declared) THEN Note(t, unknown)
                           ELSE NoteIf(t, \E j \in Supplies(fields, fields[i].kids[1].t) : j < i, twice),
             s, [i \in DOMAIN fields |-> i])
VariantAt(c, type, word) == {i \in DOMAIN c.finites[type] : c.finites[type][i].n = word}
Constructed(s, type, i, fields, want) ==
    LET declared == s.c.finites[type][i].fields
        item(f) == IF Supplies(fields, f[1]) = {} THEN [k |-> "missing", code |-> "MNE174"]
                   ELSE Soft(Supplied(fields, f[1]), f[2], "MNE175")
    IN Apply([j \in DOMAIN declared |-> item(declared[j])],
             Faults(NoteIf(s, Unwanted(want, FinT(type)), "MNE125"), fields, declared, "MNE172", "MNE173"),
             [Op("fin_construct") EXCEPT !.nominal = type, !.variant = i, !.names = RanksOf(declared)], FinT(type))
RecordOf(s, name, base, fields, want) ==
    LET declared == s.c.records[name]
        ty == RecT(name)
        noted == Faults(NoteIf(s, Unwanted(want, ty), "MNE155"), fields, declared, "MNE156", "MNE157")
        first == IF base = <<>> THEN [noted EXCEPT !.v = Some(None)]
                 ELSE With(Operand(Hard(base[1], ty, "MNE158"), noted), LAMBDA t, x : [t EXCEPT !.v = Some(Some(x))])
        item(f, x) == IF Supplies(fields, f[1]) # {} THEN Soft(Supplied(fields, f[1]), f[2], "MNE159")
                      ELSE IF x = None THEN [k |-> "missing", code |-> "MNE160"]
                      ELSE [k |-> "base", x |-> x[1], field |-> f[1], ty |-> f[2]]
    IN IF name \notin DOMAIN s.c.records THEN Err(s, "MNE154")
       ELSE With(first, LAMBDA t, x : Apply([j \in DOMAIN declared |-> item(declared[j], x)], t,
                                            [Op("rec_construct") EXCEPT !.nominal = name, !.names = RanksOf(declared)], ty))
RecordExpr(e, want, s) == RecordOf(s, Spelling(e.kids[1]), e.kids[2].kids, e.kids[3].kids, want)
\* `T.v`: a field of a bound name comes before a variant of a type, a record of that name last.
VariantExpr(e, want, s) ==
    LET type == Spelling(e.kids[1])
        word == e.kids[2]
        at == VariantAt(s.c, type, word.t)
    IN IF type \notin DOMAIN s.c.finites
       THEN IF Binds(s, type) THEN E(ProjectNode([k |-> "name", kids |-> <<e.kids[1]>>], word), want, s)
            ELSE IF type \o "." \o word.t \in DOMAIN s.c.records
                 THEN RecordOf(s, type \o "." \o word.t, <<>>, e.kids[3].kids, want)
            ELSE Err(s, "MNE123")
       ELSE IF at = {} THEN Err(s, "MNE124")
       ELSE Constructed(s, type, CHOOSE i \in at : TRUE, e.kids[3].kids, want)
FieldExpr(base, word, want, s) ==
    With(E(base, None, s), LAMBDA t, x :
         LET declared == IF x.ty.t = "rec" THEN s.c.records[x.ty.id] ELSE <<>>
             at == {i \in DOMAIN declared : declared[i][1] = word.t}
         IN IF x.ty.t # "rec" THEN Err(t, "MNE161")
            ELSE IF at = {} THEN Err(t, "MNE162")
            ELSE With(Projection(t, x, word.t, declared[CHOOSE i \in at : TRUE][2]), LAMBDA u, y :
                      IF want = None THEN u ELSE Fitted(u, y, want[1], "MNE163")))
LengthOf(s, x, want) ==
    LET r == Emit(s, Op("seq_length"), <<x.id>>, U64) IN NoteIf(r, Unwanted(want, U64), "MNE163")
\* A base that has no length is elaborated again, for its field `len`.
ProjectExpr(e, want, s) ==
    IF e.kids[2].t # "len" THEN FieldExpr(e.kids[1], e.kids[2], want, s)
    ELSE With(E(e.kids[1], None, s), LAMBDA t, x :
              IF x.ty.t = "seq" THEN LengthOf(t, x, want) ELSE FieldExpr(e.kids[1], e.kids[2], want, t))
-----------------------------------------------------------------------------
(* Sequences. *)
OutsideExact(x, e) == x.ty.exact /\ Concrete(x.ty) /\ IsLiteral(e) /\ e.n \notin 0 .. x.ty.cap - 1
InsideExact(x, e) == x.ty.exact /\ Concrete(x.ty) /\ IsLiteral(e) /\ e.n \in 0 .. x.ty.cap - 1
\* The evidence that an index needs no check: a literal in range, the index of any traversal, or
\* what a checked index of this sequence gave.
Unchecked(s, x, e, index) ==
    InsideExact(x, e) \/ IsTraversalIndex(s, e) \/ (index.id \in DOMAIN s.checked /\ s.checked[index.id] = x.id)
SelectExpr(e, want, s) ==
    With(E(e.kids[1], None, s), LAMBDA t, on :
    With(E(e.kids[2], want, t), LAMBDA u, x :
         LET ty == IF want = None THEN x.ty ELSE want[1]
             needed == IF ty.t = "vec" THEN MaskT(ty.lanes) ELSE BoolT
         IN IF x.ty # ty THEN Err(u, "MNE196")
            ELSE With(Operand(Hard(e.kids[3], ty, "MNE196"), u), LAMBDA w, y :
                      IF on.ty # needed THEN Err(w, "MNE195")
                      ELSE Emit(w, [Op("select") EXCEPT !.ty = ty], <<on.id, x.id, y.id>>, ty))))
ReplaceExpr(e, want, s) ==
    With(E(e.kids[1], None, s), LAMBDA t, x :
         IF x.ty.t # "seq" THEN Err(t, "MNE197")
         ELSE IF ~x.ty.exact /\ Concrete(x.ty) THEN Err(t, "MNE198")
         ELSE With(Each(<<Counter(e.kids[2], "MNE199"), Hard(e.kids[3], x.ty.elem, "MNE200")>>, t), LAMBDA u, ys :
                   IF OutsideExact(x, e.kids[2]) THEN Err(u, "MNE192")
                   ELSE Emit(u, [Op("seq_replace") EXCEPT !.ty = x.ty.elem, !.exact = x.ty.exact, !.cap = x.ty.cap,
                                   !.checked = ~(InsideExact(x, e.kids[2]) \/ IsTraversalIndex(u, e.kids[2]))],
                             <<x.id>> \o Ids(ys), x.ty)))
IndexExpr(e, want, s) ==
    With(E(e.kids[1], None, s), LAMBDA t, x :
         IF x.ty.t # "seq" THEN Err(t, "MNE186")
         ELSE With(E(e.kids[2], Some(U64), t), LAMBDA u, i :
                   IF OutsideExact(x, e.kids[2]) THEN Err(u, "MNE192")
                   ELSE Emit(NoteIf(u, Unwanted(want, x.ty.elem), "MNE163"),
                             [Op("seq_project") EXCEPT !.exact = x.ty.exact, !.cap = x.ty.cap,
                                !.checked = ~Unchecked(u, x, e.kids[2], i)], <<x.id, i.id>>, x.ty.elem)))
\* A view of a part; its capacity is the source's.
SliceExpr(e, want, s) ==
    With(E(e.kids[1], None, s), LAMBDA t, x :
         IF x.ty.t # "seq" THEN Err(t, "MNE187")
         ELSE LET cap == IF Concrete(x.ty) THEN x.ty.cap ELSE MaxSequence
                  ty == SeqT(x.ty.elem, FALSE, cap)
              IN With(Each(<<Wish(e.kids[2], U64), Wish(e.kids[3], U64)>>, t), LAMBDA u, ys :
                 With(Emit(u, [Op("view") EXCEPT !.exact = FALSE, !.cap = cap, !.src = [exact |-> x.ty.exact, cap |-> x.ty.cap]],
                           <<x.id>> \o Ids(ys), ty), LAMBDA w, y :
                      IF ~Unwanted(want, ty) THEN w
                      ELSE IF Since(w, 14) /\ Narrows(ty, want[1]) THEN NarrowView(w, y, want[1])
                      ELSE Note(w, "MNE188"))))
\* elaborate_checked_index
CheckedIndexExpr(e, want, s) ==
    IF ~Since(s, 14) THEN Err(s, "MNE272")
    ELSE With(Each(<<Free(e.kids[1]), Counter(e.kids[2], "MNE274")>>, s), LAMBDA t, xs :
         LET x == xs[1]
             noted == NoteIf(t, Unwanted(want, U64), "MNE276")
         IN IF x.ty.t = "seq" /\ OutsideExact(x, e.kids[2]) THEN Err(t, "MNE275")
            ELSE IF x.ty.t # "seq" THEN Err(noted, "MNE273")
            ELSE With(Emit(noted, Op("bound_check"), Ids(xs), U64), LAMBDA u, y :
                      [u EXCEPT !.checked = (y.id :> x.id) @@ @]))
\* elaborate_sequence_copy
CopyExpr(e, want, s) ==
    LET window == <<e.kids[2], e.kids[4], e.kids[5]>>
        literal == \A i \in 1 .. 3 : IsLiteral(window[i])
        fits(ty, at) == at.n >= 0 /\ e.kids[5].n >= 0 /\ at.n + e.kids[5].n <= ty.cap
        whole(ty) == ty.exact /\ Concrete(ty)
    IN IF ~Since(s, 14) THEN Err(s, "MNE263")
       ELSE With(E(e.kids[1], None, s), LAMBDA t, x :
       IF x.ty.t # "seq" THEN Err(t, "MNE264")
       ELSE IF ~x.ty.exact /\ Concrete(x.ty) THEN Err(t, "MNE265")
       ELSE With(Each(<<Counter(e.kids[2], "MNE266"), Free(e.kids[3])>>, t), LAMBDA u, ys :
       IF ys[2].ty.t # "seq" THEN Err(u, "MNE267")
       ELSE IF ys[2].ty.elem # x.ty.elem THEN Err(u, "MNE268")
       ELSE With(Each(<<Counter(e.kids[4], "MNE269"), Counter(e.kids[5], "MNE270")>>, u), LAMBDA w, zs :
       LET static == literal /\ whole(x.ty) /\ whole(ys[2].ty)
       IN IF static /\ ~(fits(x.ty, e.kids[2]) /\ fits(ys[2].ty, e.kids[4])) THEN Err(w, "MNE271")
          ELSE Emit(w, [Op("seq_copy") EXCEPT !.ty = x.ty.elem, !.exact = x.ty.exact, !.cap = x.ty.cap,
                          !.src = [exact |-> ys[2].ty.exact, cap |-> ys[2].ty.cap], !.checked = ~static],
                    <<x.id>> \o Ids(ys) \o Ids(zs), x.ty))))
\* A literal of n elements as a value of the sequence type wanted.
LiteralFault(want, n) ==
    IF want = None \/ want[1].t # "seq" THEN "MNE183"
    ELSE IF ~Concrete(want[1]) THEN "MNE183"
    ELSE IF Fits(n, want[1]) THEN "" ELSE "MNE184"
SequenceOf(s, ids, want) ==
    Emit(s, [Op("seq_construct") EXCEPT !.ty = want[1].elem, !.n = Len(ids)], ids, want[1])
SequenceExpr(e, want, s) ==
    LET elements == e.kids[1].kids
    IN IF LiteralFault(want, Len(elements)) # "" THEN Err(s, LiteralFault(want, Len(elements)))
       ELSE With(Each([i \in DOMAIN elements |-> Soft(elements[i], want[1].elem, "MNE185")], s),
                 LAMBDA t, xs : SequenceOf(t, Ids(xs), want))
\* The element is elaborated once, and its value stands for each.
RepeatExpr(e, want, s) ==
    LET count == Last(e.kids[1].kids).kids[1].t
        n == Numerals[count]
    IN IF ~Numeral(count) THEN Err(s, "MNE256")
       ELSE IF LiteralFault(want, n) # "" THEN Err(s, LiteralFault(want, n))
       ELSE With(Operand(Soft(e.kids[1].kids[1], want[1].elem, "MNE185"), s),
                 LAMBDA t, x : SequenceOf(t, [i \in 1 .. n |-> x.id], want))
IsRepeat(e) == e.kids[1].kids # <<>> /\ Last(e.kids[1].kids).k = "count"
-----------------------------------------------------------------------------
(* Operators. *)
Arithmetical == {"+", "-", "*", "/", "%", "+%", "-%", "*%", "+|", "-|", "*|"}
Bitwise == {"&", "|", "^"}
Comparing == {"==", "!=", "<", "<=", ">", ">="}
OperatorOf(mark) ==
    CASE mark \in {"+", "+%", "+|"} -> "add" [] mark \in {"-", "-%", "-|"} -> "sub"
      [] mark \in {"*", "*%", "*|"} -> "mul" [] mark = "/" -> "div" [] mark = "%" -> "mod"
      [] mark = "&" -> "and" [] mark = "|" -> "or" [] mark = "^" -> "xor" [] mark = "<<" -> "shl" [] mark = ">>" -> "shr"
      [] mark = "==" -> "eq" [] mark = "!=" -> "ne" [] mark = "<" -> "lt" [] mark = "<=" -> "le"
      [] mark = ">" -> "gt" [] mark = ">=" -> "ge" [] mark = "&&" -> "and" [] mark = "||" -> "or"
IntentOf(mark) ==
    CASE mark \in {"+%", "-%", "*%"} \cup Bitwise \cup {"<<", ">>"} -> "wrapping"
      [] mark \in {"+|", "-|", "*|"} -> "saturating" [] OTHER -> "checked"
Marked(kind, mark, ty) == [Op(kind) EXCEPT !.op = OperatorOf(mark), !.ty = ty]
IntegerOp(mark, ty) == [Marked("int", mark, ty) EXCEPT !.intent = IntentOf(mark)]
Convertible0(ty) == ty.t \in {"byte", "float"} \/ (ty.t = "int" /\ ty.bits <= CounterBits)

CastExpr(e, want, s) ==
    With(E(e.kids[1], None, s), LAMBDA t, x : With(Declared([t EXCEPT !.c.generics = <<>>], e.kids[2]), LAMBDA typed, y :
         LET u == [typed EXCEPT !.c = s.c]
         IN IF ~(Convertible0(x.ty) \/ x.ty = BoolT) \/ ~Convertible0(y.ty) THEN Err(u, "MNE189")
            ELSE IF FloatT \in {x.ty, y.ty} /\ ~Since(s, 12) THEN Err(u, "MNE247")
            ELSE Emit(NoteIf(u, Unwanted(want, y.ty), "MNE163"), [Op("convert") EXCEPT !.ty = x.ty, !.to = y.ty], <<x.id>>, y.ty)))
NotExpr(e, s) ==
    IF ~Since(s, 13) THEN Err(s, "MNE149")
    ELSE With(E(e.kids[1], None, s), LAMBDA t, x :
              IF x.ty # BoolT THEN Err(t, "MNE181") ELSE Emit(t, Op("bool_not"), <<x.id>>, BoolT))
ShiftExpr(e, s) ==
    With(Each(<<Free(e.kids[1]), Wish(e.kids[2], U64)>>, s), LAMBDA t, xs :
         LET ty == xs[1].ty
         IN IF ty = ByteT THEN Emit(t, Marked("byte_shift", e.k, BoolT), Ids(xs), ByteT)
            ELSE IF ty.t = "int" THEN Emit(t, IntegerOp(e.k, ty), Ids(xs), ty)
            ELSE Err(t, "MNE190"))
\* The operation of an operator on two values of one type.
Operated(s, m, ids, ty) ==
    LET bools == m \in {"&&", "||"}
        comparing == m \in Comparing
    IN CASE bools -> IF ty = BoolT THEN Emit(s, Marked("bool", m, BoolT), ids, BoolT) ELSE Err(s, "MNE181")
         [] ty = BoolT /\ Since(s, 13) /\ m \in {"==", "!="} -> Emit(s, Marked("bool_compare", m, BoolT), ids, BoolT)
         [] ty = ByteT -> IF comparing THEN Emit(s, Marked("byte_compare", m, BoolT), ids, BoolT)
                          ELSE IF m \in Bitwise THEN Emit(s, Marked("byte", m, BoolT), ids, ByteT) ELSE Err(s, "MNE191")
         [] ty = FloatT -> IF ~Since(s, 12) THEN Err(s, "MNE247")
                           ELSE IF comparing THEN Emit(s, Marked("float_compare", m, BoolT), ids, BoolT)
                           ELSE IF m \in {"+", "-", "*", "/"} THEN Emit(s, Marked("float", m, BoolT), ids, FloatT)
                           ELSE Err(s, "MNE248")
         [] ty.t = "int" -> IF comparing THEN Emit(s, Marked("int_compare", m, ty), ids, BoolT)
                            ELSE Emit(s, IntegerOp(m, ty), ids, ty)
         [] OTHER -> Err(s, IF m \in Arithmetical THEN "MNE120" ELSE "MNE121")
\* An operand takes the type of the other; arithmetic passes on what is wanted of the result, and
\* a literal on its left waits for the right operand.
BinaryExpr(e, want, s) ==
    LET threads == e.k \in Arithmetical \cup Bitwise
        wanted == IF threads THEN want ELSE None
        flipped == threads /\ IsLiteral(e.kids[1])
        one == IF flipped THEN e.kids[2] ELSE e.kids[1]
        two == IF flipped THEN e.kids[1] ELSE e.kids[2]
    IN With(E(one, wanted, s), LAMBDA t, x :
       With(E(two, Some(x.ty), t), LAMBDA u, y :
            IF x.ty # y.ty THEN Err(u, "MNE119")
            ELSE Operated(u, e.k, IF flipped THEN <<y.id, x.id>> ELSE <<x.id, y.id>>, x.ty)))
-----------------------------------------------------------------------------
(* Match. *)
Body(arm) == arm.kids[3]
BindingsOf(arm) == SelectSeq(arm.kids[2].kids, LAMBDA b : b.k = "binding")
IgnoresRest(arm) == \E i \in DOMAIN arm.kids[2].kids : arm.kids[2].kids[i].k = "rest"
IsScalarArm(arm) == arm.kids[1].k = "scalar"
IsPlainArm(arm, words) ==
    ~IsScalarArm(arm) /\ Len(arm.kids[1].kids) = 1 /\ arm.kids[1].kids[1].t \in words
\* The arms that stand, and the diagnostics of the others: acc is a pair of the state and the arms.
Wrong(acc, code) == [acc EXCEPT ![1] = Note(@, code)]
Stands(acc, arm) == [acc EXCEPT ![2] = Append(@, arm)]
BoolArm(acc, arm) ==
    IF ~IsPlainArm(arm, {"true", "false"}) THEN Wrong(acc, "MNE138")
    ELSE IF arm.kids[2].kids # <<>> THEN Wrong(acc, "MNE177")
    ELSE IF \E i \in DOMAIN acc[2] : acc[2][i].n = arm.kids[1].kids[1].t THEN Wrong(acc, "MNE139")
    ELSE Stands(acc, [n |-> arm.kids[1].kids[1].t, e |-> Body(arm), binds |-> <<>>])
ScalarArm(acc, arm, ty) ==
    LET defaulted == \E i \in DOMAIN acc[2] : acc[2][i].n = None
    IN IF IsScalarArm(arm)
       THEN IF ~InRange(arm.kids[1].n, ty) THEN Wrong(acc, "MNE145")
            ELSE IF defaulted \/ \E i \in DOMAIN acc[2] : acc[2][i].n = Some(arm.kids[1].n) THEN Wrong(acc, "MNE139")
            ELSE Stands(acc, [n |-> Some(arm.kids[1].n), e |-> Body(arm), binds |-> <<>>])
       ELSE IF ~IsPlainArm(arm, {"_"}) \/ arm.kids[2].kids # <<>> THEN Wrong(acc, "MNE138")
       ELSE IF defaulted THEN Wrong(acc, "MNE139")
       ELSE Stands(acc, [n |-> None, e |-> Body(arm), binds |-> <<>>])
\* The payload fields an arm names: each declared, each once, and all of them unless the rest is ignored.
PayloadBinding(acc, b, declared) ==
    LET field == b.kids[1].t
        at == {i \in DOMAIN declared : declared[i][1] = field}
    IN IF at = {} THEN Wrong(acc, "MNE177")
       ELSE IF \E i \in DOMAIN acc[2] : acc[2][i].field = field THEN Wrong(acc, "MNE178")
       ELSE Stands(acc, [field |-> field, name |-> Last(b.kids).t, ty |-> declared[CHOOSE i \in at : TRUE][2]])
VariantArm(acc, arm, type) ==
    LET words == arm.kids[1].kids
        qualifier == Spelling([k |-> "path", kids |-> Front(words)])
        at == VariantAt(acc[1].c, type, Last(words).t)
        i == CHOOSE i \in at : TRUE
        declared == acc[1].c.finites[type][i].fields
        bound == FoldLeft(LAMBDA a, b : PayloadBinding(a, b, declared), <<acc[1], <<>>>>, BindingsOf(arm))
        omitted == SelectSeq(declared, LAMBDA f : \A j \in DOMAIN bound[2] : bound[2][j].field # f[1])
    IN IF IsScalarArm(arm) THEN Wrong(acc, "MNE138")
       ELSE IF Len(words) > 1 /\ qualifier # type THEN Wrong(acc, "MNE176")
       ELSE IF at = {} THEN Wrong(acc, "MNE138")
       ELSE IF ~IgnoresRest(arm) /\ omitted # <<>>
            THEN <<FoldLeft(LAMBDA t, f : Note(t, "MNE179"), bound[1], omitted), acc[2]>>
       ELSE IF \E j \in DOMAIN acc[2] : acc[2][j].n = i THEN Wrong(<<bound[1], acc[2]>>, "MNE139")
       ELSE Stands(<<bound[1], acc[2]>>, [n |-> i, e |-> Body(arm), binds |-> bound[2]])

\* The value of one arm, in its own block and scope, goes on to the join.
ArmValue(s, x, arm, b, join, ty) ==
    LET bind(t, d) ==
          LET r == Emit(t, [Op("fin_project") EXCEPT !.nominal = x.ty.id, !.variant = arm.n, !.field = Rank[d.field]], <<x.id>>, d.ty)
          IN BindProjection(r, d.name, r.v[1].id, d.ty, x.b)
        r == E(arm.e, Some(ty), FoldLeft(bind, Enter(At(s, b)), arm.binds))
        passed(t, y) == LET noted == NoteIf(t, y.ty # ty, "MNE141") IN IF IsOpen(t) THEN End(noted, To(join, <<y.id>>)) ELSE noted
    IN Leave(With(r, passed))
Joined(s, x, arms, first, join, ty) ==
    LET result == NewParam(s, join, ty)
        after == FoldLeft(LAMBDA t, i : ArmValue(t, x, arms[i], first + i, join, ty), result, [i \in DOMAIN arms |-> i])
    IN [At(after, join) EXCEPT !.v = result.v]
\* Tests one arm after the other, each in its own block; the last arm needs none.
Dispatched(s, x, arms, ty) ==
    LET join == Len(s.blocks) + 1
        n == Len(arms)
        tested(t, a) ==
          IF x.ty.t = "fin" THEN Emit(t, [Op("fin_is") EXCEPT !.nominal = x.ty.id, !.variant = a.n], <<x.id>>, BoolT)
          ELSE With(Constant(t, a.n[1], x.ty), LAMBDA u, lit :
                    Emit(u, [Op("int_compare") EXCEPT !.op = "eq", !.ty = x.ty], <<x.id, lit.id>>, BoolT))
        test(t, i) ==
          IF i = n THEN End(t, To(join + i, <<>>))
          ELSE With(tested(t, arms[i]), LAMBDA u, y : At(End(u, Either(y.id, join + i, join + n + i, <<>>)), join + n + i))
    IN Joined(FoldLeft(test, AddBlocks(s, 2 * n), [i \in 1 .. n |-> i]), x, arms, join, join, ty)
BoolMatch(s, x, arms, ty) ==
    LET join == Len(s.blocks) + 1
        ordered == SelectSeq(arms, LAMBDA a : a.n = "true") \o SelectSeq(arms, LAMBDA a : a.n = "false")
    IN Joined(End(AddBlocks(s, 3), Either(x.id, join + 1, join + 2, <<>>)), x, ordered, join, join, ty)
\* The arms that stand, with the diagnostics of the others, cover every case.
Matched(t, x, found, scalar, want) ==
    LET whole == IF x.ty = BoolT THEN {"true", "false"} ELSE IF scalar THEN {None} ELSE DOMAIN t.c.finites[x.ty.id]
        checked == NoteIf(found[1], ~(whole \subseteq {found[2][i].n : i \in DOMAIN found[2]}), "MNE140")
    IN IF Len(checked.errs) # Len(t.errs) \/ found[2] = <<>> THEN [checked EXCEPT !.v = None]
       ELSE IF x.ty = BoolT THEN BoolMatch(checked, x, found[2], want[1])
       ELSE Dispatched(checked, x, found[2], want[1])
MatchExpr(e, want, s) ==
    With(E(e.kids[1], None, s), LAMBDA t, x :
         LET scalar == x.ty.t = "int" /\ Since(t, 13)
             arm(acc, a) == IF x.ty = BoolT THEN BoolArm(acc, a) ELSE IF scalar THEN ScalarArm(acc, a, x.ty)
                            ELSE VariantArm(acc, a, x.ty.id)
         IN IF x.ty # BoolT /\ ~scalar /\ x.ty.t # "fin" THEN Err(t, "MNE136")
            ELSE IF want = None THEN Err(t, "MNE137")
            ELSE Matched(t, x, FoldLeft(arm, <<t, <<>>>>, e.kids[2].kids), scalar, want))
-----------------------------------------------------------------------------
(* Calls.  A generic argument is a type or a number; below zero, the number is the rank of a *)
(* parameter of the caller, passed on.                                                      *)
TypeArg(ty) == [k |-> "Type", ty |-> ty]
NatArg(n) == [k |-> "Nat", n |-> n]
RECURSIVE Replaced(_, _, _)
\* substitute_body_type
Replaced(ty, types, nats) ==
    CASE ty.t = "param" /\ ty.n \in DOMAIN types -> types[ty.n]
      [] ty.t = "seq" -> SeqT(Replaced(ty.elem, types, nats), ty.exact, IF ty.cap \in DOMAIN nats THEN nats[ty.cap] ELSE ty.cap)
      [] OTHER -> ty
\* A declared type with the arguments in place of the parameters, and then, by the names it has
\* by now, with the caller's parameters for those passed on (rename_forwarded_params).
Instantiated(ty, params, args) ==
    LET types == [n \in {params[i].n : i \in {j \in DOMAIN params : args[j].k = "Type"}} |->
                    args[CHOOSE i \in DOMAIN params : params[i].n = n].ty]
        nats(keep(_)) == [r \in {-Rank[params[i].n] : i \in {j \in DOMAIN params : args[j].k = "Nat" /\ keep(args[j].n)}} |->
                            args[CHOOSE i \in DOMAIN params : -Rank[params[i].n] = r].n]
    IN Replaced(Replaced(ty, types, nats(LAMBDA n : n >= 0)),
                [n \in {m \in DOMAIN types : types[m].t = "param"} |-> types[n]], nats(LAMBDA n : n < 0))
\* One explicit argument for one parameter: appended, or refused.
TypeArgument(s, node, args) ==
    With(Declared(s, node), LAMBDA t, y :
         IF node.k = "count" THEN Err(t, "MNE222") ELSE [t EXCEPT !.v = Some(Append(args, TypeArg(y.ty)))])
NatArgument(s, node, args) ==
    LET word == Spelling(node)
        give(n) == [s EXCEPT !.v = Some(Append(args, NatArg(n)))]
        names == node.k \in {"vec", "mask", "seq"} \/ Len(node.kids) > 1 \/ NominalType(word, s.c) # None \/ word \in DOMAIN Scalars
    IN IF node.k = "count" THEN IF Numerals[word] > SequenceBound(s.c.profile) THEN Err(s, "MNE225") ELSE give(Numerals[word])
       ELSE IF node.k = "path" /\ IsParam(s.c, word, "Nat") THEN give(-Rank[word])
       ELSE Err(s, IF (node.k = "path" /\ IsParam(s.c, word, "Type")) \/ names THEN "MNE222" ELSE "MNE224")
ExplicitArg(s, param, node, args) == IF param.k = "Type" THEN TypeArgument(s, node, args) ELSE NatArgument(s, node, args)
RECURSIVE Answers(_, _, _)
\* collect_inference_constraints: what an argument of one type says of the callee's parameters.
Answers(declared, actual, param) ==
    IF declared.t = "param" THEN IF param.n = declared.n THEN {TypeArg(actual)} ELSE {}
    ELSE IF declared.t = "seq" /\ actual.t = "seq"
    THEN Answers(declared.elem, actual.elem, param) \cup
         (IF declared.cap = -Rank[param.n] /\ declared.exact = actual.exact THEN {NatArg(actual.cap)} ELSE {})
    ELSE {}
\* infer_generic_args: the arguments are elaborated for their types; only the operations of the
\* block that is current then are taken back.
TakenBack(t, kept) == [t EXCEPT !.blocks[t.cur].ops = SubSeq(@, 1, IF kept < Len(@) THEN kept ELSE Len(@))]
Inferred(s, sig, args) ==
    LET kept == Len(s.blocks[s.cur].ops)
        back(t) == TakenBack(t, kept)
        tried == Each([i \in DOMAIN args |-> Free(args[i])], s)
        of(p) == UNION {Answers(sig.in[i], tried.v[1][i].ty, p) : i \in DOMAIN args}
    IN IF Len(args) # Len(sig.in) THEN Err(s, "MNE220")
       ELSE IF tried.v = None THEN back(tried)
       ELSE IF \E i \in DOMAIN sig.generics : Cardinality(of(sig.generics[i])) # 1 THEN Err(back(tried), "MNE220")
       ELSE [back(tried) EXCEPT !.errs = s.errs,
               !.v = Some([i \in DOMAIN sig.generics |-> CHOOSE a \in of(sig.generics[i]) : TRUE])]
GenericArgsOf(s, sig, nodes, args) ==
    IF sig.generics = <<>> /\ nodes # <<>> THEN Err(s, "MNE222")
    ELSE IF sig.generics = <<>> THEN [s EXCEPT !.v = Some(<<>>)]
    ELSE IF nodes = <<>> THEN IF Since(s, 13) THEN Inferred(s, sig, args) ELSE Err(s, "MNE220")
    ELSE IF Len(nodes) # Len(sig.generics) THEN Err(s, "MNE221")
    ELSE FoldLeft(LAMBDA t, i : With(t, LAMBDA u, given : ExplicitArg(u, sig.generics[i], nodes[i], given)),
                  [s EXCEPT !.v = Some(<<>>)], [i \in DOMAIN nodes |-> i])
\* Authority is the caller's: the capabilities and effects of a callee are among its own.
Closed(c, sig) ==
    LET own == c.sigs[c.fn]
    IN sig.caps \subseteq own.caps /\ \A e \in ToSet(sig.effects) : \E f \in ToSet(own.effects) : e[1] = f[1] /\ e[3] = f[3]
RECURSIVE Descends(_, _)
Descends(s, b) == b \in DOMAIN s.prov /\ (s.prov[b] = s.c.measure \/ Descends(s, s.prov[b]))
\* check_self_call_structure
SelfCall(s, sig, xs) ==
    LET descends == xs # <<>> /\ sig.in[1].t = "fin" /\ Descends(s, xs[1].b)
    IN NoteIf(s, Since(s, 13) /\ ~descends, "MNE130")
\* The value as the type wanted of it where a rule makes it one.
Refit(s, x, want) ==
    IF want # None /\ (Borrowable(s, x, want[1]) \/ WidensTo(s, x.ty, want[1])) THEN Fitted(s, x, want[1], "") ELSE s
Argument(e, ty) == [k |-> "argument", e |-> e, want |-> Some(ty), code |-> "MNE133"]
CallTo(s, name, sig, in, out, given, args, want) ==
    LET suits == want = None \/ want[1] = out \/ Borrows(out, want[1]) \/ WidensTo(s, out, want[1])
    IN IF Len(args) # Len(in) THEN Err(s, "MNE132")
       ELSE With(Each([i \in DOMAIN args |-> Argument(args[i], in[i])], s), LAMBDA t, xs :
            IF ~Closed(s.c, sig) THEN Err(t, "MNE134")
            ELSE With(Emit(NoteIf(t, ~suits, "MNE135"),
                           [Op("call") EXCEPT !.fn = name, !.caps = sig.caps, !.effects = ToSet(sig.effects), !.names = given],
                           Ids(xs), out), LAMBDA u, y :
                      LET checked == IF name = s.c.fn THEN SelfCall(u, sig, xs) ELSE u IN Refit(checked, y, want)))
CallExpr(e, want, s) ==
    LET name == Spelling(e.kids[1])
        args == e.kids[3].kids
    IN IF name \notin DOMAIN s.c.sigs THEN Err(s, "MNE131")
       ELSE With(GenericArgsOf(s, s.c.sigs[name], e.kids[2].kids, args),
                 LAMBDA t, given :
                   LET sig == s.c.sigs[name]
                   IN CallTo(t, name, sig, [i \in DOMAIN sig.in |-> Instantiated(sig.in[i], sig.generics, given)],
                             Instantiated(sig.out, sig.generics, given), given, args, want))
-----------------------------------------------------------------------------
(* Host operations.  Each is allowed by the one effect of its kind the function declares. *)
HostText == SeqT(ByteT, FALSE, HostBytes)
Has(s, name) == s.c.sigs[s.c.fn][name]
\* check_host_authority
Authority(s, kind, missing, double) ==
    LET own == SelectSeq(Has(s, "effects"), LAMBDA e : e[1] = kind)
    IN IF own = <<>> THEN Err(s, missing) ELSE IF Len(own) > 1 THEN Err(s, double)
       ELSE IF own[1][3] \notin Has(s, "caps") THEN Err(s, missing) ELSE [s EXCEPT !.v = Some(own[1][3])]
HostOp(s, op, needs, in, ty) == Emit(s, [Op("host") EXCEPT !.host = op, !.needs = needs], in, ty)
\* The type wanted, the authority and then the operands, in that order.
Asked(s, want, ty, code, authority, items, op) ==
    IF Unwanted(want, ty) THEN Err(s, code)
    ELSE With(authority, LAMBDA t, cap : With(Each(items, t), LAMBDA u, xs : HostOp(u, op, cap, Ids(xs), ty)))
ClockRead(want, s) ==
    Asked(s, want, U64, "MNE240", Authority(s, "clock_read", "MNE238", "MNE239"), <<>>, "clock_read")
HostRead(want, s) ==
    Asked(s, want, HostText, "MNE237", Authority(s, "host_read", "MNE235", "MNE236"), <<>>, "blob_read")
HostWrite(e, want, s) ==
    Asked(s, want, U64, "MNE255", Authority(s, "host_write", "MNE253", "MNE254"), <<ByteView(e.kids[1], "MNE255")>>, "blob_append")
Sha256Digest(e, want, s) ==
    Asked(s, want, HostText, "MNE243", Authority(s, "sha256_digest", "MNE241", "MNE242"),
          <<ByteView(e.kids[1], "MNE243")>>, "sha256_digest")
Ed25519Verify(e, want, s) ==
    Asked(s, want, BoolT, "MNE246", Authority(s, "ed25519_verify", "MNE244", "MNE245"),
          [i \in 1 .. 3 |-> ByteView(e.kids[i], "MNE246")], "ed25519_verify")
StructuredDigest(e, want, s) ==
    Asked(s, want, HostText, "MNE280", Authority(s, "structured_digest", "MNE281", "MNE282"), <<Free(e.kids[1])>>, "structured_digest")
\* The tree: reads ask for authority first, changes once their operands are there.
FsIndex(e, i) == Counter(e.kids[i], "MNE262")
FsName(e, i) == ByteView(e.kids[i], "MNE279")
FsNullary(e, want, s) == Asked(s, want, U64, "MNE261", Authority(s, "fs_list", "MNE257", "MNE258"), <<>>, e.t)
FsEntryAt(e, want, s) ==
    Asked(s, want, IF e.t = "fs_entry_name_at" THEN HostText ELSE U64, "MNE261",
          Authority(s, "fs_list", "MNE257", "MNE258"), <<FsIndex(e, 1)>>, e.t)
FsReadBytesAt(e, want, s) ==
    Asked(s, want, HostText, "MNE261", Authority(s, "fs_read", "MNE259", "MNE260"), [i \in 1 .. 3 |-> FsIndex(e, i)], e.t)
FsMutation(e, want, s, items) ==
    With(Each(items, s), LAMBDA t, xs :
         IF Unwanted(want, U64) THEN Err(t, "MNE261")
         ELSE With(Authority(t, "fs_write", "MNE277", "MNE278"), LAMBDA u, cap : HostOp(u, e.t, cap, Ids(xs), U64)))
FsCreateFile(e, want, s) == FsMutation(e, want, s, <<FsName(e, 1), FsName(e, 2)>>)
FsWriteBytesAt(e, want, s) == FsMutation(e, want, s, <<FsIndex(e, 1), FsIndex(e, 2), FsName(e, 3)>>)
FsIndexThenName(e, want, s) == FsMutation(e, want, s, <<FsIndex(e, 1), FsName(e, 2)>>)
FsMkdir(e, want, s) == FsMutation(e, want, s, <<FsName(e, 1)>>)
FsIndexMutation(e, want, s) == FsMutation(e, want, s, <<FsIndex(e, 1)>>)
\* Typed artifacts: the result has the type wanted, which has to be there and to be resolved.
Decoded(s, want, code, authority, items, op) ==
    IF want = None THEN Err(s, code) ELSE IF Unresolved(want[1]) THEN Err(s, code)
    ELSE Asked(s, want, want[1], code, authority, items, op)
StructuredRead(e, want, s) ==
    Decoded(s, want, "MNE287", Authority(s, "structured_read", "MNE288", "MNE289"),
            <<BytesUpTo(e.kids[1], 1024, "MNE290"), BytesUpTo(e.kids[2], 64, "MNE291")>>, e.t)
StructuredReadIdentity(e, want, s) ==
    Decoded(s, want, "MNE295", Authority(s, "structured_read_identity", "MNE296", "MNE297"),
            <<BytesUpTo(e.kids[1], 1024, "MNE298"), BytesUpTo(e.kids[2], 64, "MNE299"), BytesUpTo(e.kids[3], 256, "MNE300")>>, e.t)
ProviderCall(e, want, s) ==
    Decoded(s, want, "MNE301", Authority(s, "provider_call", "MNE302", "MNE303"),
            <<BytesUpTo(e.kids[1], 32, "MNE304"), Free(e.kids[2])>>, e.t)
StructuredWrite(e, want, s) ==
    Asked(s, want, U64, "MNE292", Authority(s, "structured_write", "MNE293", "MNE294"),
          <<BytesUpTo(e.kids[1], 1024, "MNE295"), BytesUpTo(e.kids[2], 64, "MNE296"),
            [k |-> "resolved", e |-> e.kids[3], want |-> None, code |-> "MNE297"]>>, e.t)
RecordItem(e, name, code) == [k |-> "record", e |-> e, want |-> None, code |-> code, name |-> name]
ProcessRun(e, want, s) ==
    IF want = None THEN Err(s, "MNE283") ELSE IF want[1].t # "rec" THEN Err(s, "MNE283")
    ELSE Asked(s, want, want[1], "", Authority(s, "process_run", "MNE284", "MNE285"), <<RecordItem(e.kids[1], "", "MNE286")>>, e.t)
\* The records of a lifecycle call are the standard library's, by name and declaring module.
ProcessLifecycle(e, want, s) ==
    LET standard == s.c.module = "mncs.std.process.v1"
        result == RecT(IF e.t = "process_start" THEN "ProcessStartResult" ELSE "ProcessObservation")
        item == RecordItem(e.kids[1], IF e.t = "process_start" THEN "ProcessRequest" ELSE "ProcessHandle", "MNE286")
    IN IF want # Some(result) \/ ~standard THEN Err(s, "MNE287")
       ELSE Asked(s, want, result, "", Authority(s, "process_run", "MNE284", "MNE285"), <<item>>, e.t)
FloatIntrinsic(e, want, s) ==
    IF ~Since(s, 12) THEN Err(s, "MNE247")
    ELSE IF Unwanted(want, FloatT) THEN Err(s, "MNE252")
    ELSE Apply(<<Hard(e.kids[1], FloatT, "MNE251")>>, s, [Op("float_intrinsic") EXCEPT !.op = e.t], FloatT)
-----------------------------------------------------------------------------
(* Vectors and masks. *)
VectorOp(kind, x, op, intent) ==
    [Op(kind) EXCEPT !.n = x.ty.lanes, !.op = op, !.intent = intent, !.ty = IF x.ty.t = "vec" THEN x.ty.elem ELSE UnsetT]
VectorBinaries ==
    [w \in {"vec_and", "vec_or", "vec_xor", "vec_shl", "vec_shr", "vec_min", "vec_max"} |->
        <<SubSeq(w, 5, Len(w)), "wrapping">>]
    @@ ("vec_add_wrap" :> <<"add", "wrapping">> @@ "vec_add_checked" :> <<"add", "checked">> @@ "vec_add_sat" :> <<"add", "saturating">>
     @@ "vec_sub_wrap" :> <<"sub", "wrapping">> @@ "vec_sub_checked" :> <<"sub", "checked">> @@ "vec_sub_sat" :> <<"sub", "saturating">>
     @@ "vec_mul_wrap" :> <<"mul", "wrapping">> @@ "vec_mul_checked" :> <<"mul", "checked">> @@ "vec_mul_sat" :> <<"mul", "saturating">>)
VectorCompares == {"vec_eq", "vec_ne", "vec_lt", "vec_le", "vec_gt", "vec_ge"}
MaskBinaries == {"mask_and", "mask_or", "mask_xor"}
MaskReductions == {"mask_any", "mask_all", "mask_none"}
Reductions ==
    "reduce_sum_wrap" :> <<"sum", "wrapping">> @@ "reduce_sum_checked" :> <<"sum", "checked">>
 @@ "reduce_min" :> <<"min", "wrapping">> @@ "reduce_max" :> <<"max", "wrapping">>
VectorArity(name) ==
    CASE name \in {"splat", "mask_not"} \cup MaskReductions \cup DOMAIN Reductions -> 1 [] name = "replace_lane" -> 3 [] OTHER -> 2
\* Construction from lanes or from one value, in the type wanted.
VectorConstruct(args, want, s) ==
    IF want = None \/ want[1].t # "vec" THEN Err(s, "MNE202")
    ELSE IF Len(args) # want[1].lanes THEN Err(s, "MNE203")
    ELSE Apply([i \in DOMAIN args |-> Hard(args[i], want[1].elem, "MNE204")], s,
               VectorOp("vec_construct", [ty |-> want[1]], "", ""), want[1])
VectorSplat(args, want, s) ==
    IF want = None \/ want[1].t # "vec" THEN Err(s, "MNE205")
    ELSE Apply(<<Wish(args[1], want[1].elem)>>, s, VectorOp("vec_splat", [ty |-> want[1]], "", ""), want[1])
Lane(name, args, s) ==
    With(E(args[1], None, s), LAMBDA t, x :
         LET inside == IsLiteral(args[2]) /\ args[2].n \in 0 .. x.ty.lanes - 1
             op(kind) == [VectorOp(kind, x, "", "") EXCEPT !.checked = ~inside]
         IN IF x.ty.t # "vec" THEN Err(t, "MNE206")
            ELSE IF IsLiteral(args[2]) /\ ~inside THEN Err(t, "MNE207")
            ELSE With(Each(IF name = "extract_lane" THEN <<Wish(args[2], U64)>>
                           ELSE <<Wish(args[2], U64), Wish(args[3], x.ty.elem)>>, t), LAMBDA u, ys :
                      IF name = "extract_lane" THEN Emit(u, op("vec_extract"), <<x.id, ys[1].id>>, x.ty.elem)
                      ELSE Emit(u, op("vec_replace"), <<x.id, ys[1].id, ys[2].id>>, x.ty)))
VectorBinary(name, args, want, s) ==
    With(E(args[1], want, s), LAMBDA t, x :
         IF x.ty.t # "vec" THEN Err(t, "MNE208")
         ELSE IF x.ty.elem.t # "int" THEN Err(t, "MNE209")
         ELSE With(Operand(Hard(args[2], x.ty, "MNE210"), t), LAMBDA u, y :
                   IF name \notin DOMAIN VectorBinaries THEN Err(u, "MNE211")
                   ELSE LET how == VectorBinaries[name]
                        IN Emit(u, VectorOp("vec_binary", x, how[1], how[2]), <<x.id, y.id>>, x.ty)))
\* A comparison of vectors or an operation of masks: two operands of one type.
Lanewise(args, s, family, code, other, kind, op) ==
    With(E(args[1], None, s), LAMBDA t, x :
         IF x.ty.t # family THEN Err(t, code)
         ELSE With(Operand(Hard(args[2], x.ty, other), t), LAMBDA u, y :
                   Emit(u, VectorOp(kind, x, op, ""), <<x.id, y.id>>, MaskT(x.ty.lanes))))
Reduce(arg, s, family, code, kind, op, intent) ==
    With(E(arg, None, s), LAMBDA t, x :
         IF x.ty.t # family THEN Err(t, code)
         ELSE Emit(t, VectorOp(kind, x, op, intent), <<x.id>>,
                   CASE kind = "mask_not" -> x.ty [] kind = "mask_reduce" -> BoolT [] OTHER -> x.ty.elem))
VectorExpr(e, want, s) ==
    LET args == e.kids
        name == e.t
        suffix(n) == SubSeq(name, n, Len(name))
    IN CASE name = "vector" -> VectorConstruct(args, want, s)
         [] name # "vector" /\ Len(args) # VectorArity(name) -> Err(s, "MNE201")
         [] name = "splat" -> VectorSplat(args, want, s)
         [] name \in {"extract_lane", "replace_lane"} -> Lane(name, args, s)
         [] name \in VectorCompares -> Lanewise(args, s, "vec", "MNE212", "MNE210", "vec_compare", suffix(5))
         [] name \in MaskBinaries -> Lanewise(args, s, "mask", "MNE213", "MNE214", "mask", suffix(6))
         [] name = "mask_not" -> Reduce(args[1], s, "mask", "MNE213", "mask_not", "", "")
         [] name \in MaskReductions -> Reduce(args[1], s, "mask", "MNE215", "mask_reduce", suffix(6), "")
         [] name \in DOMAIN Reductions -> Reduce(args[1], s, "vec", "MNE216", "vec_reduce", Reductions[name][1], Reductions[name][2])
         [] OTHER -> VectorBinary(name, args, want, s)
-----------------------------------------------------------------------------
(* Statements, which thread the state as expressions do. *)
RECURSIVE Stmts(_, _)
Stmts(list, s) ==
    IF list = <<>> THEN s ELSE IF ~IsOpen(s) THEN Err(s, "MNE114") ELSE Stmts(Tail(list), E(Head(list), None, s))
Jump(s, b) == IF IsOpen(s) THEN End(s, To(b, <<>>)) ELSE s
Branched(s, b, list, join) == Leave(Jump(Stmts(list, Enter(At(s, b))), join))

\* A binding has its declared type, whatever the value's.
LetStmt(e, s) ==
    With(Declared(s, e.kids[2]), LAMBDA t, d : With(E(e.kids[3], Some(d.ty), t), LAMBDA u, x :
         LET name == e.kids[1].t
             noted == NoteIf(u, x.ty # d.ty /\ ~WidensTo(u, x.ty, d.ty), "MNE115")
             shadows == name \in DOMAIN Innermost(u) /\ Innermost(u)[name].kind \in {"Parameter", "Binding"}
         IN IF shadows /\ ~Since(u, 13) THEN Err(noted, "MNE110") ELSE BindName(noted, name, x.id, d.ty, "Binding")))
IfStmt(e, s) ==
    With(E(e.kids[1], Some(BoolT), s), LAMBDA t, x :
         LET then == Len(t.blocks) + 1
             split == End(AddBlocks(t, 3), Either(x.id, then, then + 1, <<>>))
         IN IF x.ty # BoolT THEN Err(t, "MNE116")
            ELSE At(Branched(Branched(split, then, e.kids[2].kids, then + 2), then + 1, e.kids[3].kids, then + 2), then + 2))
FailStmt(e, s) == End(NoteIf(s, e.kids[1].t \notin {"isolated", "atomic", "fatal"}, "MNE113"), [k |-> "failure"])
ReturnStmt(e, s) ==
    With(E(e.kids[1], Some(s.c.out), s), LAMBDA t, x :
         End(NoteIf(t, x.ty # s.c.out /\ ~WidensTo(t, x.ty, s.c.out), "MNE103"), [k |-> "return", vals |-> <<x.id>>]))
-----------------------------------------------------------------------------
(* Bounded iterations.  A domain is the attempts of a literal bound, or the elements of a sequence. *)
Domain(over, bound, level, len) == [over |-> over, bound |-> bound, level |-> level, len |-> len]
OverSequence(e, s) ==
    With(E(e, None, s), LAMBDA t, x :
         LET most == SequenceBound(t.c.profile)
             bound == IF Concrete(x.ty) THEN x.ty.cap ELSE MaxSequence
         IN IF x.ty.t # "seq" THEN Err(t, "MNE180")
            ELSE IF x.ty.elem = U64 /\ ~Since(t, 13) THEN Err(t, "MNE194")
            ELSE IF Concrete(x.ty) /\ bound > most THEN Err(t, "MNE182")
            ELSE With(Emit(t, Op("seq_length"), <<x.id>>, U64), LAMBDA u, len :
                      [u EXCEPT !.v = Some(Domain(TRUE, bound, IF Concrete(x.ty) THEN bound ELSE most, len.id))]))
Attempts(n, s) ==
    IF n \notin 1 .. IterationBound(s.c.profile) THEN Err(s, "MNE142") ELSE [s EXCEPT !.v = Some(Domain(FALSE, n, n, 0))]
\* Its name is free among the iterations around it (before 0.13, in the whole function), and the
\* product of their bounds is within the envelope.
Admissible(s, name, d) ==
    LET open == {s.open[i][1] : i \in DOMAIN s.open}
        past == IF Since(s, 13) THEN {} ELSE {s.iters[i].name : i \in DOMAIN s.iters}
        product == FoldLeft(LAMBDA p, o : p * o[2], d.level, s.open)
    IN IF name \in open \cup past THEN Err(s, "MNE146")
       ELSE IF product > WorkProduct(s.c.profile) THEN Err(s, "MNE193")
       ELSE [s EXCEPT !.open = Append(@, <<name, d.level>>), !.v = Some(d)]
\* Header, body and exit; the header carries the state and what remains of the bound, and leads
\* into the body while something does.  it names their values for the rest.
Header(s, ty, x, d) ==
    LET header == Len(s.blocks) + 1
    IN With(IF d.over THEN Plain(s, d.len, U64) ELSE Constant(s, d.bound, U64), LAMBDA t, bound :
       With(NewParam(AddBlocks(t, 3), header, ty), LAMBDA u, state :
       With(NewParam(u, header, U64), LAMBDA w, counter :
       With(Constant(At(End(w, To(header, <<x.id, bound.id>>)), header), 0, U64), LAMBDA y, zero :
       With(Emit(y, [Op("int_compare") EXCEPT !.op = "gt", !.ty = U64], <<counter.id, zero.id>>, BoolT), LAMBDA z, more :
       With(NewParam(z, header + 2, ty), LAMBDA end, exit :
            [At(End(end, Either(more.id, header + 1, header + 2, <<state.id>>)), header + 1) EXCEPT
               !.v = Some([header |-> header, state |-> state.id, counter |-> counter.id, bound |-> bound.id,
                           exit |-> exit.id, ty |-> ty, over |-> d.over, cap |-> d.bound])]))))))
\* The body, with the index of this round and the state bound in its scope.
Round(e, s, it) ==
    LET name == e.kids[1].t
        inside == Enter([s EXCEPT !.depth = @ + 1])
        index == Emit(inside, IntegerOp("-%", U64), <<it.bound, it.counter>>, U64)
        counted == IF it.over THEN BindName(index, name, index.v[1].id, U64, "TraversalIndex")
                   ELSE IF Since(s, 11) THEN BindName(index, name, index.v[1].id, U64, "CountedIndex") ELSE inside
    IN [Stmts(e.kids[6].kids, BindName(counted, e.kids[3].t, it.state, it.ty, "IterationState")) EXCEPT !.open = Front(@)]
Closing(s) == Leave([s EXCEPT !.depth = @ - 1])
CapsCalled(s, blocks) ==
    UNION {o.caps : o \in {o \in UNION {ToSet(s.blocks[b].ops) : b \in blocks} : o.kind = "call"}}
\* The state of the next round, the counter one less, and back to the header.
NextRound(e, s, it) ==
    With(E(e.kids[8], Some(it.ty), NoteIf(s, e.kids[7].t # e.kids[3].t, "MNE143")), LAMBDA t, x :
         With(Constant(NoteIf(t, x.ty # it.ty, "MNE144"), 1, U64), LAMBDA u, one :
         With(Emit(u, IntegerOp("-", U64), <<it.counter, one.id>>, U64), LAMBDA less, left :
         LET record == [name |-> e.kids[1].t, header |-> it.header, backedge |-> less.cur, exit |-> it.header + 2,
                        bound |-> it.cap, over |-> it.over, state |-> it.ty,
                        caps |-> CapsCalled(less, {it.header + 1} \cup (it.header + 3) .. Len(less.blocks))]
         IN [End(less, To(it.header, <<x.id, left.id>>)) EXCEPT !.iters = Append(@, record), !.v = Some(it)])))
Ended(e, body, it) == IF IsOpen(body) THEN NextRound(e, body, it) ELSE Err(body, "MNE148")
\* After the iteration its state goes by its name.
AfterRounds(e, next, it) ==
    IF next.v = None THEN Closing(next)
    ELSE BindName(At(Closing(next), it.header + 2), e.kids[3].t, it.exit, it.ty, "IterationState")
IterationStmt(e, s) ==
    IF (s.depth >= 1 /\ ~Since(s, 11)) \/ s.depth >= 2 THEN Err(s, "MNE147")
    ELSE With(IF e.kids[2].k = "over" THEN OverSequence(e.kids[2].kids[1], s) ELSE Attempts(e.kids[2].n, s), LAMBDA t, d :
         With(Admissible(t, e.kids[1].t, d), LAMBDA u, same : With(Declared(u, e.kids[4]), LAMBDA typed, y :
         With(E(e.kids[5], Some(y.ty), typed), LAMBDA w, x :
              IF x.ty # y.ty THEN Err(w, "MNE144")
              ELSE With(Header(w, y.ty, x, d), LAMBDA h, it : AfterRounds(e, Ended(e, Round(e, h, it), it), it))))))
Statement(e, s) ==
    CASE e.k = "let" -> LetStmt(e, s) [] e.k = "if" -> IfStmt(e, s) [] e.k = "iterate" -> IterationStmt(e, s)
      [] e.k = "fail" -> FailStmt(e, s) [] OTHER -> ReturnStmt(e, s)
-----------------------------------------------------------------------------
(* The forms. *)
Intrinsic(e, want, s) ==
    CASE e.t = "select" -> SelectExpr(e, want, s) [] e.t = "replace" -> ReplaceExpr(e, want, s)
      [] e.t = "copy_span" -> CopyExpr(e, want, s) [] e.t = "checked_index" -> CheckedIndexExpr(e, want, s)
      [] e.t = "host_read" -> HostRead(want, s) [] e.t = "host_write" -> HostWrite(e, want, s)
      [] e.t = "clock_read" -> ClockRead(want, s) [] e.t = "sha256_digest" -> Sha256Digest(e, want, s)
      [] e.t = "ed25519_verify" -> Ed25519Verify(e, want, s) [] e.t = "structured_digest" -> StructuredDigest(e, want, s)
      [] e.t \in {"fs_list_count", "fs_generation"} -> FsNullary(e, want, s)
      [] e.t \in {"fs_entry_name_at", "fs_entry_kind_at", "fs_entry_size_at", "fs_entry_mtime_at"} -> FsEntryAt(e, want, s)
      [] e.t = "fs_read_bytes_at" -> FsReadBytesAt(e, want, s) [] e.t = "fs_create_file" -> FsCreateFile(e, want, s)
      [] e.t = "fs_write_bytes_at" -> FsWriteBytesAt(e, want, s) [] e.t = "fs_mkdir" -> FsMkdir(e, want, s)
      [] e.t \in {"fs_append_bytes_at", "fs_rename_at"} -> FsIndexThenName(e, want, s)
      [] e.t \in {"fs_delete_at", "fs_sync_at"} -> FsIndexMutation(e, want, s)
      [] e.t = "structured_read" -> StructuredRead(e, want, s) [] e.t = "structured_write" -> StructuredWrite(e, want, s)
      [] e.t = "structured_read_identity" -> StructuredReadIdentity(e, want, s)
      [] e.t = "provider_call" -> ProviderCall(e, want, s) [] e.t = "process_run" -> ProcessRun(e, want, s)
      [] e.t \in Lifecycle -> ProcessLifecycle(e, want, s)
      [] e.t \in {"sin", "cos", "neg"} -> FloatIntrinsic(e, want, s)
      [] OTHER -> VectorExpr(e, want, s)
E(e, want, s) ==
    CASE e.k \in {"let", "if", "iterate", "fail", "return"} -> Statement(e, s)
      [] e.k = "body" -> E(e.kids[2], want, Stmts(e.kids[1].kids, s))
      [] e.k = "name" -> NameExpr(e, want, s) [] e.k = "qualified" -> QualifiedExpr(e, want, s)
      [] e.k = "integer" -> IntegerExpr(e, want, s) [] e.k = "float" -> FloatExpr(e, want, s)
      [] e.k = "bool" -> BooleanExpr(e, want, s) [] e.k = "call" -> CallExpr(e, want, s)
      [] e.k = "variant" -> VariantExpr(e, want, s) [] e.k = "record" -> RecordExpr(e, want, s)
      [] e.k = "project" -> ProjectExpr(e, want, s) [] e.k = "match" -> MatchExpr(e, want, s)
      [] e.k = "index" -> IndexExpr(e, want, s) [] e.k = "slice" -> SliceExpr(e, want, s)
      [] e.k = "sequence" -> IF IsRepeat(e) THEN RepeatExpr(e, want, s) ELSE SequenceExpr(e, want, s)
      [] e.k = "as" -> CastExpr(e, want, s) [] e.k = "!" -> NotExpr(e, s)
      [] e.k \in {"<<", ">>"} -> ShiftExpr(e, s)
      [] e.k = "intrinsic" -> Intrinsic(e, want, s)
      [] e.k = "operand" -> OperandOf(e.item, s) [] e.k = "operands" -> OperandsOf(e.items, s)
      [] OTHER -> BinaryExpr(e, want, s)
=============================================================================
