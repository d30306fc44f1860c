------------------------------ MODULE BodyBuilder ------------------------------
(***************************************************************************)
(* The state of an elaboration: blocks, scopes and types                   *)
(* (crates/mncs-compiler/src/frontend.rs, BodyBuilder and BindingEnv).     *)
(*                                                                         *)
(* The state s goes through every form: the blocks made so far, the        *)
(* current one, the scopes, the diagnostics, and in s.v what the last      *)
(* expression produced, if anything: its value, its type and the identity  *)
(* of the binding it names.  A value is a number, the parameters come      *)
(* first.  s.c is what does not change in a function.  A bound that is a   *)
(* generic parameter is the rank of its name, below zero.                  *)
(***************************************************************************)
EXTENDS BodyModel

CONSTANTS
    Numerals,           \* the integer literals, and the number each spells
    Scalars,            \* the scalar types a profile admits: word -> type
    OtherWidths,        \* further words the model reads as integer types
    Rank,               \* field and parameter words, numbered in their order
    SequenceBound(_), IterationBound(_), WorkProduct(_),    \* the registry's limits of a profile
    ExactFloat,         \* the integers a float holds exactly
    HostBytes           \* the bound of the bytes a host gives

Texts(node) == [i \in DOMAIN node.kids |-> node.kids[i].t]
\* The name of a path: its words and the dots between them.
Spelling(node) == FoldLeft(LAMBDA text, w : IF text = "" THEN w ELSE text \o "." \o w, "", Texts(node))
Numeral(word) == word \in DOMAIN Numerals

UnsetT == [t |-> "named"]
ParamT(name) == [t |-> "param", n |-> name]
I64 == Scalars["i64"]
Concrete(ty) == ty.t = "seq" => ty.cap >= 0
-----------------------------------------------------------------------------
(* The builder's state. *)
NewBlock == [params |-> <<>>, ops |-> <<>>, term |-> [k |-> "return", vals |-> <<>>]]
\* block_is_open: a return of nothing is the end a new block has.
IsOpen(s) == s.blocks[s.cur].term = NewBlock.term

Err(s, code) == [s EXCEPT !.errs = Append(@, code), !.v = None]
Note(s, code) == [s EXCEPT !.errs = Append(@, code)]
NoteIf(s, wrong, code) == IF wrong THEN Note(s, code) ELSE s
Give(s, id, ty, b) == [s EXCEPT !.v = Some([id |-> id, ty |-> ty, b |-> b])]
Plain(s, id, ty) == Give(s, id, ty, 0)
\* What an expression produced is used, or its failure is passed on.
With(s, K(_, _)) == IF s.v = None THEN s ELSE K(s, s.v[1])
Since(s, profile) == s.c.profile >= profile

Push(s, op) == [s EXCEPT !.blocks[s.cur].ops = Append(@, op)]
\* A new operation with one result of a new value.
Emit(s, op, in, ty) ==
    Plain([Push(s, [op EXCEPT !.in = in, !.out = <<Def(s.n + 1, ty)>>]) EXCEPT !.n = @ + 1], s.n + 1, ty)
Op(kind) == [NoOp EXCEPT !.kind = kind]
Constant(s, n, ty) == Emit(s, [Op("const") EXCEPT !.val = n, !.ty = ty], <<>>, ty)
AddBlocks(s, k) == [s EXCEPT !.blocks = @ \o [i \in 1 .. k |-> NewBlock]]
End(s, term) == [s EXCEPT !.blocks[s.cur].term = term]
At(s, b) == [s EXCEPT !.cur = b]
To(b, args) == [k |-> "branch", to |-> b, args |-> args]
Either(on, b, else, args) == [k |-> "cond", on |-> on, to |-> b, args |-> <<>>, else |-> else, elseArgs |-> args]
NewParam(s, b, ty) == Plain([s EXCEPT !.n = @ + 1, !.blocks[b].params = Append(@, Def(s.n + 1, ty))], s.n + 1, ty)
-----------------------------------------------------------------------------
(* Scopes. *)
Enter(s) == [s EXCEPT !.scopes = Append(@, <<>>)]
Leave(s) == [s EXCEPT !.scopes = Front(@)]
Innermost(s) == Last(s.scopes)
ScopeOf(s, name) == {i \in DOMAIN s.scopes : name \in DOMAIN s.scopes[i]}
\* Variant: the outermost binding of a name instead of the innermost.
Holder_Outermost(s, name) == s.scopes[CHOOSE i \in ScopeOf(s, name) : \A j \in ScopeOf(s, name) : i <= j][name]
Holder(s, name) == s.scopes[CHOOSE i \in ScopeOf(s, name) : \A j \in ScopeOf(s, name) : j <= i][name]
Binds(s, name) == ScopeOf(s, name) # {}
IsTraversalIndex(s, e) ==
    e.k = "name" /\ Binds(s, Spelling(e.kids[1])) /\ Holder(s, Spelling(e.kids[1])).kind = "TraversalIndex"
\* A binding may follow a parameter or a binding of its scope, never an iteration's names.
BindName(s, name, id, ty, kind) ==
    LET top == Innermost(s)
        clash == name \in DOMAIN top /\ ~(top[name].kind \in {"Parameter", "Binding"} /\ kind = "Binding")
        entry == [id |-> id, ty |-> ty, kind |-> kind, b |-> s.bound + 1]
    IN IF clash THEN Err(s, "MNE110")
       ELSE [s EXCEPT !.bound = @ + 1, !.scopes[Len(s.scopes)] = (name :> entry) @@ @,
                      !.v = Some([id |-> id, ty |-> ty, b |-> s.bound + 1])]
Resolve(s, name) ==
    IF ~Binds(s, name) THEN Err(s, "MNE102")
    ELSE LET h == Holder(s, name) IN Give(s, h.id, h.ty, h.b)
\* A payload field a match arm names descends from the subject's binding, if it has one.
BindProjection(s, name, id, ty, parent) ==
    LET r == BindName(s, name, id, ty, "Binding")
    IN IF r.v = None \/ parent = 0 THEN r ELSE [r EXCEPT !.prov = (r.v[1].b :> parent) @@ @]
-----------------------------------------------------------------------------
(* Types. *)
GenericAt(c, word) == {k \in DOMAIN c.generics : c.generics[k].n = word}
IsParam(c, word, kind) == \E k \in GenericAt(c, word) : c.generics[k].k = kind
Typed(ty) == [ty |-> ty, errs |-> <<>>]
Untyped(errs) == [ty |-> UnsetT, errs |-> Append(errs, "MNE105")]

\* The bound of a sequence type, none when the ceiling refuses it.
CountOf(word, c) ==
    IF Numeral(word) THEN IF Numerals[word] <= SequenceBound(c.profile) THEN Some(Numerals[word]) ELSE None
    ELSE IF IsParam(c, word, "Nat") THEN Some(-Rank[word]) ELSE None
NominalType(name, c) ==
    IF name \in DOMAIN c.finites THEN Some(FinT(name))
    ELSE IF name \in DOMAIN c.records THEN Some(RecT(name)) ELSE None
VectorType(node, c) ==
    LET word == node.kids[Len(node.kids)].t
        elem == IF node.k = "vec" /\ node.kids[1].k = "path" /\ Spelling(node.kids[1]) \in DOMAIN Scalars
                THEN Scalars[Spelling(node.kids[1])] ELSE UnsetT
    IN IF ~Numeral(word) \/ Numerals[word] \notin 1 .. MaxLanes \/ (node.k = "vec" /\ elem.t # "int") THEN Untyped(<<>>)
       ELSE Typed(IF node.k = "vec" THEN VecT(elem, Numerals[word]) ELSE MaskT(Numerals[word]))

RECURSIVE TypeOf(_, _), SequenceType(_, _)
\* profile_sequence_type_with_generics
SequenceType(node, c) ==
    LET spec == node.kids[2]
        exact == spec.k # "up_to"
        word == IF exact THEN spec.t ELSE spec.kids[1].t
        cap == CountOf(word, c)
        elem == node.kids[1]
        name == IF elem.k = "path" THEN Spelling(elem) ELSE ""
        inner == IF name \in DOMAIN OtherWidths THEN Typed(OtherWidths[name])
                 ELSE IF elem.k \in {"vec", "mask"} THEN Untyped(<<>>) ELSE TypeOf(elem, c)
    IN IF cap = None THEN Untyped(IF Numeral(word) THEN <<>> ELSE <<"MNE224">>)
       ELSE IF inner.errs # <<>> THEN Untyped(SelectSeq(inner.errs, LAMBDA code : code # "MNE105"))
       ELSE Typed(SeqT(inner.ty, exact, cap[1]))
\* profile_type_with_generics
TypeOf(node, c) ==
    LET name == Spelling(node)
    IN CASE node.k = "seq" -> SequenceType(node, c)
         [] node.k \in {"vec", "mask"} -> VectorType(node, c)
         [] IsParam(c, name, "Type") -> Typed(ParamT(name))
         [] IsParam(c, name, "Nat") -> [ty |-> UnsetT, errs |-> <<"MNE232">>]
         [] NominalType(name, c) # None -> Typed(NominalType(name, c)[1])
         [] name \in DOMAIN Scalars -> Typed(Scalars[name])
         [] OTHER -> Untyped(<<>>)
Typing(s, r) == [s EXCEPT !.errs = @ \o r.errs, !.v = Some([id |-> 0, ty |-> r.ty, b |-> 0])]
Declared(s, node) == Typing(s, TypeOf(node, s.c))

\* What a value of one sequence type may stand for: a view of an exact one, a wider view of
\* a view, and under a check a narrower one.
SameElement(from, to) == from.t = "seq" /\ to.t = "seq" /\ from.elem = to.elem /\ Concrete(from) /\ Concrete(to)
Borrows(from, to) == SameElement(from, to) /\ from.exact /\ ~to.exact /\ from.cap <= to.cap
Narrows(from, to) == SameElement(from, to) /\ ~from.exact /\ ~to.exact /\ to.cap < from.cap
WidensTo(s, from, to) == Since(s, 15) /\ SameElement(from, to) /\ ~from.exact /\ ~to.exact /\ from.cap <= to.cap

BorrowExact(s, x, to) ==
    With(Constant(s, 0, U64), LAMBDA t, zero : With(Constant(t, x.ty.cap, U64), LAMBDA u, len :
         Emit(u, [Op("view") EXCEPT !.exact = FALSE, !.cap = to.cap, !.src = [exact |-> TRUE, cap |-> x.ty.cap]],
              <<x.id, zero.id, len.id>>, to)))
NarrowView(s, x, to) ==
    Emit(s, [Op("narrow") EXCEPT !.cap = to.cap, !.src = [exact |-> FALSE, cap |-> x.ty.cap]], <<x.id>>, to)
\* borrow_view_for_expected, and then the static widening, which keeps the value.
Borrowable(s, x, to) == Borrows(x.ty, to) \/ (Since(s, 14) /\ Narrows(x.ty, to))
Borrow(s, x, to) == IF Borrows(x.ty, to) THEN BorrowExact(s, x, to) ELSE NarrowView(s, x, to)
\* The value as the type wanted; where no rule makes it one, the code, and the value all the same.
Fitted(s, x, to, code) ==
    IF x.ty = to THEN Give(s, x.id, x.ty, x.b)
    ELSE IF Borrowable(s, x, to) THEN Borrow(s, x, to)
    ELSE IF WidensTo(s, x.ty, to) THEN Give(s, x.id, to, x.b)
    ELSE Give(Note(s, code), x.id, x.ty, x.b)
=============================================================================
