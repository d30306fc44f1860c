------------------------------- MODULE FrontEnd -------------------------------
(***************************************************************************)
(* From a source to an answer: the parser, the elaborator and the          *)
(* reference engine in a row (parse_source and elaborate in                *)
(* crates/mncs-compiler/src/frontend.rs, crates/mncs-syntax/src/source.rs). *)
(*                                                                         *)
(* A source is a sequence of words under the profile of its envelope.      *)
(* Beside the elaborated program the model keeps the tree it came from and *)
(* what that tree means to the request, so that every stage can be held    *)
(* against the one before it.                                              *)
(*                                                                         *)
(* The meaning is a reference for the front end, read off the abstract     *)
(* tree with environments and values, without blocks, operations or value  *)
(* numbers.  Operands are evaluated from left to right, a record's base    *)
(* before its fields, fields in the order of their names; both operands of *)
(* `&&` and all three of `select` are evaluated.  A literal takes its type *)
(* from where it stands.                                                   *)
(***************************************************************************)
EXTENDS BodyExecution, ModuleElaborator

CONSTANTS Floats, Versions, Supported, FloatLimit, MaxLiteral, MaxNesting, Lookahead,
          Sources,       \* the envelopes
          TextsOf(_)     \* the texts an envelope may come with

Syntax == INSTANCE SourceParser
-----------------------------------------------------------------------------
(* What a source says. *)

\* The forms that have a meaning here, the other ones being left to the tests of the repository.
Understood == {"name", "path", "word", "integer", "float", "bool", "call", "variant", "record", "project", "index", "slice", "sequence",
               "count", "list", "match", "arm", "binding", "rest", "scalar", "field", "as", "!", "intrinsic", "let", "if",
               "fail", "return", "iterate", "over", "fn", "test", "parameter", "capability", "effect", "contract", "enum",
               "record type", "seq", "vec", "mask", "up_to", "+", "-", "*", "/", "%", "+%", "-%", "*%", "+|", "-|", "*|", "&", "|", "^", "<<", ">>",
               "==", "!=", "<", "<=", ">", ">=", "&&", "||"}
Operation(name) == CASE name = "host_read" -> "blob_read" [] name = "host_write" -> "blob_append" [] OTHER -> name

WordOf(node) == node.kids[1].t
TypeName(node) == Spelling(node)
LastWord(path) == path.kids[Len(path.kids)].t
Local(fields, word) == {i \in DOMAIN fields : WordOf(fields[i]) = word}

\* A machine: what is known of the program, the names in scope, what was done, and the last value.
Machine(decls, c, r) == [decls |-> decls, c |-> c, req |-> r, fn |-> "", env |-> <<>>, st |-> "ok", v |-> <<>>, events |-> <<>>, acts |-> <<>>]
Then2(m, K(_, _)) == IF m.st = "ok" THEN K(m, m.v) ELSE m
Gives(m, v) == [m EXCEPT !.v = v]
Stops(m, st) == [m EXCEPT !.st = st]
Naming(m, word, v) == [m EXCEPT !.env = (word :> v) @@ @]
Took(m, r) == IF r.st = "ok" THEN [m EXCEPT !.v = r.out[1], !.events = @ \o r.events, !.acts = @ \o r.acts]
              ELSE [Stops(m, r.st) EXCEPT !.acts = @ \o r.acts]
TypeIn(m, node) == TypeOf(node, m.c).ty
KindOfValue(v) == CASE v.k = "int" -> v.ty [] v.k = "byte" -> ByteT [] v.k = "bool" -> BoolT
                    [] v.k = "vec" -> VecT(v.vals[1].ty, Len(v.vals)) [] OTHER -> [t |-> v.k]
\* A sequence longer than the view wanted of it is refused.
Narrow(m, want) ==
    IF m.st = "ok" /\ want # None /\ want[1].t = "seq" /\ m.v.k = "seq" /\ ~want[1].exact /\ Len(m.v.vals) > want[1].cap
    THEN Stops(m, "RuntimeFailure") ELSE m
-----------------------------------------------------------------------------
(* Operators on values. *)
Literal(n, want) ==
    IF want # None /\ want[1] = ByteT THEN ByteV(n) ELSE IF want # None /\ want[1] = FloatT THEN FloatV(n)
    ELSE IntV(n, IF want # None /\ want[1].t = "int" THEN want[1] ELSE Scalars["i64"])
Signs == [add |-> {"+", "+%", "+|"}, sub |-> {"-", "-%", "-|"}, mul |-> {"*", "*%", "*|"}, div |-> {"/"}, mod |-> {"%"},
          and |-> {"&", "&&"}, or |-> {"|", "||"}, xor |-> {"^"}, shl |-> {"<<"}, shr |-> {">>"},
          eq |-> {"=="}, ne |-> {"!="}, lt |-> {"<"}, le |-> {"<="}, gt |-> {">"}, ge |-> {">="}]
Sign(mark) == CHOOSE name \in DOMAIN Signs : mark \in Signs[name]
Relations == {"eq", "ne", "lt", "le", "gt", "ge"}
Style(mark) == IF mark \in {"+%", "-%", "*%", "&", "|", "^", "<<", ">>"} THEN "wrapping"
               ELSE IF mark \in {"+|", "-|", "*|"} THEN "saturating" ELSE "checked"
Result(opt, F(_)) == Yield(Then(opt, LAMBDA x : Some(F(x))), "RuntimeFailure", "")
Combined(mark, a, b) ==
    LET op == Sign(mark)
    IN CASE a.k = "bool" -> Ok(<<BoolV(CASE op = "and" -> a.b /\ b.b [] op = "or" -> a.b \/ b.b
                                           [] op = "eq" -> a.b = b.b [] OTHER -> a.b # b.b)>>)
         [] a.k = "byte" -> IF op \in Relations THEN Ok(<<BoolV(Holds(op, a.byte, b.byte))>>)
                            ELSE IF op \in {"shl", "shr"} THEN Result(EvaluateByteShift(op, a.byte, b.n), ByteV)
                            ELSE Result(EvaluateByteBitwise(op, a.byte, b.byte), ByteV)
         [] a.k = "float" -> IF op \in Relations THEN Ok(<<BoolV(Holds(op, a.f, b.f))>>) ELSE Result(EvaluateFloat(op, a.f, b.f), FloatV)
         [] OTHER -> IF op \in Relations THEN Ok(<<BoolV(Holds(op, a.n, b.n))>>)
                     ELSE Result(EvaluateInteger(op, a.ty, Style(mark), 0, a.n, b.n), LAMBDA n : IntV(n, a.ty))
Within(v, i) == i.n \in 0 .. Len(v.vals) - 1
Element(v, i) == IF Within(v, i) THEN Ok(<<v.vals[i.n + 1]>>) ELSE Fail("RuntimeFailure", "")
Changed(v, i, x) == IF Within(v, i) THEN Ok(<<SeqV([v.vals EXCEPT ![i.n + 1] = x])>>) ELSE Fail("RuntimeFailure", "")
\* The elements from position i on replaced by n of another sequence, from its position j on.
CopiedInto(v, i, w, j, n) ==
    IF i.n + n.n > Len(v.vals) \/ j.n + n.n > Len(w.vals) THEN Fail("RuntimeFailure", "")
    ELSE Ok(<<SeqV([k \in DOMAIN v.vals |-> IF k - 1 \in i.n .. i.n + n.n - 1 THEN w.vals[k - i.n + j.n] ELSE v.vals[k]])>>)
Part(v, i, j) == IF i.n <= j.n /\ j.n <= Len(v.vals) THEN Ok(<<SeqV(SubSeq(v.vals, i.n + 1, j.n))>>) ELSE Fail("RuntimeFailure", "")
FieldOf(v, word) == v.fields[CHOOSE i \in DOMAIN v.fields : v.fields[i][1] = Rank[word]][2]
\* Vectors lane by lane, masks as the Booleans they are.
MarkOf(name) ==
    CASE name = "vec_add_wrap" -> "+%" [] name = "vec_add_checked" -> "+" [] name = "vec_add_sat" -> "+|"
      [] name = "vec_sub_wrap" -> "-%" [] name = "vec_sub_checked" -> "-" [] name = "vec_sub_sat" -> "-|"
      [] name = "vec_mul_wrap" -> "*%" [] name = "vec_mul_checked" -> "*" [] name = "vec_mul_sat" -> "*|"
      [] name = "vec_and" -> "&" [] name = "vec_or" -> "|" [] name = "vec_xor" -> "^" [] name = "vec_shl" -> "<<" [] name = "vec_shr" -> ">>"
      [] name = "vec_eq" -> "==" [] name = "vec_ne" -> "!=" [] name = "vec_lt" -> "<" [] name = "vec_le" -> "<="
      [] name = "vec_gt" -> ">" [] name = "vec_ge" -> ">=" [] OTHER -> ""
Least(a, b) == IF a.n < b.n THEN a ELSE b
Most(a, b) == IF a.n < b.n THEN b ELSE a
Lanewise2(name, v, w) ==
    LET each(i) == Combined(MarkOf(name), v.vals[i], w.vals[i])
        lanes == DOMAIN v.vals
    IN CASE name = "mask_and" -> Ok(<<MaskV([i \in DOMAIN v.on |-> v.on[i] /\ w.on[i]])>>)
         [] name = "mask_or" -> Ok(<<MaskV([i \in DOMAIN v.on |-> v.on[i] \/ w.on[i]])>>)
         [] name = "mask_xor" -> Ok(<<MaskV([i \in DOMAIN v.on |-> v.on[i] # w.on[i]])>>)
         [] name = "vec_min" -> Ok(<<VecV([i \in lanes |-> Least(v.vals[i], w.vals[i])])>>)
         [] name = "vec_max" -> Ok(<<VecV([i \in lanes |-> Most(v.vals[i], w.vals[i])])>>)
         [] \E i \in lanes : each(i).st # "ok" -> Fail("RuntimeFailure", "")
         [] Sign(MarkOf(name)) \in Relations -> Ok(<<MaskV([i \in lanes |-> each(i).out[1].b])>>)
         [] OTHER -> Ok(<<VecV([i \in lanes |-> each(i).out[1]])>>)
\* The lanes together.
Together(name, v) ==
    CASE name = "mask_not" -> Ok(<<MaskV([i \in DOMAIN v.on |-> ~v.on[i]])>>)
      [] name = "mask_any" -> Ok(<<BoolV(\E i \in DOMAIN v.on : v.on[i])>>)
      [] name = "mask_all" -> Ok(<<BoolV(\A i \in DOMAIN v.on : v.on[i])>>)
      [] name = "mask_none" -> Ok(<<BoolV(\A i \in DOMAIN v.on : ~v.on[i])>>)
      [] name = "reduce_min" -> Ok(<<FoldLeft(Least, v.vals[1], v.vals)>>)
      [] name = "reduce_max" -> Ok(<<FoldLeft(Most, v.vals[1], v.vals)>>)
      [] OTHER -> FoldLeft(LAMBDA r, x : IF r.st = "ok" THEN Combined(IF name = "reduce_sum_wrap" THEN "+%" ELSE "+", r.out[1], x) ELSE r,
                           Ok(<<IntV(0, v.vals[1].ty)>>), v.vals)
Project(m, v, word) == Gives(m, IF word = "len" /\ v.k = "seq" THEN IntV(Len(v.vals), U64) ELSE FieldOf(v, word))
-----------------------------------------------------------------------------
\* What a node does to a machine: a statement, a block, or an expression and the type wanted of it.
RECURSIVE Meaning(_, _, _)

\* The values of expressions in turn, each with the type wanted of it if any.
Meanings(es, wants, m) ==
    FoldLeft(LAMBDA n, i : Then2(n, LAMBDA o, vs : Then2(Meaning(es[i], wants[i], o), LAMBDA q, v : Gives(q, Append(vs, v)))),
             Gives(m, <<>>), [i \in DOMAIN es |-> i])
\* The statements of a list, until one ends it.
Obeys(list, m) == FoldLeft(LAMBDA n, e : IF n.st = "ok" THEN Meaning(e, None, n) ELSE n, m, list)
\* An operand takes its type from the other, a literal on the left from the right one.
BinaryMeaning(e, want, m) ==
    LET arithmetic == Sign(e.k) \notin Relations /\ e.k \notin {"&&", "||", "<<", ">>"}
        wanted == IF arithmetic THEN want ELSE None
    IN IF arithmetic /\ e.kids[1].k = "integer"
       THEN Then2(Meaning(e.kids[2], wanted, m), LAMBDA n, b :
            Then2(Meaning(e.kids[1], Some(KindOfValue(b)), n), LAMBDA o, a : Took(o, Combined(e.k, a, b))))
       ELSE Then2(Meaning(e.kids[1], wanted, m), LAMBDA n, a :
            Then2(Meaning(e.kids[2], Some(IF e.k \in {"<<", ">>"} THEN U64 ELSE KindOfValue(a)), n), LAMBDA o, b :
                  Took(o, Combined(e.k, a, b))))
\* A call: the arguments, and then the function in an environment of its own.
Called(name, args, m) ==
    LET f == m.decls[name]
        own == [i \in {WordOf(f.kids[3].kids[i]) : i \in DOMAIN args} |-> args[CHOOSE j \in DOMAIN args : WordOf(f.kids[3].kids[j]) = i]]
        body == Obeys(f.kids[6].kids, [m EXCEPT !.env = own, !.fn = name])
        end == Then2(body, LAMBDA n, v : Meaning(f.kids[7], Some(m.c.sigs[name].out), n))
    IN [end EXCEPT !.env = m.env, !.fn = m.fn, !.st = IF @ = "returned" THEN "ok" ELSE @]
CallMeaning(e, m) ==
    LET name == TypeName(e.kids[1])
        in == m.c.sigs[name].in
    IN Then2(Meanings(e.kids[3].kids, [i \in DOMAIN in |-> Some(in[i])], m), LAMBDA n, vs : Called(name, vs, n))
\* Fields in the order of their names; what is not given comes from the base.
FieldsMeaning(declared, fields, base, m) ==
    LET given(word) == fields[CHOOSE i \in Local(fields, word) : TRUE].kids[2]
        one(n, f) ==
          IF n.st # "ok" THEN n
          ELSE LET kept == n.v
                   r == IF Local(fields, f[1]) = {} THEN Gives(n, FieldOf(base, f[1])) ELSE Meaning(given(f[1]), Some(f[2]), n)
               IN IF r.st = "ok" THEN Gives(r, Append(kept, <<Rank[f[1]], r.v>>)) ELSE r
    IN FoldLeft(one, Gives(m, <<>>), declared)
RecordMeaning(e, m) ==
    LET name == TypeName(e.kids[1])
        filled(n, base) == Then2(FieldsMeaning(m.c.records[name], e.kids[3].kids, base, n), LAMBDA o, fs : Gives(o, RecV(name, fs)))
    IN IF e.kids[2].kids = <<>> THEN filled(m, <<>>) ELSE Then2(Meaning(e.kids[2].kids[1], None, m), filled)
VariantMeaning(e, m) ==
    LET name == TypeName(e.kids[1])
        i == CHOOSE i \in DOMAIN m.c.finites[name] : m.c.finites[name][i].n = e.kids[2].t
    IN IF name \in DOMAIN m.env THEN Project(m, m.env[name], e.kids[2].t)
       ELSE Then2(FieldsMeaning(m.c.finites[name][i].fields, e.kids[3].kids, <<>>, m), LAMBDA n, fs : Gives(n, FinV(name, i, fs)))
\* The arm for a value: the one of its number, name or variant, or `_`.
Meets(arm, v, c) ==
    LET pattern == arm.kids[1]
    IN IF v.k = "int" THEN pattern.k = "scalar" /\ pattern.n = v.n
       ELSE IF v.k = "bool" THEN LastWord(pattern) = (IF v.b THEN "true" ELSE "false")
       ELSE LastWord(pattern) = c.finites[v.id][v.variant].n
MatchMeaning(e, want, m) ==
    Then2(Meaning(e.kids[1], None, m), LAMBDA n, v :
          LET arms == e.kids[2].kids
              met == {i \in DOMAIN arms : Meets(arms[i], v, m.c)}
              arm == arms[IF met = {} THEN CHOOSE i \in DOMAIN arms : arms[i].kids[1].k # "scalar" ELSE CHOOSE i \in met : TRUE]
              bind(o, b) == IF b.k = "rest" THEN o ELSE Naming(o, b.kids[Len(b.kids)].t, FieldOf(v, WordOf(b)))
          IN [Meaning(arm.kids[3], want, FoldLeft(bind, n, arm.kids[2].kids)) EXCEPT !.env = m.env])
SequenceMeaning(e, want, m) ==
    LET es == e.kids[1].kids
        last == es[Len(es)]
    IN IF es # <<>> /\ last.k = "count"
       THEN Then2(Meaning(es[1], Some(want[1].elem), m), LAMBDA n, v : Gives(n, SeqV([i \in 1 .. Numerals[WordOf(last)] |-> v])))
       ELSE Then2(Meanings(es, [i \in DOMAIN es |-> Some(want[1].elem)], m), LAMBDA n, vs : Gives(n, SeqV(vs)))
ElementKind(v) == IF v.vals = <<>> THEN None ELSE Some(KindOfValue(v.vals[1]))
\* A host call is allowed by the effect of its name that the function declares; indices are numbers,
\* and a typed answer is what is wanted.
EffectOf(name) == IF name = "structured_read_identity" THEN name ELSE HostEffect(Operation(name))
HostMeaning(e, want, m) ==
    LET op == Operation(e.t)
        effects == {x \in ToSet(m.decls[m.fn].kids[5].kids) : x.k = "effect" /\ WordOf(x) = EffectOf(e.t)}
        needs == (CHOOSE x \in effects : TRUE).kids[2].t
        number(i) == op \in FsLists \cup FsWrites \cup {"fs_read_bytes_at"} /\ i \notin ViewPositions(op)
    IN Then2(Meanings(e.kids, [i \in DOMAIN e.kids |-> IF number(i) THEN Some(U64) ELSE None], m), LAMBDA n, vs :
             Took(n, HostCall([NoOp EXCEPT !.kind = "host", !.host = op, !.needs = needs], vs,
                              IF want = None THEN <<U64>> ELSE want, m.req, m.req.budget)))
VectorMeaning(e, want, m) ==
    LET name == e.t
        kept == IF MarkOf(name) # "" /\ Sign(MarkOf(name)) \notin Relations THEN want ELSE None
    IN CASE name \in {"vector", "splat"} ->
              Then2(Meanings(e.kids, [i \in DOMAIN e.kids |-> Some(want[1].elem)], m), LAMBDA n, vs :
                    Gives(n, VecV(IF name = "vector" THEN vs ELSE [i \in 1 .. want[1].lanes |-> vs[1]])))
         [] name \in {"extract_lane", "replace_lane"} ->
              Then2(Meaning(e.kids[1], None, m), LAMBDA n, v :
              Then2(Meanings(Tail(e.kids), <<Some(U64), Some(v.vals[1].ty)>>, n), LAMBDA o, ws :
                    IF ~Within(v, ws[1]) THEN Stops(o, "RuntimeFailure")
                    ELSE Gives(o, IF name = "extract_lane" THEN v.vals[ws[1].n + 1] ELSE VecV([v.vals EXCEPT ![ws[1].n + 1] = ws[2]]))))
         [] Len(e.kids) = 1 -> Then2(Meaning(e.kids[1], None, m), LAMBDA n, v : Took(n, Together(name, v)))
         [] OTHER -> Then2(Meaning(e.kids[1], kept, m), LAMBDA n, v :
                     Then2(Meaning(e.kids[2], Some(KindOfValue(v)), n), LAMBDA o, w : Took(o, Lanewise2(name, v, w))))
IntrinsicMeaning(e, want, m) ==
    CASE e.t = "checked_index" -> Then2(Meanings(e.kids, <<None, Some(U64)>>, m), LAMBDA n, vs :
                                        IF Within(vs[1], vs[2]) THEN Gives(n, vs[2]) ELSE Stops(n, "RuntimeFailure"))
      [] e.t = "select" -> Then2(Meanings(SubSeq(e.kids, 1, 2), <<None, want>>, m), LAMBDA n, vs :
                           Then2(Meaning(e.kids[3], IF want = None THEN Some(KindOfValue(vs[2])) ELSE want, n), LAMBDA o, v :
                                 Gives(o, IF vs[1].k = "mask" THEN VecV([i \in DOMAIN v.vals |-> IF vs[1].on[i] THEN vs[2].vals[i] ELSE v.vals[i]])
                                          ELSE IF vs[1].b THEN vs[2] ELSE v)))
      [] e.t = "replace" -> Then2(Meaning(e.kids[1], None, m), LAMBDA n, v :
                            Then2(Meanings(Tail(e.kids), <<Some(U64), ElementKind(v)>>, n), LAMBDA o, vs :
                                  Took(o, Changed(v, vs[1], vs[2]))))
      [] e.t = "copy_span" -> Then2(Meanings(e.kids, <<None, Some(U64), None, Some(U64), Some(U64)>>, m), LAMBDA n, vs :
                                    Took(n, CopiedInto(vs[1], vs[2], vs[3], vs[4], vs[5])))
      [] e.t \in {"sin", "cos", "neg"} -> Then2(Meaning(e.kids[1], None, m), LAMBDA n, v : Gives(n, FloatV(Libm(e.t, v.f))))
      [] Operation(e.t) \in HostOps -> HostMeaning(e, want, m)
      [] OTHER -> VectorMeaning(e, want, m)
Plainly(e, want, m) ==
    CASE e.k = "name" -> Gives(m, m.env[WordOf(e.kids[1])])
      [] e.k = "integer" -> Gives(m, Literal(e.n, want))
      [] e.k = "float" -> Gives(m, FloatV(e.n))
      [] e.k = "bool" -> Gives(m, BoolV(e.kids[1].t = "true"))
      [] e.k = "call" -> CallMeaning(e, m)
      [] e.k = "variant" -> VariantMeaning(e, m)
      [] e.k = "record" -> RecordMeaning(e, m)
      [] e.k = "project" -> Then2(Meaning(e.kids[1], None, m), LAMBDA n, v : Project(n, v, e.kids[2].t))
      [] e.k = "index" -> Then2(Meanings(e.kids, <<None, Some(U64)>>, m), LAMBDA n, vs : Took(n, Element(vs[1], vs[2])))
      [] e.k = "slice" -> Then2(Meanings(e.kids, <<None, Some(U64), Some(U64)>>, m), LAMBDA n, vs : Took(n, Part(vs[1], vs[2], vs[3])))
      [] e.k = "sequence" -> SequenceMeaning(e, want, m)
      [] e.k = "match" -> MatchMeaning(e, want, m)
      [] e.k = "as" -> Then2(Meaning(e.kids[1], None, m), LAMBDA n, v : Took(n, ConvertScalar(v, KindOfValue(v), TypeIn(m, e.kids[2]))))
      [] e.k = "!" -> Then2(Meaning(e.kids[1], None, m), LAMBDA n, v : Gives(n, BoolV(~v.b)))
      [] e.k = "intrinsic" -> IntrinsicMeaning(e, want, m)
      [] OTHER -> BinaryMeaning(e, want, m)
-----------------------------------------------------------------------------
(* Statements.  A block's names end with it. *)
Block(list, m) == [Obeys(list, m) EXCEPT !.env = m.env]
\* One round of an iteration, its state under its name, and all of them.
RoundMeaning(e, i, m) ==
    LET counts == e.kids[2].k = "over" \/ m.c.profile >= 11
        begun == IF counts THEN Naming(m, WordOf(e), IntV(i, U64)) ELSE m
        state == e.kids[3].t
        named == [begun EXCEPT !.env = (state :> m.env[state]) @@ @]
        end == Then2(Obeys(e.kids[6].kids, named), LAMBDA o, v : Meaning(e.kids[8], Some(TypeIn(m, e.kids[4])), o))
    IN Then2(end, LAMBDA o, v : Naming([o EXCEPT !.env = m.env], state, v))
Rounds(e, n, m) == FoldLeft(LAMBDA o, i : IF o.st = "ok" THEN RoundMeaning(e, i - 1, o) ELSE o, m, [i \in 1 .. n |-> i])
DomainMeaning(e, m) == IF e.k = "over" THEN Then2(Meaning(e.kids[1], None, m), LAMBDA n, v : Gives(n, Len(v.vals))) ELSE Gives(m, e.n)
Command(e, m) ==
    CASE e.k = "let" -> Then2(Meaning(e.kids[3], Some(TypeIn(m, e.kids[2])), m), LAMBDA n, v : Naming(n, WordOf(e), v))
      [] e.k = "if" -> Then2(Meaning(e.kids[1], None, m), LAMBDA n, v : Block(e.kids[IF v.b THEN 2 ELSE 3].kids, n))
      [] e.k = "fail" -> Stops(m, "RuntimeFailure")
      [] e.k = "return" -> Then2(Meaning(e.kids[1], Some(m.c.sigs[m.fn].out), m), LAMBDA n, v : Stops(n, "returned"))
      [] e.k = "iterate" -> Then2(DomainMeaning(e.kids[2], m), LAMBDA n, bound :
                  Then2(Meaning(e.kids[5], Some(TypeIn(m, e.kids[4])), n), LAMBDA o, v :
                        Rounds(e, bound, Naming(o, e.kids[3].t, v))))
Meaning(e, want, m) ==
    IF e.k \in {"let", "if", "fail", "return", "iterate"} THEN Command(e, m) ELSE Narrow(Plainly(e, want, m), want)

\* What a request says the program does, by its tree and its declared types: the last state of the machine.
Means(tree, c, r) ==
    LET functions == SelectSeq(tree[3].kids, LAMBDA d : d.k \in {"fn", "test"})
        decls == [name \in {WordOf(functions[i]) : i \in DOMAIN functions} |->
                    functions[CHOOSE i \in DOMAIN functions : WordOf(functions[i]) = name]]
    IN Called(r.fn, r.args, Machine(decls, c, r))
\* Nothing in a tree is outside of what this module gives a meaning.
RECURSIVE Speaks(_)
Speaks(node) == /\ node.k \in Understood
                /\ "kids" \in DOMAIN node => \A i \in DOMAIN node.kids : Speaks(node.kids[i])
-----------------------------------------------------------------------------
(* The way of a source through the stages. *)
VARIABLES source,    \* the envelope: its profile, and what TextsOf makes of it
          stage,     \* "source", "parsed", "running" or "rejected"
          words, tree, faults,
          closers,   \* generic closers the parser was left with
          meant      \* what the tree means to the request
frontVars == <<source, stage, words, tree, faults, closers, meant>>
vars == <<frontVars, program, req, valid, bodyVars>>

MeaningOf(t, c, r) == IF Speaks([k |-> "list", kids |-> t]) THEN <<Means(t, c, r)>> ELSE <<>>
Init ==
    /\ source \in Sources /\ stage = "source" /\ words = <<>> /\ tree = <<>> /\ faults = <<>> /\ closers = 0 /\ meant = <<>>
    /\ program = <<>> /\ req = <<>> /\ valid = FALSE /\ BodyInit
Read ==
    /\ stage = "source"
    /\ \E text \in TextsOf(source) : \E r \in {Syntax!Parse(text, source.profile)} :
         /\ words' = text /\ tree' = r.tree /\ faults' = r.errs /\ closers' = r.closers
         /\ stage' = IF r.errs = <<>> THEN "parsed" ELSE "rejected"
    /\ UNCHANGED <<source, meant, program, req, valid, bodyVars>>
Elaborate ==
    /\ stage = "parsed"
    /\ \E e \in {Elaborated(source.profile, tree)} :
         IF e.errs # <<>> THEN /\ stage' = "rejected" /\ faults' = e.errs
                               /\ UNCHANGED <<meant, program, req, valid>>
         ELSE /\ stage' = "running" /\ program' = e.program /\ valid' = ValidProgram(e.program)
              /\ \E r \in Requests(e.program) :
                    req' = r /\ meant' = IF valid' THEN MeaningOf(tree, e.c, r) ELSE <<>>
              /\ UNCHANGED faults
    /\ UNCHANGED <<source, words, tree, closers, bodyVars>>
\* The engine runs what the validator accepts.
Run == stage = "running" /\ valid /\ ~BodyDone /\ BodyNext /\ UNCHANGED <<frontVars, program, req, valid>>
Next == Read \/ Elaborate \/ Run
Spec == Init /\ [][Next]_vars
-----------------------------------------------------------------------------
(* What an accepted source says, in order: its words without the marks that only separate. *)
Separators == {"(", ")", "{", "}", "[", "]", ",", ";", ":", "=", "->", "=>", "else"}
Apart(mark) == IF mark = ">>" THEN <<">", ">">> ELSE <<mark>>
RECURSIVE AllApart(_)
AllApart(text) ==
    IF Len(text) < 2 THEN IF text = <<>> THEN <<>> ELSE Apart(text[1])
    ELSE AllApart(SubSeq(text, 1, Len(text) \div 2)) \o AllApart(SubSeq(text, Len(text) \div 2 + 1, Len(text)))
Significant(text) == AllApart(SelectSeq(text, LAMBDA w : w \notin Separators))
Digits(text) == IF Head(text) = "-" THEN <<"-", Tail(text)>> ELSE <<text>>
RECURSIVE Said(_)
SaidAll(nodes) == FoldLeft(LAMBDA all, n : all \o Said(n), <<>>, nodes)
Between(nodes, mark) == FoldLeft(LAMBDA all, n : IF all = <<>> THEN Said(n) ELSE all \o <<mark>> \o Said(n), <<>>, nodes)
Angled(nodes) == IF nodes = <<>> THEN <<>> ELSE <<"<">> \o SaidAll(nodes) \o <<">">>
Said(n) ==
    CASE n.k = "word" -> <<n.t>> [] n.k \in {"integer", "float", "scalar"} -> Digits(n.t)
      [] n.k = "path" -> Between(n.kids, ".")
      [] n.k = "list" -> SaidAll(n.kids)
      [] n.k = "record type" -> <<"record">> \o SaidAll(n.kids)
      [] n.k = "use" -> <<"use">> \o Between(n.kids, "as")
      [] n.k \in {"enum", "capability", "let", "if", "fail", "return", "!"} -> <<n.k>> \o SaidAll(n.kids)
      [] n.k = "effect" -> <<"effect">> \o Between(n.kids, "authorized_by")
      [] n.k \in {"fn", "test"} -> <<n.k>> \o Said(n.kids[1]) \o Angled(n.kids[2].kids) \o SaidAll(SubSeq(n.kids, 3, 6))
                                   \o <<"return">> \o Said(n.kids[7])
      [] n.k = "iterate" -> <<"iterate">> \o Said(n.kids[1])
                            \o (IF n.kids[2].k = "over" THEN <<"over">> ELSE <<"up_to">>) \o Said(n.kids[2])
                            \o <<"carrying">> \o SaidAll(SubSeq(n.kids, 3, 6)) \o <<"next">> \o SaidAll(SubSeq(n.kids, 7, 8))
      [] n.k = "call" -> Said(n.kids[1]) \o Angled(n.kids[2].kids) \o Said(n.kids[3])
      [] n.k = "intrinsic" -> <<n.t>> \o SaidAll(n.kids)
      [] n.k = "variant" /\ n.kids[1].k = "path" -> Between(SubSeq(n.kids, 1, 2), ".") \o Said(n.kids[3])
      [] n.k = "project" -> Between(n.kids, ".")
      [] n.k = "slice" -> SaidAll(SubSeq(n.kids, 1, 2)) \o <<"..">> \o Said(n.kids[3])
      [] n.k = "record" -> Said(n.kids[1]) \o (IF n.kids[2].kids = <<>> THEN <<>> ELSE <<"..">>) \o SaidAll(Tail(n.kids))
      [] n.k = "rest" -> <<"..">>
      [] n.k = "match" -> <<"match">> \o SaidAll(n.kids)
      [] n.k = "as" -> Between(n.kids, "as")
      [] n.k = "up_to" -> <<"up_to">> \o SaidAll(n.kids)
      [] n.k \in {"vec", "mask"} -> <<n.k>> \o Angled(n.kids)
      [] Syntax!Precedence(n.k) > 0 -> Said(n.kids[1]) \o Apart(n.k) \o Said(n.kids[2])
      [] OTHER -> SaidAll(n.kids)
Accepted == stage = "parsed"
\* A source the parser accepts is all in the tree: nothing of it is skipped, moved or said twice
\* (parse_with_lexical_and_source_map).  A closer `>>` that is left over is a word lost.
AcceptedIsWhole ==
    Accepted /\ closers = 0 =>
        Significant(words) = <<"mncs">> \o Said(tree[1]) \o <<"module">> \o SaidAll(Tail(tree))

\* The levels of the binary operators, the loosest first (binary_operator).
Ladder == <<{"||"}, {"&&"}, {"|"}, {"^"}, {"&"}, {"==", "!="}, {"<", "<=", ">", ">="}, {"<<", ">>"},
            {"+", "-", "+%", "-%", "+|", "-|"}, {"*", "*%", "*|", "/", "%"}>>
InLadder(mark) == \E i \in DOMAIN Ladder : mark \in Ladder[i]
Level(mark) == CHOOSE i \in DOMAIN Ladder : mark \in Ladder[i]
RECURSIVE Grouped(_)
Grouped(n) ==
    /\ InLadder(n.k) => /\ InLadder(n.kids[1].k) => Level(n.kids[1].k) >= Level(n.k)
                        /\ InLadder(n.kids[2].k) => Level(n.kids[2].k) > Level(n.k)
    /\ "kids" \in DOMAIN n => \A i \in DOMAIN n.kids : Grouped(n.kids[i])
\* Without parentheses, operators group by the ladder and to the left: the levels that
\* docs/source-profile-0.6.md documents, and those of the bitwise operators and the shifts as the
\* code has them, looser than equality and than addition (binary_operator,
\* expression_with_precedence).
GroupsByPrecedence == Accepted /\ source.flat => Grouped([k |-> "list", kids |-> tree])

\* What the elaborator makes of a source it accepts, the validator of bodies accepts.
ElaboratedBodiesAreValid == stage = "running" => valid
\* The engine's answer is what the tree means: the same end, value, declared effects and acts, for
\* every request whose budget is enough.
MeaningIsPreserved ==
    stage = "running" /\ BodyDone /\ meant # <<>> /\ bodyResult.st # "BudgetExhausted" =>
        /\ bodyResult.st = (IF meant[1].st = "ok" THEN "Returned" ELSE meant[1].st)
        /\ meant[1].st = "ok" => bodyResult.out = <<meant[1].v>>
        /\ bodyResult.effects = meant[1].events /\ bodyWorld = meant[1].acts
=============================================================================
