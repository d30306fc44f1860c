---------------------------- MODULE ModuleElaborator ----------------------------
(***************************************************************************)
(* Statements, functions and the module of one source                      *)
(* (crates/mncs-compiler/src/frontend.rs).                                 *)
(*                                                                         *)
(* Statements thread the state of Elaborator.  A function yields its body  *)
(* or diagnostics, a module a program or the diagnostics of all of it.     *)
(***************************************************************************)
EXTENDS Elaborator

(* Functions.  A function's parts are nodes: name, generic parameters, inputs, outputs, clauses, *)
(* statements and the value returned.                                                           *)
Name(node) == node.kids[1].t
Parts(f, i) == f.kids[i].kids
Names(nodes) == [i \in DOMAIN nodes |-> Name(nodes[i])]
Repeats(nodes, i) == \E j \in DOMAIN nodes : j < i /\ Name(nodes[j]) = Name(nodes[i])
Constraint(g) == IF Len(g.kids) > 1 THEN g.kids[2].t ELSE "Type"
GenericFault(nodes, i) ==
    IF Repeats(nodes, i) THEN "MNE228"
    ELSE IF Len(nodes[i].kids) > 2 \/ Constraint(nodes[i]) \notin {"Nat", "Type"} THEN "MNE229" ELSE ""
\* The generic parameters that stand, and the faults of all.
GenericsOf(f) ==
    LET nodes == Parts(f, 2)
        fault(i) == GenericFault(nodes, i)
        keep == SelectSeq([i \in DOMAIN nodes |-> i], LAMBDA i : fault(i) = "")
        values == ToSet(Names(Parts(f, 3))) \cup ToSet(Names(Parts(f, 4)))
        bad == SelectSeq([i \in DOMAIN nodes |-> fault(i)], LAMBDA c : c # "")
    IN [params |-> [i \in DOMAIN keep |-> [n |-> Name(nodes[keep[i]]), k |-> Constraint(nodes[keep[i]])]],
        errs |-> bad \o [j \in 1 .. Cardinality({i \in DOMAIN keep : Name(nodes[keep[i]]) \in values}) |-> "MNE228"]]
ClausesOf(f, kind) == SelectSeq(Parts(f, 5), LAMBDA x : x.k = kind)
Flat(seqs) == FoldLeft(LAMBDA all, x : all \o x, <<>>, seqs)
EffectsDeclared(f) ==
    LET nodes == ClausesOf(f, "effect") IN [i \in DOMAIN nodes |-> <<Name(nodes[i]), f.kids[1].t, nodes[i].kids[2].t>>]
\* FunctionSignature::from_ast
SignatureOf(f, c) ==
    LET nodes == Parts(f, 2)
        generics == [i \in DOMAIN nodes |-> [n |-> Name(nodes[i]), k |-> IF Constraint(nodes[i]) = "Nat" THEN "Nat" ELSE "Type"]]
        typed(x) == TypeOf(x.kids[2], [c EXCEPT !.generics = generics])
        outs == Parts(f, 4)
        ins == [i \in DOMAIN Parts(f, 3) |-> typed(Parts(f, 3)[i])]
        out == IF outs = <<>> THEN Typed(UnsetT) ELSE typed(outs[1])
    IN [in |-> [i \in DOMAIN ins |-> ins[i].ty], out |-> out.ty, caps |-> ToSet(Names(ClausesOf(f, "capability"))),
        effects |-> EffectsDeclared(f), generics |-> generics, errs |-> Flat([i \in DOMAIN ins |-> ins[i].errs]) \o out.errs]
\* Capabilities once each, effects by one of them, executable contracts by a predicate of the program.
ContractFault(x, c) ==
    LET callee == x.kids[2].t
    IN IF x.kids[1].t \notin {"property", "invariant", "metamorphic"} THEN ""
       ELSE IF c.profile < 9 THEN "MNE230" ELSE IF callee \notin DOMAIN c.sigs THEN "MNE231"
       ELSE IF c.sigs[callee].out # BoolT THEN "MNE233" ELSE ""
ClauseFaults(f, c) ==
    LET caps == ClausesOf(f, "capability")
        faults(nodes, code(_)) == SelectSeq([i \in DOMAIN nodes |-> code(i)], LAMBDA x : x # "")
        effects == ClausesOf(f, "effect")
        contracts == ClausesOf(f, "contract")
    IN faults(caps, LAMBDA i : IF Repeats(caps, i) THEN "MNE110" ELSE "")
       \o faults(effects, LAMBDA i : IF effects[i].kids[2].t \in ToSet(Names(caps)) THEN "" ELSE "MNE111")
       \o faults(contracts, LAMBDA i : ContractFault(contracts[i], c))
Begun(f, c, in) ==
    LET start == [c |-> c, blocks |-> <<NewBlock>>, cur |-> 1, n |-> Len(in), errs |-> <<>>, scopes |-> <<<<>>>>, bound |-> 0,
                  prov |-> <<>>, checked |-> <<>>, v |-> None, open |-> <<>>, iters |-> <<>>, depth |-> 0]
    IN FoldLeft(LAMBDA s, i : BindName(s, Name(Parts(f, 3)[i]), i, in[i], "Parameter"), start, [i \in DOMAIN in |-> i])
\* Variant: the value is returned as it is.
FinishReturn_Unfitted(s) ==
    With(s, LAMBDA t, x : IF IsOpen(t) THEN End(t, [k |-> "return", vals |-> <<x.id>>]) ELSE t)
FinishReturn(s) ==
    With(s, LAMBDA t, x : With(Fitted(t, x, t.c.out, "MNE103"), LAMBDA u, y :
         IF IsOpen(u) THEN End(u, [k |-> "return", vals |-> <<y.id>>]) ELSE u))
\* A body that only returns a name has no builder: the value is the parameter's.
ReturnedName(s, name) ==
    With(Resolve(s, name), LAMBDA t, x :
         End(NoteIf(t, x.ty # s.c.out /\ ~WidensTo(t, x.ty, s.c.out), "MNE103"), [k |-> "return", vals |-> <<x.id>>]))
BodyOf(f, s) ==
    LET e == f.kids[7]
        word == Spelling(e.kids[1])
        borrows == Binds(s, word) /\ Borrows(Holder(s, word).ty, s.c.out)
    IN IF Parts(f, 6) = <<>> /\ e.k = "name" /\ ~borrows THEN ReturnedName(s, word)
       ELSE FinishReturn(E([k |-> "body", kids |-> <<f.kids[6], e>>], Some(s.c.out), s))
\* What a function adds to the program, and its faults.
Assembled(f, c, generics, sig, s) ==
    LET iteration(it) == [header |-> it.header, backedge |-> it.backedge, exit |-> it.exit, bound |-> it.bound,
                          over |-> it.over, state |-> it.state, caps |-> it.caps]
    IN [errs |-> generics.errs \o sig.errs \o ClauseFaults(f, c) \o s.errs,
        fn |-> [in |-> sig.in, outs |-> <<sig.out>>, caps |-> sig.caps, effects |-> ToSet(sig.effects), hasBody |-> TRUE,
                generics |-> generics.params,
                body |-> [params |-> [i \in DOMAIN sig.in |-> Def(i, sig.in[i])], entry |-> 1, blocks |-> s.blocks,
                          policy |-> IF c.profile = 4 THEN "bounded" ELSE "legacy",
                          iterations |-> {iteration(it) : it \in ToSet(s.iters)}]]]
\* elaborate_function, in the context of its module.
FunctionWith(f, c, generics, sig) ==
    IF Len(Parts(f, 4)) # 1 THEN [errs |-> Append(generics.errs, "MNE101"), fn |-> <<>>]
    ELSE Assembled(f, c, generics, sig,
                   BodyOf(f, Begun(f, [c EXCEPT !.fn = f.kids[1].t, !.out = sig.out, !.generics = generics.params], sig.in)))
Specialised(f, c, generics) == FunctionWith(f, c, generics, SignatureOf(f, [c EXCEPT !.generics = generics.params]))
FunctionOf(f, c) == Specialised(f, c, GenericsOf(f))
-----------------------------------------------------------------------------
(* Modules. *)
SortedFields(fields) == SortSeq(fields, LAMBDA a, b : Rank[a[1]] < Rank[b[1]])
\* The elements of a list of declarations that are the first of their name.
Firsts(nodes) == SelectSeq([i \in DOMAIN nodes |-> i], LAMBDA i : ~Repeats(nodes, i))
FirstOf(nodes, name) == nodes[CHOOSE i \in ToSet(Firsts(nodes)) : Name(nodes[i]) = name]
Doubles(nodes, code) == [i \in 1 .. Len(nodes) - Len(Firsts(nodes)) |-> code]
\* The fields of a variant or a record that stand, sorted by name, and the faults of the others.
FieldsOf(nodes, c, twice, supports(_), code) ==
    LET once == [i \in DOMAIN Firsts(nodes) |-> nodes[Firsts(nodes)[i]]]
        keep == SelectSeq(once, LAMBDA f : supports(f.kids[2]))
    IN [fields |-> SortedFields([i \in DOMAIN keep |-> <<Name(keep[i]), TypeOf(keep[i].kids[2], c).ty>>]),
        errs |-> Doubles(nodes, twice) \o [i \in 1 .. Len(once) - Len(keep) |-> code]]
\* An enum's variants: their payloads may be of any declared type but a type that is not one.
FiniteOf(node, c) ==
    LET variants == [i \in DOMAIN Firsts(node.kids[2].kids) |-> node.kids[2].kids[Firsts(node.kids[2].kids)[i]]]
        of(v) == FieldsOf(v.kids[2].kids, c, "MNE170", LAMBDA ty : TypeOf(ty, c).ty # UnsetT, "MNE171")
    IN [type |-> [i \in DOMAIN variants |-> [n |-> Name(variants[i]), fields |-> of(variants[i]).fields]],
        errs |-> Doubles(node.kids[2].kids, "MNE121") \o Flat([i \in DOMAIN variants |-> of(variants[i]).errs])]
\* A record's fields: scalars, declared types and sequences, no vectors.
RecordTypeOf(node, c) ==
    FieldsOf(node.kids[2].kids, c, "MNE152",
             LAMBDA ty : ty.k \notin {"vec", "mask"} /\ TypeOf(ty, c).ty # UnsetT, "MNE153")
\* The names an expression or a statement calls; neither a payload nor an iteration's domain is
\* looked into.
RECURSIVE CallsIn(_)
CallsIn(e) ==
    IF e.k \in {"variant", "over"} \/ "kids" \notin DOMAIN e THEN {}
    ELSE (IF e.k = "call" THEN {Spelling(e.kids[1])} ELSE {}) \cup UNION {CallsIn(e.kids[i]) : i \in DOMAIN e.kids}
CallsOf(f, c) ==
    LET called == CallsIn(f.kids[7]) \cup CallsIn(f.kids[6])
    IN (called \cap DOMAIN c.sigs) \ (IF c.profile >= 13 THEN {f.kids[1].t} ELSE {})
\* The functions of a graph that are on a cycle of it.
OnCycles(graph) ==
    LET step(set) == set \cup UNION {graph[g] : g \in set \cap DOMAIN graph}
        reached(f) == FoldLeft(LAMBDA set, i : step(set), graph[f], [i \in 1 .. Cardinality(DOMAIN graph) |-> i])
    IN {f \in DOMAIN graph : f \in reached(f)}
RecursiveFaults(functions, c) ==
    LET graph == [name \in ToSet(Names(functions)) |-> CallsOf(FirstOf(functions, name), c)]
    IN [i \in 1 .. Cardinality(OnCycles(graph)) |-> "MNE130"]
\* The declarations of some kinds.
Declarations(tree, kinds) == SelectSeq(tree[3].kids, LAMBDA d : d.k \in kinds)
\* What the functions of a module see of each other: its types and signatures, and their faults.
NamesOf(nodes) == ToSet(Names(nodes))
FiniteNodes(tree) == Declarations(tree, {"enum"})
RecordNodes(tree) == Declarations(tree, {"record type"})
FunctionNodes(tree) == Declarations(tree, {"fn", "test"})
\* The names alone: a type may refer to one declared later.
Bare(version, tree) ==
    [profile |-> version, module |-> Spelling(tree[2]), generics |-> <<>>, fn |-> "", out |-> UnsetT, measure |-> 1,
     finites |-> [n \in NamesOf(FiniteNodes(tree)) |-> <<>>], records |-> [n \in NamesOf(RecordNodes(tree)) |-> <<>>], sigs |-> <<>>]
FaultsOf(nodes, types) == Flat([i \in DOMAIN nodes |-> types[Name(nodes[i])].errs])
Signed(tree, c, finites, records) ==
    [c |-> [c EXCEPT !.sigs = [n \in NamesOf(FunctionNodes(tree)) |-> SignatureOf(FirstOf(FunctionNodes(tree), n), c)]],
     errs |-> Doubles(FiniteNodes(tree), "MNE120") \o FaultsOf(FiniteNodes(tree), finites) \o Doubles(RecordNodes(tree), "MNE150")
              \o [i \in 1 .. Cardinality(DOMAIN finites \cap DOMAIN records) |-> "MNE151"] \o FaultsOf(RecordNodes(tree), records)
              \o Doubles(FunctionNodes(tree), "MNE104")]
WithTypes(tree, c, finites, records) ==
    Signed(tree, [c EXCEPT !.finites = [n \in DOMAIN finites |-> finites[n].type],
                           !.records = [n \in DOMAIN records \ DOMAIN finites |-> records[n].fields]], finites, records)
FromNames(tree, bare) ==
    WithTypes(tree, bare, [n \in DOMAIN bare.finites |-> FiniteOf(FirstOf(FiniteNodes(tree), n), bare)],
              [n \in DOMAIN bare.records |-> RecordTypeOf(FirstOf(RecordNodes(tree), n), bare)])
Context(version, tree) == FromNames(tree, Bare(version, tree))
Linked(context, functions, made) ==
    [errs |-> context.errs \o RecursiveFaults(functions, context.c) \o Flat([i \in DOMAIN made |-> made[i].errs]),
     c |-> context.c,
     program |-> [n \in ToSet(Names(functions)) |-> made[CHOOSE i \in ToSet(Firsts(functions)) : Name(functions[i]) = n].fn]]
\* elaborate_linked_module, of a source without imports: the program and what it refers to, or faults.
InContext(functions, context) == Linked(context, functions, [i \in DOMAIN functions |-> FunctionOf(functions[i], context.c)])
Elaborated(version, tree) == InContext(FunctionNodes(tree), Context(version, tree))
=============================================================================
