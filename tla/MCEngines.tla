------------------------------- MODULE MCEngines -------------------------------
(* Small programs for Engines: every operation on its own, small control flow graphs, calls and host calls. *)
EXTENDS Engines

I2 == IntT(2, TRUE)
U2 == IntT(2, FALSE)
Seq2 == SeqT(ByteT, TRUE, 2)
View2 == SeqT(ByteT, FALSE, 2)
Pair == RecT("Pair")
Flag == FinT("Flag")
MCRecords == [Pair |-> <<<<1, BoolT>>, <<2, I2>>>>, Box |-> <<<<1, FinT("Flag")>>>>, ProcessRequest |-> <<>>,
              ProcessHandle |-> <<>>, ProcessResult |-> <<>>, ProcessStartResult |-> <<>>, ProcessObservation |-> <<>>]
MCFinites == [Flag |-> <<<<>>, <<<<1, ByteT>>>>>>]

ValuesOf(ty) ==
    CASE ty.t = "bool" -> {BoolV(TRUE), BoolV(FALSE)}
      [] ty.t = "byte" -> {ByteV(0), ByteV(3)}
      [] ty.t = "float" -> {FloatV(2), FloatV(-1), FloatV(FloatMax + 1), FloatV(0)}
      [] ty = U64 -> {IntV(n, U64) : n \in {0, 1, 2, 5}}
      [] ty.t = "int" -> {IntV(n, ty) : n \in Limits(ty.bits, ty.signed).min .. Limits(ty.bits, ty.signed).max}
      [] ty = Seq2 -> {SeqV(<<ByteV(0), ByteV(3)>>)}
      [] ty.t = "seq" -> {SeqV(<<>>), SeqV(<<ByteV(1)>>)}
      [] ty = VecT(I2, 2) -> {VecV(<<IntV(1, I2), IntV(-2, I2)>>), VecV(<<IntV(1, I2), IntV(1, I2)>>)}
      [] ty.t = "mask" -> {MaskV(<<TRUE, FALSE>>), MaskV(<<FALSE, FALSE>>)}
      [] ty = Pair -> {RecV("Pair", <<<<1, BoolV(TRUE)>>, <<2, IntV(1, I2)>>>>),
                       RecV("Pair", <<<<2, IntV(1, I2)>>, <<1, BoolV(TRUE)>>>>),
                       [RecV("Pair", <<<<1, BoolV(TRUE)>>, <<2, IntV(1, I2)>>>>) EXCEPT !.spelled = TRUE],
                       RecV("Pair", <<<<1, BoolV(TRUE)>>, <<3, IntV(1, I2)>>>>)}
      [] ty = Flag -> {FinV("Flag", 1, <<>>), FinV("Flag", 2, <<<<1, ByteV(1)>>>>),
                       [FinV("Flag", 1, <<>>) EXCEPT !.disc = 2], FinV("Flag", 3, <<>>)}
      [] ty = RecT("Box") -> {RecV("Box", <<<<1, FinV("Flag", 1, <<>>)>>>>),
                              RecV("Box", <<<<1, [FinV("Flag", 1, <<>>) EXCEPT !.disc = 2]>>>>)}
      [] ty.t = "rec" -> {RecV(ty.id, <<>>)}
\* All arguments of these types.
Arguments(T) == {s \in [DOMAIN T -> UNION {ValuesOf(T[i]) : i \in DOMAIN T}] : \A i \in DOMAIN T : s[i] \in ValuesOf(T[i])}
-----------------------------------------------------------------------------
(* Every operation on its own: o, its operand types and its result types. *)
Op(o, T, R) == [o |-> o, T |-> T, R |-> R]
IntOps == {Op([NoOp EXCEPT !.kind = "int", !.op = op, !.ty = ty, !.intent = intent, !.bits = bits],
              <<ty, IF op \in {"shl", "shr"} /\ ty = U2 THEN U64 ELSE ty>>,
              <<ty>>) :
             op \in Operators, ty \in {I2, U2}, intent \in Intents, bits \in {0}}
          \cup {Op([NoOp EXCEPT !.kind = "int", !.op = op, !.ty = I2, !.intent = "widening", !.bits = bits],
                   <<I2, I2>>, <<IntT(bits, TRUE)>>) : op \in Operators, bits \in {3, 4}}
ScalarOps ==
    {Op([NoOp EXCEPT !.kind = "const", !.val = n, !.ty = ty], <<>>, <<ty>>) : n \in {1, 5}, ty \in {I2, BoolT, ByteT, U64}}
    \cup {Op([NoOp EXCEPT !.kind = "int_compare", !.op = op, !.ty = ty], <<ty, ty>>, <<BoolT>>) : op \in {"lt", "eq"}, ty \in {I2, U1}}
    \cup {Op([NoOp EXCEPT !.kind = "float_const", !.val = n], <<>>, <<FloatT>>) : n \in {1, FloatMax + 1}}
    \cup {Op([NoOp EXCEPT !.kind = "float", !.op = op], <<FloatT, FloatT>>, <<FloatT>>) : op \in {"mul", "div", "add"}}
    \cup {Op([NoOp EXCEPT !.kind = "float_compare", !.op = "le"], <<FloatT, FloatT>>, <<BoolT>>),
          Op([NoOp EXCEPT !.kind = "float_intrinsic", !.op = "neg"], <<FloatT>>, <<FloatT>>)}
    \cup {Op([NoOp EXCEPT !.kind = k, !.op = op], <<BoolT, BoolT>>, <<BoolT>>) : k \in {"bool", "bool_compare"}, op \in {"and", "eq"}}
    \cup {Op([NoOp EXCEPT !.kind = "bool_not"], <<BoolT>>, <<BoolT>>)}
    \cup {Op([NoOp EXCEPT !.kind = k, !.op = op], <<ByteT, IF k = "byte_shift" THEN U64 ELSE ByteT>>,
             <<IF k = "byte_compare" THEN BoolT ELSE ByteT>>) :
            k \in {"byte", "byte_shift", "byte_compare"}, op \in {"xor", "shl", "lt"}}
    \cup {Op([NoOp EXCEPT !.kind = "convert", !.ty = a, !.to = b], <<a>>, <<b>>) :
            a, b \in {I2, U64, ByteT, FloatT, BoolT}}
VectorOps ==
    LET vec == VecT(I2, 2)
        base == [NoOp EXCEPT !.ty = I2, !.n = 2, !.intent = "checked"]
    IN {Op([base EXCEPT !.kind = "vec_construct"], <<I2, I2>>, <<vec>>), Op([base EXCEPT !.kind = "vec_splat"], <<I2>>, <<vec>>),
        Op([base EXCEPT !.kind = "vec_compare", !.op = "lt"], <<vec, vec>>, <<MaskT(2)>>),
        Op([base EXCEPT !.kind = "mask_not"], <<MaskT(2)>>, <<MaskT(2)>>)}
       \cup {Op([base EXCEPT !.kind = "vec_extract", !.checked = c], <<vec, U64>>, <<I2>>) : c \in BOOLEAN}
       \cup {Op([base EXCEPT !.kind = "vec_replace", !.checked = c], <<vec, U64, I2>>, <<vec>>) : c \in BOOLEAN}
       \cup {Op([base EXCEPT !.kind = "vec_binary", !.op = op], <<vec, vec>>, <<vec>>) : op \in {"add", "min"}}
       \cup {Op([base EXCEPT !.kind = "vec_reduce", !.op = op], <<vec>>, <<I2>>) : op \in {"sum", "max"}}
       \cup {Op([base EXCEPT !.kind = "mask", !.op = op], <<MaskT(2), MaskT(2)>>, <<MaskT(2)>>) : op \in {"and", "xor"}}
       \cup {Op([base EXCEPT !.kind = "mask_reduce", !.op = op], <<MaskT(2)>>, <<BoolT>>) : op \in {"any", "none"}}
AggregateOps ==
    {Op([NoOp EXCEPT !.kind = "seq_construct", !.ty = ByteT, !.n = 2], <<ByteT, ByteT>>, <<Seq2>>),
     Op([NoOp EXCEPT !.kind = "bound_check"], <<Seq2, U64>>, <<U64>>), Op([NoOp EXCEPT !.kind = "seq_length"], <<View2>>, <<U64>>),
     Op([NoOp EXCEPT !.kind = "select", !.ty = I2], <<BoolT, I2, I2>>, <<I2>>),
     Op([NoOp EXCEPT !.kind = "select", !.ty = VecT(I2, 2)], <<MaskT(2), VecT(I2, 2), VecT(I2, 2)>>, <<VecT(I2, 2)>>),
     Op([NoOp EXCEPT !.kind = "view", !.exact = FALSE, !.cap = 1, !.src = [exact |-> TRUE, cap |-> 2]],
        <<Seq2, U64, U64>>, <<SeqT(ByteT, FALSE, 1)>>),
     Op([NoOp EXCEPT !.kind = "narrow", !.cap = 0, !.src = [exact |-> FALSE, cap |-> 2]], <<View2>>, <<SeqT(ByteT, FALSE, 0)>>),
     Op([NoOp EXCEPT !.kind = "fin_construct", !.nominal = "Flag", !.variant = 2, !.names = <<1>>], <<ByteT>>, <<Flag>>),
     Op([NoOp EXCEPT !.kind = "fin_is", !.nominal = "Flag", !.variant = 2], <<Flag>>, <<BoolT>>),
     Op([NoOp EXCEPT !.kind = "fin_project", !.nominal = "Flag", !.variant = 2, !.field = 1], <<Flag>>, <<ByteT>>),
     Op([NoOp EXCEPT !.kind = "rec_construct", !.nominal = "Pair", !.names = <<1, 2>>], <<BoolT, I2>>, <<Pair>>),
     Op([NoOp EXCEPT !.kind = "rec_project", !.nominal = "Pair", !.field = 2], <<Pair>>, <<I2>>),
     Op([NoOp EXCEPT !.kind = "rec_project", !.nominal = "Box", !.field = 1], <<RecT("Box")>>, <<Flag>>),
     Op([NoOp EXCEPT !.kind = "check"], <<>>, <<>>)}
    \cup {Op([NoOp EXCEPT !.kind = "seq_project", !.checked = c, !.cap = 2], <<Seq2, U64>>, <<ByteT>>) : c \in BOOLEAN}
    \cup {Op([NoOp EXCEPT !.kind = "seq_replace", !.ty = ByteT, !.checked = c, !.cap = 2], <<Seq2, U64, ByteT>>, <<Seq2>>) : c \in BOOLEAN}
    \cup {Op([NoOp EXCEPT !.kind = "seq_copy", !.ty = ByteT, !.checked = c, !.cap = 2, !.src = [exact |-> FALSE, cap |-> 2]],
             <<Seq2, U64, View2, U64, U64>>, <<Seq2>>) : c \in BOOLEAN}
\* The same operation with one type replaced.
Palette == {I2, U64, BoolT, ByteT, FloatT, Seq2, View2, MaskT(2), Flag}
Retyped(e) == {[e EXCEPT !.T[i] = ty] : i \in DOMAIN e.T, ty \in Palette} \cup {[e EXCEPT !.R[1] = ty] : ty \in {t \in Palette : e.R # <<>>}}
              \cup {[e EXCEPT !.T = IF @ = <<>> THEN @ ELSE Front(@)]}
HostTypes(op) ==
    CASE op \in FsWrites \/ op = "fs_read_bytes_at" ->
           Op("", [i \in 1 .. HostArity(op) |-> IF i \in ViewPositions(op) THEN View2 ELSE U64], <<IF op = "fs_read_bytes_at" THEN View2 ELSE U64>>)
      [] op = "fs_entry_name_at" -> Op("", <<U64>>, <<View2>>)
      [] op \in FsLists -> Op("", [i \in 1 .. HostArity(op) |-> U64], <<U64>>)
      [] op \in {"process_start", "process_run"} ->
           Op("", <<RecT("ProcessRequest")>>, <<RecT(IF op = "process_run" THEN "ProcessResult" ELSE "ProcessStartResult")>>)
      [] op \in Lifecycle -> Op("", <<RecT("ProcessHandle")>>, <<RecT("ProcessObservation")>>)
      [] op = "blob_read" -> Op("", <<>>, <<SeqT(ByteT, FALSE, 1)>>)
      [] op = "clock_read" -> Op("", <<>>, <<U64>>)
      [] op = "ed25519_verify" -> Op("", <<View2, View2, View2>>, <<BoolT>>)
      [] op = "provider_call" -> Op("", <<View2, BoolT>>, <<BoolT>>)
      [] op = "blob_append" -> Op("", <<View2>>, <<U64>>)
      [] op \in {"structured_read", "structured_read_identity"} -> Op("", [i \in 1 .. HostArity(op) |-> View2], <<Pair>>)
      [] op = "structured_write" -> Op("", <<View2, View2, BoolT>>, <<U64>>)
      [] OTHER -> Op("", <<View2>>, <<SeqT(ByteT, TRUE, 1)>>)
HostCallOps == {[HostTypes(op) EXCEPT !.o = [NoOp EXCEPT !.kind = "host", !.host = op, !.needs = "fs"]] : op \in HostOps}

Authority == {"fs"}
Declared == {<<k, "t", "fs">> : k \in {HostEffect(op) : op \in HostOps}}
Fn(T, R, effects, body) == [in |-> T, outs |-> R, caps |-> Authority, effects |-> effects, hasBody |-> TRUE, body |-> body]
Params(T) == [i \in DOMAIN T |-> Def(i, T[i])]
Body(T, blocks) == [params |-> Params(T), entry |-> 1, blocks |-> blocks, policy |-> "legacy", iterations |-> {}]
Block(params, ops, term) == [params |-> params, ops |-> ops, term |-> term]
Return(vals) == [k |-> "return", vals |-> vals]
Branch(to, args) == [k |-> "branch", to |-> to, args |-> args]
Cond(on, to, args, else, elseArgs) == [k |-> "cond", on |-> on, to |-> to, args |-> args, else |-> else, elseArgs |-> elseArgs]
Using(o, in, out) == [o EXCEPT !.in = in, !.out = out]
Single(e) ==
    LET out == [i \in DOMAIN e.R |-> Def(9 + i, e.R[i])]
    IN [main |-> Fn(e.T, e.R, Declared,
                    Body(e.T, <<Block(<<>>, <<Using(e.o, [i \in DOMAIN e.T |-> i], out)>>, Return(IdsOf(out)))>>))]
Singles == LET given == ScalarOps \cup VectorOps \cup AggregateOps
           IN {e \in IntOps \cup given \cup HostCallOps \cup UNION {Retyped(g) : g \in given} : ValidProgram(Single(e))}
-----------------------------------------------------------------------------
(* Control flow: three blocks, each negates the parameter into a value of its own; one of them negates *)
(* the value of some block once more. *)
Not == [NoOp EXCEPT !.kind = "bool_not"]
Terms == {Return(<<1>>)} \cup {Branch(b, <<>>) : b \in 1 .. 3}
         \cup {Cond(1, e[1], <<>>, e[2], <<>>) : e \in {<<1, 2>>, <<2, 3>>, <<3, 1>>}}
Graph(g) ==
    LET ops(b) == <<Using(Not, <<1>>, <<Def(10 + b, BoolT)>>)>>
                  \o (IF b = g.user THEN <<Using(Not, <<10 + g.used>>, <<Def(20, BoolT)>>)>> ELSE <<>>)
    IN [main |-> Fn(<<BoolT>>, <<BoolT>>, {},
                    [Body(<<BoolT>>, [b \in 1 .. 3 |-> Block(<<>>, ops(b), g.terms[b])])
                       EXCEPT !.entry = g.entry, !.policy = g.policy])]
Graphs == {g \in [terms : [1 .. 3 -> Terms], user : 1 .. 3, used : 1 .. 3, entry : {1, 2}, policy : {"bounded", "legacy"}] :
             /\ g.entry = 2 => g.policy = "legacy"
             /\ \E b \in 1 .. 3 : g.terms[b].k = "return"
             /\ LET p == Graph(g) IN Reachable(p.main.body) = 1 .. 3 /\ ValidProgram(p)}
-----------------------------------------------------------------------------
(* Calls, loops and nested effects. *)
Calling(f, callee, in, out) ==
    [NoOp EXCEPT !.kind = "call", !.fn = f, !.caps = callee.caps, !.effects = callee.effects, !.in = in, !.out = out]
View1 == SeqT(ByteT, FALSE, 1)
HostOp(op, in, out) == [NoOp EXCEPT !.kind = "host", !.host = op, !.needs = "fs", !.in = in, !.out = out]
Constant(n, ty, id) == [NoOp EXCEPT !.kind = "const", !.val = n, !.ty = ty, !.out = <<Def(id, ty)>>]
Straight(T, R, effects, ops, vals) == Fn(T, R, effects, Body(T, <<Block(<<>>, ops, Return(vals))>>))
Recording == [NoOp EXCEPT !.kind = "effect", !.effect = <<"host_write", "t", "fs">>]

LenFn1 == Straight(<<View1>>, <<U64>>, {}, <<[NoOp EXCEPT !.kind = "seq_length", !.in = <<1>>, !.out = <<Def(10, U64)>>]>>, <<10>>)
LenFn == Straight(<<View2>>, <<U64>>, {}, <<[NoOp EXCEPT !.kind = "seq_length", !.in = <<1>>, !.out = <<Def(10, U64)>>]>>, <<10>>)
FirstFn == Straight(<<Seq2>>, <<ByteT>>, {},
                    <<Constant(0, U64, 10),
                      [NoOp EXCEPT !.kind = "seq_project", !.cap = 2, !.in = <<1, 10>>, !.out = <<Def(11, ByteT)>>]>>, <<11>>)
MidFn == Straight(<<Seq2>>, <<ByteT>>, {}, <<Calling("first", FirstFn, <<1>>, <<Def(10, ByteT)>>)>>, <<10>>)
AppendFn == Straight(<<View2>>, <<U64>>, {<<"host_write", "t", "fs">>},
                     <<HostOp("blob_append", <<1>>, <<Def(10, U64)>>), HostOp("blob_append", <<1>>, <<Def(11, U64)>>)>>, <<11>>)
FieldFn == Straight(<<Pair>>, <<I2>>, {},
                    <<[NoOp EXCEPT !.kind = "rec_project", !.nominal = "Pair", !.field = 2, !.in = <<1>>, !.out = <<Def(10, I2)>>]>>, <<10>>)
Declaration == [Straight(<<BoolT>>, <<BoolT>>, {}, <<>>, <<1>>) EXCEPT !.hasBody = FALSE]
Loop ==
    LET add(ty, in, id) == [NoOp EXCEPT !.kind = "int", !.op = "add", !.ty = ty, !.intent = "wrapping", !.in = in, !.out = <<Def(id, ty)>>]
    IN Fn(<<I2>>, <<I2>>, {},
          [params |-> Params(<<I2>>), entry |-> 1, policy |-> "bounded",
           iterations |-> {[header |-> 2, backedge |-> 3, exit |-> 4, bound |-> 2, over |-> FALSE, state |-> I2, caps |-> {}]},
           blocks |->
             <<Block(<<>>, <<Constant(0, U64, 10), Constant(1, U64, 11), Constant(2, U64, 12), Constant(1, I2, 13)>>, Branch(2, <<1, 10>>)),
               Block(<<Def(20, I2), Def(21, U64)>>,
                     <<[NoOp EXCEPT !.kind = "int_compare", !.op = "lt", !.ty = U64, !.in = <<21, 12>>, !.out = <<Def(22, BoolT)>>]>>,
                     Cond(22, 3, <<>>, 4, <<20>>)),
               Block(<<>>, <<add(I2, <<20, 13>>, 30), add(U64, <<21, 11>>, 31)>>, Branch(2, <<30, 31>>)),
               Block(<<Def(40, I2)>>, <<>>, Return(<<40>>))>>])
\* Two block parameters are exchanged, around a cycle no declaration bounds.
Exchange ==
    Fn(<<BoolT, BoolT>>, <<BoolT>>, {},
       Body(<<BoolT, BoolT>>, <<Block(<<>>, <<>>, Branch(2, <<1, 2>>)),
                                Block(<<Def(10, BoolT), Def(11, BoolT)>>, <<>>, Cond(10, 3, <<10>>, 2, <<11, 10>>)),
                                Block(<<Def(12, BoolT)>>, <<>>, Return(<<12>>))>>))
NamedProgram(name) ==
    CASE name = "widened" -> [main |-> Straight(<<View1>>, <<U64>>, {}, <<Calling("len", LenFn, <<1>>, <<Def(10, U64)>>)>>, <<10>>), len |-> LenFn]
      [] name = "large" -> [main |-> Straight(<<Seq2>>, <<ByteT>>, {}, <<Calling("mid", MidFn, <<1>>, <<Def(10, ByteT)>>)>>, <<10>>),
                            mid |-> MidFn, first |-> FirstFn]
      [] name = "recursion" ->
           LET f == Straight(<<BoolT>>, <<BoolT>>, {}, <<>>, <<1>>)
           IN [main |-> Straight(<<BoolT>>, <<BoolT>>, {}, <<Calling("main", f, <<1>>, <<Def(10, BoolT)>>)>>, <<10>>)]
      [] name = "declared" ->
           [main |-> Straight(<<BoolT>>, <<BoolT>>, {}, <<Calling("outside", Declaration, <<1>>, <<Def(10, BoolT)>>)>>, <<10>>),
            outside |-> Declaration]
      [] name = "appends" ->
           [main |-> Straight(<<View2>>, <<U64>>, AppendFn.effects,
                              <<Calling("append", AppendFn, <<1>>, <<Def(10, U64)>>), HostOp("blob_append", <<1>>, <<Def(11, U64)>>)>>, <<10>>),
            append |-> AppendFn]
      [] name = "undeclared" ->
           [main |-> Straight(<<View2>>, <<U64>>, {}, <<Calling("append", AppendFn, <<1>>, <<Def(10, U64)>>)>>, <<10>>), append |-> AppendFn]
      [] name = "records" ->
           [main |-> Straight(<<Pair>>, <<I2>>, {}, <<Calling("field", FieldFn, <<1>>, <<Def(10, I2)>>)>>, <<10>>), field |-> FieldFn]
      [] name = "effects" -> [main |-> Straight(<<>>, <<>>, {<<"host_write", "t", "fs">>}, <<Recording, Recording>>, <<>>)]
      [] name = "nothing" ->
           LET f == Straight(<<>>, <<>>, {<<"host_write", "t", "fs">>}, <<Recording>>, <<>>)
           IN [main |-> Straight(<<>>, <<>>, {<<"host_write", "t", "fs">>}, <<Calling("unit", f, <<>>, <<>>)>>, <<>>), unit |-> f]
      [] name = "granted" ->
           [main |-> Straight(<<>>, <<U64>>, {<<"host_read", "t", "fs">>},
                              <<HostOp("blob_read", <<>>, <<Def(10, View1)>>), Calling("len", LenFn1, <<10>>, <<Def(11, U64)>>)>>, <<11>>),
            len |-> LenFn1]
      [] name = "bit" -> [main |-> Fn(<<U1>>, <<U1>>, {}, Body(<<U1>>, <<Block(<<>>, <<>>, Cond(1, 2, <<>>, 3, <<>>)),
                                   Block(<<>>, <<>>, Return(<<1>>)), Block(<<>>, <<>>, [k |-> "failure"])>>))]
      [] name = "loop" -> [main |-> Loop]
      [] name = "irreducible" ->
           [main |-> Fn(<<BoolT>>, <<BoolT>>, {},
                        [Body(<<BoolT>>, <<Block(<<>>, <<>>, Cond(1, 2, <<>>, 3, <<>>)), Block(<<>>, <<>>, Branch(3, <<>>)),
                                           Block(<<>>, <<>>, Cond(1, 2, <<>>, 4, <<>>)), Block(<<>>, <<>>, Return(<<1>>))>>)
                           EXCEPT !.policy = "bounded"])]
      [] name = "exchange" -> [main |-> Exchange]
Names == {"widened", "large", "recursion", "declared", "appends", "undeclared", "records", "effects", "nothing", "granted", "bit", "loop", "irreducible", "exchange"}
-----------------------------------------------------------------------------
MCPrograms == LET all == {Single(e) : e \in Singles} \cup {Graph(g) : g \in Graphs} \cup {NamedProgram(n) : n \in Names} IN all

Plain == [fn |-> "main", args |-> <<>>, budget |-> 6, depth |-> None, policy |-> "pure", grants |-> <<>>, provider |-> None,
          session |-> FALSE, owned |-> FALSE]
Grant(bytes, answer, authorizes) == [cap |-> "fs", bytes |-> bytes, answer |-> answer, authorizes |-> authorizes]
TwoBytes == <<ByteV(0), ByteV(1)>>
Grants == {<<>>, <<Grant(<<ByteV(1)>>, "ok", TRUE)>>, <<Grant(TwoBytes, "ok", FALSE)>>, <<Grant(<<>>, "invalid", TRUE)>>,
           <<Grant(<<>>, "fails", TRUE)>>, <<Grant(TwoBytes \o TwoBytes, "ok", TRUE)>>}
Providers == {None} \cup {Some([answer |-> a, value |-> v, events |-> <<>>]) : a \in {"ok", "refuses"}, v \in {BoolV(TRUE), ByteV(1)}}
KindsIn(p) == UNION {{o.kind : o \in Range(b.ops)} : b \in UNION {Range(p[f].body.blocks) : f \in DOMAIN p}}
Provided(p) == \E o \in Range(p.main.body.blocks[1].ops) : o.host = "provider_call"
\* Host calls under every policy and grant; calls and loops under several budgets; the rest as they are.
MCRequests(p) ==
    LET in == Arguments(p.main.in)
    IN IF KindsIn(p) \cap {"host", "effect"} # {}
       THEN {[Plain EXCEPT !.args = a, !.policy = y, !.grants = g, !.session = s, !.provider = pr] :
               a \in in, y \in {"pure", "record", "realize"}, g \in Grants, s \in BOOLEAN,
               pr \in IF Provided(p) THEN Providers ELSE {None}}
       ELSE IF "call" \in KindsIn(p) \/ p.main.body.iterations # {} \/ p.main.in = <<U1>>
       THEN {[Plain EXCEPT !.args = a, !.budget = n, !.depth = k, !.owned = o] :
               a \in in, n \in {0, 2, 5, 12, MaxBudget + 1}, k \in {None, Some(1), Some(MaxDepth + 1)}, o \in BOOLEAN}
            \cup {[Plain EXCEPT !.fn = f, !.args = a] : f \in {"main", "absent"}, a \in {<<>>, <<ByteV(0)>>}}
       ELSE {[Plain EXCEPT !.args = a] : a \in in}
=============================================================================
