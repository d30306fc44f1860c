------------------------------ MODULE MCBackends ------------------------------
(* Small programs for Backends: every operation on its own at the edges of each width, calls that return *)
(* each kind of aggregate, block arguments, and requests the boundary refuses. *)
EXTENDS Backends

I2 == IntT(ByteBits, TRUE)
U2 == IntT(ByteBits, FALSE)
I6 == IntT(NarrowBits, TRUE)
U6 == IntT(NarrowBits, FALSE)
I12 == IntT(WideBits, TRUE)
Integers6 == {I2, U2, I6, U6, I12, U64}
Seq2 == SeqT(I12, TRUE, 2)
Narrow2 == SeqT(U6, TRUE, 2)
Signed2 == SeqT(I6, TRUE, 2)
View2 == SeqT(I12, FALSE, 2)
Bytes2 == SeqT(ByteT, FALSE, 2)
Vec2 == VecT(I6, 2)
Pair == RecT("Pair")
Box == RecT("Box")
Maybe == FinT("Maybe")
Enum == FinT("Enum")
MCRecords == [Pair |-> <<<<1, I2>>, <<2, I12>>>>, Box |-> <<<<1, Pair>>, <<2, Maybe>>, <<3, BoolT>>>>, Window |-> <<<<1, View2>>>>,
              ProcessRequest |-> <<>>, ProcessHandle |-> <<>>, ProcessResult |-> <<>>, ProcessStartResult |-> <<>>, ProcessObservation |-> <<>>]
MCFinites == [Maybe |-> <<<<>>, <<<<1, ByteT>>, <<2, I6>>>>>>, Enum |-> <<<<>>, <<>>>>]

PairOf(a, b) == RecV("Pair", <<<<1, IntV(a, I2)>>, <<2, IntV(b, I12)>>>>)
MaybeOf(a, b) == FinV("Maybe", 2, <<<<1, ByteV(a)>>, <<2, IntV(b, I6)>>>>)
Edges(ty) == LET l == Limits(ty.bits, ty.signed) IN IF ty.signed THEN {l.min, -1, 1, l.max} ELSE {0, 1, l.max \div 2 + 1, l.max}
ValuesOf(ty) ==
    CASE ty.t = "bool" -> {BoolV(TRUE), BoolV(FALSE)}
      [] ty.t = "byte" -> {ByteV(1), ByteV(3)}
      [] ty.t = "float" -> {FloatV(n) : n \in {2, -1, 40, FloatMax}}
      [] ty.t = "int" -> {IntV(n, ty) : n \in Edges(ty)}
      [] ty \in {Seq2, Narrow2, Signed2} -> {SeqV(<<IntV(1, ty.elem), IntV(Limits(ty.elem.bits, ty.elem.signed).max, ty.elem)>>),
                                    SeqV(<<IntV(Limits(ty.elem.bits, ty.elem.signed).min, ty.elem), IntV(0, ty.elem)>>)}
      [] ty = View2 -> {SeqV(<<>>), SeqV(<<IntV(-1, I12), IntV(5, I12)>>)}
      [] ty = Bytes2 -> {SeqV(<<ByteV(2)>>)}
      [] ty = Vec2 -> {VecV(<<IntV(-32, I6), IntV(3, I6)>>), VecV(<<IntV(1, I6), IntV(3, I6)>>)}
      [] ty.t = "mask" -> {MaskV(<<TRUE, FALSE>>), MaskV(<<FALSE, FALSE>>)}
      [] ty = Pair -> {PairOf(-2, 7), RecV("Pair", <<<<2, IntV(7, I12)>>, <<1, IntV(1, I2)>>>>), [PairOf(1, 7) EXCEPT !.spelled = TRUE],
                       PairOf(2, 7)}
      [] ty = Maybe -> {FinV("Maybe", 1, <<>>), MaybeOf(3, -5), [FinV("Maybe", 1, <<>>) EXCEPT !.spelled = TRUE]}
      [] ty = Enum -> {FinV("Enum", 1, <<>>), FinV("Enum", 2, <<>>), [FinV("Enum", 1, <<>>) EXCEPT !.disc = 2]}
      [] ty = Box -> {RecV("Box", <<<<1, PairOf(-1, -9)>>, <<2, MaybeOf(1, 30)>>, <<3, BoolV(TRUE)>>>>)}
Arguments(T) == {s \in [DOMAIN T -> UNION {ValuesOf(T[i]) : i \in DOMAIN T}] : \A i \in DOMAIN T : s[i] \in ValuesOf(T[i])}
-----------------------------------------------------------------------------
Op(o, T, R) == [o |-> o, T |-> T, R |-> R]
Integer(op, ty, intent) ==
    Op([NoOp EXCEPT !.kind = "int", !.op = op, !.ty = ty, !.intent = intent], <<ty, IF op \in {"shl", "shr"} THEN U64 ELSE ty>>, <<ty>>)
IntOps == {Integer(op, ty, intent) : op \in {"add", "sub", "mul", "div", "mod"}, ty \in Integers6, intent \in {"wrapping", "checked", "saturating"}}
          \cup {Integer(op, ty, "wrapping") : op \in {"and", "xor", "shl", "shr"}, ty \in Integers6}
          \cup {Integer("or", U2, "wrapping"), Integer("shl", I2, "checked"),
                Op([NoOp EXCEPT !.kind = "int", !.op = "add", !.ty = I2, !.intent = "widening", !.bits = NarrowBits], <<I2, I2>>, <<I6>>)}
ScalarOps ==
    {Op([NoOp EXCEPT !.kind = "const", !.val = Limits(ty.bits, ty.signed).min, !.ty = ty], <<>>, <<ty>>) : ty \in Integers6}
    \cup {Op([NoOp EXCEPT !.kind = "int_compare", !.op = op, !.ty = ty], <<ty, ty>>, <<BoolT>>) : op \in {"lt", "eq"}, ty \in Integers6}
    \cup {Op([NoOp EXCEPT !.kind = "float_const", !.val = n], <<>>, <<FloatT>>) : n \in {1}}
    \cup {Op([NoOp EXCEPT !.kind = "float", !.op = op], <<FloatT, FloatT>>, <<FloatT>>) : op \in {"mul", "div"}}
    \cup {Op([NoOp EXCEPT !.kind = "float_compare", !.op = "le"], <<FloatT, FloatT>>, <<BoolT>>),
          Op([NoOp EXCEPT !.kind = "float_intrinsic", !.op = "neg"], <<FloatT>>, <<FloatT>>),
          Op([NoOp EXCEPT !.kind = "bool_not"], <<BoolT>>, <<BoolT>>)}
    \cup {Op([NoOp EXCEPT !.kind = k, !.op = op], <<BoolT, BoolT>>, <<BoolT>>) : k \in {"bool", "bool_compare"}, op \in {"and", "or", "eq", "ne"}}
    \cup {Op([NoOp EXCEPT !.kind = k, !.op = op], <<ByteT, IF k = "byte_shift" THEN U64 ELSE ByteT>>, <<IF k = "byte_compare" THEN BoolT ELSE ByteT>>) :
            k \in {"byte", "byte_shift", "byte_compare"}, op \in {"xor", "shl", "shr", "lt"}}
    \cup {Op([NoOp EXCEPT !.kind = "convert", !.ty = a, !.to = b], <<a>>, <<b>>) : a, b \in Integers6 \cup {ByteT, FloatT, BoolT}}
    \cup {Op([NoOp EXCEPT !.kind = "select", !.ty = ty], <<BoolT, ty, ty>>, <<ty>>) : ty \in {I6, FloatT}}
VectorOps ==
    LET base == [NoOp EXCEPT !.ty = I6, !.n = 2, !.intent = "checked"]
    IN {Op([base EXCEPT !.kind = "vec_construct"], <<I6, I6>>, <<Vec2>>), Op([base EXCEPT !.kind = "vec_splat"], <<I6>>, <<Vec2>>),
        Op([base EXCEPT !.kind = "vec_compare", !.op = "lt"], <<Vec2, Vec2>>, <<MaskT(2)>>),
        Op([base EXCEPT !.kind = "mask_not"], <<MaskT(2)>>, <<MaskT(2)>>),
        Op([base EXCEPT !.kind = "vec_extract"], <<Vec2, U64>>, <<I6>>), Op([base EXCEPT !.kind = "vec_replace"], <<Vec2, U64, I6>>, <<Vec2>>),
        Op([NoOp EXCEPT !.kind = "select", !.ty = Vec2], <<MaskT(2), Vec2, Vec2>>, <<Vec2>>)}
       \cup {Op([base EXCEPT !.kind = "vec_binary", !.op = op, !.intent = i], <<Vec2, Vec2>>, <<Vec2>>) : op \in {"add", "min"}, i \in {"checked", "wrapping"}}
       \cup {Op([base EXCEPT !.kind = "vec_reduce", !.op = op, !.intent = i], <<Vec2>>, <<I6>>) : op \in {"sum", "max"}, i \in {"checked", "wrapping"}}
       \cup {Op([base EXCEPT !.kind = "mask", !.op = "xor"], <<MaskT(2), MaskT(2)>>, <<MaskT(2)>>)}
       \cup {Op([base EXCEPT !.kind = "mask_reduce", !.op = op], <<MaskT(2)>>, <<BoolT>>) : op \in {"any", "all", "none"}}
AggregateOps ==
    {Op([NoOp EXCEPT !.kind = "seq_construct", !.ty = I12, !.n = 2], <<I12, I12>>, <<Seq2>>),
     Op([NoOp EXCEPT !.kind = "bound_check", !.exact = FALSE, !.cap = 2], <<View2, U64>>, <<U64>>),
     Op([NoOp EXCEPT !.kind = "seq_length", !.exact = FALSE, !.cap = 2], <<View2>>, <<U64>>),
     Op([NoOp EXCEPT !.kind = "view", !.exact = FALSE, !.cap = 2, !.src = [exact |-> TRUE, cap |-> 2]], <<Seq2, U64, U64>>, <<View2>>),
     Op([NoOp EXCEPT !.kind = "view", !.exact = FALSE, !.cap = 2, !.src = [exact |-> FALSE, cap |-> 2]], <<View2, U64, U64>>, <<View2>>),
     Op([NoOp EXCEPT !.kind = "narrow", !.cap = 1, !.src = [exact |-> FALSE, cap |-> 2]], <<View2>>, <<SeqT(I12, FALSE, 1)>>),
     Op([NoOp EXCEPT !.kind = "fin_construct", !.nominal = "Maybe", !.variant = 2, !.names = <<1, 2>>], <<ByteT, I6>>, <<Maybe>>),
     Op([NoOp EXCEPT !.kind = "fin_construct", !.nominal = "Enum", !.variant = 2], <<>>, <<Enum>>),
     Op([NoOp EXCEPT !.kind = "fin_is", !.nominal = "Enum", !.variant = 2], <<Enum>>, <<BoolT>>),
     Op([NoOp EXCEPT !.kind = "fin_is", !.nominal = "Maybe", !.variant = 2], <<Maybe>>, <<BoolT>>),
     Op([NoOp EXCEPT !.kind = "rec_construct", !.nominal = "Pair", !.names = <<1, 2>>], <<I2, I12>>, <<Pair>>),
     Op([NoOp EXCEPT !.kind = "rec_project", !.nominal = "Box", !.field = 2], <<Box>>, <<Maybe>>),
     Op([NoOp EXCEPT !.kind = "check"], <<>>, <<>>)}
    \cup {Op([NoOp EXCEPT !.kind = "rec_project", !.nominal = "Pair", !.field = k], <<Pair>>, <<Records["Pair"][k][2]>>) : k \in {1, 2}}
    \cup {Op([NoOp EXCEPT !.kind = "seq_project", !.cap = 2, !.exact = s.exact], <<s, U64>>, <<s.elem>>) : s \in {Seq2, Narrow2, Signed2, View2}}
    \cup {Op([NoOp EXCEPT !.kind = "seq_replace", !.ty = s.elem, !.cap = 2], <<s, U64, s.elem>>, <<s>>) : s \in {Seq2, Signed2}}
    \cup {Op([NoOp EXCEPT !.kind = "seq_copy", !.ty = I12, !.cap = 2, !.src = [exact |-> FALSE, cap |-> 2]],
             <<Seq2, U64, View2, U64, U64>>, <<Seq2>>)}
-----------------------------------------------------------------------------
Authority == {"fs"}
Fn(T, R, effects, body) == [in |-> T, outs |-> R, caps |-> Authority, effects |-> effects, hasBody |-> TRUE, body |-> body]
Params(T) == [i \in DOMAIN T |-> Def(i, T[i])]
Body(T, blocks) == [params |-> Params(T), entry |-> 1, blocks |-> blocks, policy |-> "legacy", iterations |-> {}]
Block(params, ops, term) == [params |-> params, ops |-> ops, term |-> term]
Return(vals) == [k |-> "return", vals |-> vals]
Branch(to, args) == [k |-> "branch", to |-> to, args |-> args]
Cond(on, to, args, else, elseArgs) == [k |-> "cond", on |-> on, to |-> to, args |-> args, else |-> else, elseArgs |-> elseArgs]
Using(o, in, out) == [o EXCEPT !.in = in, !.out = out]
Single(e) ==
    LET out == [i \in DOMAIN e.R |-> Def(9 + i, e.R[i])]
    IN [main |-> Fn(e.T, e.R, {}, Body(e.T, <<Block(<<>>, <<Using(e.o, [i \in DOMAIN e.T |-> i], out)>>, Return(IdsOf(out)))>>))]
Singles == {e \in IntOps \cup ScalarOps \cup VectorOps \cup AggregateOps : ValidProgram(Single(e))}
Straight(T, R, ops, vals) == Fn(T, R, {}, Body(T, <<Block(<<>>, ops, Return(vals))>>))
Calling(f, callee, in, out) ==
    [NoOp EXCEPT !.kind = "call", !.fn = f, !.caps = callee.caps, !.effects = callee.effects, !.in = in, !.out = out]
Constant(n, ty, id) == [NoOp EXCEPT !.kind = "const", !.val = n, !.ty = ty, !.out = <<Def(id, ty)>>]
MakePair(a, b, id) == [NoOp EXCEPT !.kind = "rec_construct", !.nominal = "Pair", !.names = <<1, 2>>, !.in = <<a, b>>, !.out = <<Def(id, Pair)>>]
MakeMaybe(a, b, id) == [NoOp EXCEPT !.kind = "fin_construct", !.nominal = "Maybe", !.variant = 2, !.names = <<1, 2>>, !.in = <<a, b>>, !.out = <<Def(id, Maybe)>>]
MakeBox(a, b, c, id) == [NoOp EXCEPT !.kind = "rec_construct", !.nominal = "Box", !.names = <<1, 2, 3>>, !.in = <<a, b, c>>, !.out = <<Def(id, Box)>>]
FieldOf(nominal, k, cell, id) ==
    [NoOp EXCEPT !.kind = "rec_project", !.nominal = nominal, !.field = k, !.in = <<cell>>, !.out = <<Def(id, Records[nominal][k][2])>>]
\* A callee that leaves a pair behind and returns one value of each kind.
Leaving(T, R, ops, v) == Straight(T, <<R>>, <<Constant(1, I2, 20), Constant(-9, I12, 21), MakePair(20, 21, 22)>> \o ops, <<v>>)
Makers == [pair |-> Leaving(<<>>, Pair, <<MakePair(20, 21, 23)>>, 23),
           same |-> Leaving(<<Pair>>, Pair, <<>>, 1),
           box |-> Leaving(<<>>, Box, <<Constant(1, ByteT, 24), Constant(-3, I6, 25), MakeMaybe(24, 25, 26), Constant(1, BoolT, 27), MakeBox(22, 26, 27, 28)>>, 28),
           maybe |-> Leaving(<<>>, Maybe, <<Constant(2, ByteT, 24), Constant(-3, I6, 25), MakeMaybe(24, 25, 26)>>, 26),
           field |-> Leaving(<<Pair>>, I12, <<FieldOf("Pair", 2, 1, 24)>>, 24),
           narrow |-> Leaving(<<Pair>>, I2, <<FieldOf("Pair", 1, 1, 24)>>, 24),
           seq |-> Leaving(<<>>, Seq2, <<[NoOp EXCEPT !.kind = "seq_construct", !.ty = I12, !.n = 2, !.in = <<21, 21>>, !.out = <<Def(24, Seq2)>>]>>, 24),
           window |-> Leaving(<<Seq2>>, View2, <<Constant(1, U64, 24), Constant(2, U64, 25),
                        [NoOp EXCEPT !.kind = "view", !.exact = FALSE, !.cap = 2, !.src = [exact |-> TRUE, cap |-> 2],
                                     !.in = <<1, 24, 25>>, !.out = <<Def(26, View2)>>]>>, 26),
           vector |-> Leaving(<<>>, Vec2, <<Constant(-3, I6, 24), [NoOp EXCEPT !.kind = "vec_splat", !.ty = I6, !.n = 2, !.in = <<24>>, !.out = <<Def(25, Vec2)>>]>>, 25),
           fails |-> Leaving(<<I12>>, Pair, <<[NoOp EXCEPT !.kind = "int", !.op = "add", !.ty = I12, !.intent = "checked", !.in = <<1, 21>>, !.out = <<Def(24, I12)>>],
                                              MakePair(20, 24, 25)>>, 25)]
\* Called twice: the first result is held across the second call and returned.
Twice(name) ==
    LET f == Makers[name]
        in == [i \in DOMAIN f.in |-> i]
        R == f.outs[1]
    IN [main |-> Straight(f.in, <<R>>, <<Calling(name, f, in, <<Def(10, R)>>), Calling(name, f, in, <<Def(11, R)>>)>>, <<10>>)]
       @@ (name :> f)
HostFn == Fn(<<>>, <<BoolT>>, {<<"host_write", "t", "fs">>},
             Body(<<>>, <<Block(<<>>, <<[NoOp EXCEPT !.kind = "effect", !.effect = <<"host_write", "t", "fs">>], Constant(1, BoolT, 10)>>, Return(<<10>>))>>))
CallsHost(f, callee) == Fn(<<>>, <<BoolT>>, callee.effects, Body(<<>>, <<Block(<<>>, <<Calling(f, callee, <<>>, <<Def(10, BoolT)>>)>>, Return(<<10>>))>>))
Mid == CallsHost("host", HostFn)
\* Counts to two; the second parameter takes the place of the first.
Rotate ==
    LET add == [NoOp EXCEPT !.kind = "int", !.op = "add", !.ty = U64, !.intent = "wrapping"]
    IN Fn(<<I6, I6>>, <<I6>>, {},
          Body(<<I6, I6>>,
               <<Block(<<>>, <<Constant(0, U64, 10), Constant(1, U64, 11), Constant(2, U64, 12)>>, Branch(2, <<1, 2, 10>>)),
                 Block(<<Def(20, I6), Def(21, I6), Def(22, U64)>>,
                       <<[NoOp EXCEPT !.kind = "int_compare", !.op = "lt", !.ty = U64, !.in = <<22, 12>>, !.out = <<Def(23, BoolT)>>],
                         Using(add, <<22, 11>>, <<Def(24, U64)>>)>>,
                       Cond(23, 2, <<21, 20, 24>>, 3, <<20>>)),
                 Block(<<Def(30, I6)>>, <<>>, Return(<<30>>))>>))
\* Grows by one cell in each round until it is stopped.
Growing ==
    Fn(<<BoolT, Pair>>, <<Pair>>, {},
       Body(<<BoolT, Pair>>,
            <<Block(<<>>, <<>>, Branch(2, <<2>>)),
              Block(<<Def(20, Pair)>>, <<FieldOf("Pair", 1, 20, 21), FieldOf("Pair", 2, 20, 22), MakePair(21, 22, 23)>>, Cond(1, 2, <<23>>, 3, <<>>)),
              Block(<<>>, <<>>, Return(<<23>>))>>))
\* Loops that allocate in each round: the state is a new pair, a box made before the loop is used behind it.
Add64(a, b, id) == [NoOp EXCEPT !.kind = "int", !.op = "add", !.ty = U64, !.intent = "wrapping", !.in = <<a, b>>, !.out = <<Def(id, U64)>>]
Below(a, b, id) == [NoOp EXCEPT !.kind = "int_compare", !.op = "lt", !.ty = U64, !.in = <<a, b>>, !.out = <<Def(id, BoolT)>>]
Counters == <<Constant(0, U64, 10), Constant(1, U64, 11), Constant(2, U64, 12)>>
Again(pair, id) == <<FieldOf("Pair", 1, pair, id), FieldOf("Pair", 2, pair, id + 1), MakePair(id, id + 1, id + 2)>>
ABox == <<Constant(1, ByteT, 13), Constant(-3, I6, 14), MakeMaybe(13, 14, 15), Constant(1, BoolT, 16), MakeBox(1, 15, 16, 17)>>
Rounds ==
    Fn(<<Pair>>, <<Box>>, {},
       Body(<<Pair>>, <<Block(<<>>, Counters \o ABox, Branch(2, <<1, 10>>)),
                        Block(<<Def(20, Pair), Def(21, U64)>>, <<Below(21, 12, 22)>>, Cond(22, 3, <<>>, 4, <<>>)),
                        Block(<<>>, Again(20, 30) \o <<Add64(21, 11, 33)>>, Branch(2, <<32, 33>>)),
                        Block(<<>>, <<FieldOf("Box", 2, 17, 40), MakeBox(20, 40, 16, 41)>>, Return(<<41>>))>>))
\* A loop in a loop; the inner one keeps a cell of the outer round.
Nesting ==
    Fn(<<Pair>>, <<Pair>>, {},
       Body(<<Pair>>, <<Block(<<>>, Counters, Branch(2, <<1, 10>>)),
                        Block(<<Def(20, Pair), Def(21, U64)>>, <<Below(21, 12, 22)>>, Cond(22, 3, <<>>, 6, <<>>)),
                        Block(<<>>, Again(20, 30), Branch(4, <<32, 10>>)),
                        Block(<<Def(40, Pair), Def(41, U64)>>, <<Below(41, 11, 42)>>, Cond(42, 5, <<>>, 7, <<>>)),
                        Block(<<>>, Again(20, 50) \o <<FieldOf("Pair", 2, 40, 53), MakePair(50, 53, 54), Add64(41, 11, 55)>>, Branch(4, <<54, 55>>)),
                        Block(<<>>, <<>>, Return(<<20>>)),
                        Block(<<>>, <<Add64(21, 11, 60)>>, Branch(2, <<40, 60>>))>>))
\* Calls itself from inside its loop.
Inward ==
    LET self == Fn(<<Pair, U64>>, <<Pair>>, {}, <<>>)
    IN [self EXCEPT !.body =
         Body(<<Pair, U64>>, <<Block(<<>>, Counters, Branch(2, <<1, 2>>)),
                               Block(<<Def(20, Pair), Def(21, U64)>>, <<Below(21, 11, 22)>>, Cond(22, 3, <<>>, 4, <<>>)),
                               Block(<<>>, <<Add64(21, 11, 33), Calling("inward", self, <<20, 33>>, <<Def(34, Pair)>>)>> \o Again(34, 30), Branch(2, <<32, 33>>)),
                               Block(<<>>, <<>>, Return(<<20>>))>>)]
\* The window of a new sequence lives on from one round to the next.
Windows ==
    Fn(<<Seq2>>, <<View2>>, {},
       Body(<<Seq2>>, <<Block(<<>>, Counters \o <<[NoOp EXCEPT !.kind = "view", !.exact = FALSE, !.cap = 2, !.src = [exact |-> TRUE, cap |-> 2],
                                                             !.in = <<1, 10, 12>>, !.out = <<Def(13, View2)>>]>>, Branch(2, <<13, 10>>)),
                        Block(<<Def(20, View2), Def(21, U64)>>, <<Below(21, 12, 22)>>, Cond(22, 3, <<>>, 4, <<>>)),
                        Block(<<>>, <<Constant(-9, I12, 30), [NoOp EXCEPT !.kind = "seq_construct", !.ty = I12, !.n = 2, !.in = <<30, 30>>, !.out = <<Def(31, Seq2)>>],
                                      [NoOp EXCEPT !.kind = "view", !.exact = FALSE, !.cap = 2, !.src = [exact |-> TRUE, cap |-> 2],
                                                   !.in = <<31, 10, 12>>, !.out = <<Def(32, View2)>>], Add64(21, 11, 33)>>, Branch(2, <<32, 33>>)),
                        Block(<<>>, <<>>, Return(<<20>>))>>))
NamedProgram(name) ==
    CASE name = "recursion" ->
           LET f == Straight(<<Pair>>, <<Pair>>, <<>>, <<1>>)
           IN [main |-> Straight(<<Pair>>, <<Pair>>, <<Calling("main", f, <<1>>, <<Def(10, Pair)>>)>>, <<10>>)]
      [] name = "host" -> [main |-> CallsHost("mid", Mid), mid |-> Mid, host |-> HostFn]
      [] name = "rotate" -> [main |-> Rotate]
      [] name = "growing" -> [main |-> Growing]
      [] name = "rounds" -> [main |-> Straight(<<Pair>>, <<Box>>, <<Calling("rounds", Rounds, <<1>>, <<Def(10, Box)>>), FieldOf("Box", 1, 10, 11),
                                                                   Calling("nesting", Nesting, <<11>>, <<Def(12, Pair)>>)>>, <<10>>), rounds |-> Rounds, nesting |-> Nesting]
      [] name = "nesting" -> [main |-> Nesting]
      [] name = "inward" -> [main |-> Straight(<<Pair>>, <<Pair>>, <<Constant(0, U64, 10), Calling("inward", Inward, <<1, 10>>, <<Def(11, Pair)>>)>>, <<11>>), inward |-> Inward]
      [] name = "windows" -> [main |-> Windows]
      [] name = "choice" ->
           [main |-> Fn(<<BoolT, Seq2>>, <<I12>>, {},
                        Body(<<BoolT, Seq2>>, <<Block(<<>>, <<Constant(0, U64, 10)>>, Cond(1, 2, <<>>, 3, <<>>)),
                                                Block(<<>>, <<[NoOp EXCEPT !.kind = "seq_project", !.cap = 2, !.in = <<2, 10>>, !.out = <<Def(11, I12)>>]>>, Return(<<11>>)),
                                                Block(<<>>, <<>>, [k |-> "failure"])>>))]
      [] name = "constants" ->
           [main |-> Straight(<<I6>>, <<I6>>,
                              <<Constant(31, I6, 10), Constant(1, I6, 11),
                                [NoOp EXCEPT !.kind = "int", !.op = "add", !.ty = I6, !.intent = "checked", !.in = <<1, 11>>, !.out = <<Def(12, I6)>>],
                                [NoOp EXCEPT !.kind = "int", !.op = "sub", !.ty = I6, !.intent = "trapping", !.in = <<10, 11>>, !.out = <<Def(13, I6)>>],
                                [NoOp EXCEPT !.kind = "int", !.op = "add", !.ty = I6, !.intent = "checked", !.in = <<10, 11>>, !.out = <<Def(14, I6)>>]>>, <<13>>)]
      [] name = "echo" -> [main |-> Straight(<<Box, View2, Maybe>>, <<Box>>, <<>>, <<1>>)]
MCPrograms == LET all == {Single(e) : e \in Singles} \cup {Twice(n) : n \in DOMAIN Makers \ {"vector"}}
                         \cup {NamedProgram(n) : n \in {"recursion", "host", "rotate", "growing", "choice", "constants", "echo", "rounds", "nesting", "inward", "windows"}} IN all
VectorPrograms == LET all == {Twice(n) : n \in DOMAIN Makers} IN all

Plain == [fn |-> "main", args |-> <<>>, budget |-> 80, depth |-> None, policy |-> "record", grants |-> <<>>, provider |-> None,
          session |-> FALSE, owned |-> FALSE]
MCRequests(p) ==
    LET in == Arguments(p.main.in)
    IN {[Plain EXCEPT !.args = a] : a \in in}
       \cup IF Cardinality(DOMAIN p) = 1 /\ Len(p.main.body.blocks) = 1 /\ p.main.in # <<Pair>> THEN {}
            ELSE {[Plain EXCEPT !.args = a, !.depth = k] : a \in in, k \in {Some(1), Some(MaxDepth + 1)}}
                 \cup {[Plain EXCEPT !.args = a] : a \in {<<BoolV(TRUE)>>}} \cup {[Plain EXCEPT !.fn = "absent"]}
=============================================================================
