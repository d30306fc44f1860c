------------------------------ MODULE MCFrontEnd ------------------------------
(* Small sources in many forms, each as it is, with one word dropped or moved behind the next, one *)
(* mark said twice, or one operator for another; and every pair of operators between three names.  *)
EXTENDS FrontEnd

\* The words of a text, a blank after each.
WordsIn(text) ==
    LET blanks == {i \in 1 .. Len(text) : SubSeq(text, i, i) = " "}
        nth(k) == CHOOSE i \in blanks : Cardinality({j \in blanks : j <= i}) = k
        start(k) == IF k = 1 THEN 1 ELSE nth(k - 1) + 1
    IN [k \in 1 .. Cardinality(blanks) |-> SubSeq(text, start(k), nth(k) - 1)]
Main(in, out, rest) == "fn main ( " \o in \o " ) -> ( r : " \o out \o " ) " \o rest
Head0(version) == "mncs " \o version \o " ; module m ; "
TextOf(name) ==
    CASE name = "scopes" -> Head0("0.13") \o Main("a : i64 , b : i64", "i64",
           "{ let c : i64 = a + b * 2 - 1 ; if a < b && ! ( b == 3 ) { let c : i64 = 4 -| a ; if c == 2 { fail isolated ; } } else { return c ; } return c +% a ; } ")
      [] name = "rounds" -> Head0("0.13") \o Main("a : i64", "i64",
           "{ iterate i up_to 2 carrying s : i64 = a { let t : i64 = s * 2 ; iterate j up_to 2 carrying u : i64 = t { if i == j { return u ; } next u = u - 1 ; } next s = u ; } return s ; } ")
      [] name = "over" -> Head0("0.13") \o Main("xs : [ byte ; up_to 2 ] , k : byte", "byte",
           "{ iterate i over xs carrying s : byte = k { let x : byte = xs [ i ] ; next s = s ^ x << i ; } return s ; } ")
      [] name = "variants" -> Head0("0.13") \o "enum E { A , B { x : i64 , y : bool } } " \o Main("b : bool , n : i64", "i64",
           "{ let e : E = match b { true => E . A , false => E . B { y : b , x : n } , } ; let z : i64 = match e { B { .. } => 1 , A => 7 } ; return match e { A => 0 , B { y , x } => match y { true => z , false => x } } ; } ")
      [] name = "records" -> Head0("0.6") \o "record P { x : i64 , y : bool } " \o Main("a : i64", "i64",
           "{ let p : P = P { y : true , x : a } ; let q : P = P { .. p , x : 2 } ; return p . x - q . x ; } ")
      [] name = "calls" -> Head0("0.13") \o "fn w ( x : byte ) -> ( r : u64 ) capability c effect host_write authorized_by c { let b : [ byte ; 1 ] = [ x ] ; return host_write ( b ) ; } "
           \o Main("x : byte", "bool", "capability c effect host_write authorized_by c { return w ( x ) == 1 && w ( 2 ) < w ( 3 ) ; } ")
      [] name = "cases" -> Head0("0.13") \o Main("n : i64", "i64", "{ return match n { 0 => 2 , - 1 => n / 0 , _ => match n > 3 { true => n % 3 , false => 7 } } ; } ")
      [] name = "views" -> Head0("0.14") \o "fn sum ( v : [ byte ; up_to 2 ] ) -> ( r : u64 ) { return v . len ; } " \o Main("v : [ byte ; 3 ] , i : u64", "u64",
           "{ let part : [ byte ; up_to 3 ] = v [ i .. 3 ] ; return sum ( part ) + sum ( v [ 0 .. i ] ) ; } ")
      [] name = "lists" -> Head0("0.14") \o Main("v : [ i64 ; 2 ] , i : u64", "i64",
           "{ let w : [ i64 ; 2 ] = replace ( v , i , 5 ) ; let j : u64 = checked_index ( w , i ) ; let z : [ i64 ; 2 ] = [ 3 ; 2 ] ; return select ( w [ j ] == v [ 1 ] , z [ 0 ] , w [ j ] ) ; } ")
      [] name = "casts" -> Head0("0.13") \o Main("a : i64 , b : byte", "byte", "{ let c : i64 = b as i64 ; return ( a - c | 1 ) as byte ^ b >> 1 ; } ")
      [] name = "descent" -> Head0("0.13") \o "enum L { N , C { t : L } } fn len ( l : L ) -> ( r : i64 ) { return match l { N => 0 , C { t } => 1 + len ( t ) } ; } "
           \o Main("k : i64", "i64", "{ let n : L = L . N ; return len ( L . C { t : L . C { t : n } } ) * k ; } ")
      [] name = "generic" -> Head0("0.13") \o "fn pick < T , N : Nat > ( x : [ T ; N ] , i : u64 ) -> ( r : T ) { return x [ i ] ; } "
           \o Main("v : [ i64 ; 2 ]", "i64", "{ return pick < i64 , 2 > ( v , 1 ) + pick ( v , 0 ) ; } ")
      [] name = "copies" -> Head0("0.14") \o Main("v : [ i64 ; 2 ] , i : u64", "i64",
           "{ let w : [ i64 ; 2 ] = copy_span ( v , i , v , 0 , 1 ) ; let z : [ i64 ; 2 ] = copy_span ( w , 0 , v , 1 , 1 ) ; return z [ 0 ] - w [ 1 ] ; } ")
      [] name = "floats" -> Head0("0.18") \o "test less ( f : f64 , g : f64 ) -> ( r : bool ) { return f < g ; } " \o Main("a : i64", "bool",
           "invariant less2 { let f : f64 = a as f64 - 2.0 ; let g : f64 = neg ( 1 - f ) / 2 ; return less ( g , f ) || cos ( f ) != 1 ; } ")
           \o "fn less2 ( a : i64 ) -> ( r : bool ) { return a < 2 ; } "
      [] name = "vectors" -> Head0("0.13") \o Main("a : i64 , b : i64", "i64",
           "{ let v : vec < i64 , 2 > = vector ( a , b ) ; let u : vec < i64 , 2 > = splat ( 2 ) ; let t : vec < i64 , 2 > = replace_lane ( u , 1 , a ) ; let z : vec < i64 , 2 > = vec_sub_sat ( v , t ) ; return extract_lane ( z , 1 ) - reduce_max ( vec_xor ( v , z ) ) ; } ")
      [] name = "masks" -> Head0("0.13") \o Main("v : vec < i64 , 2 > , w : vec < i64 , 2 >", "i64",
           "{ let n : mask < 2 > = vec_ne ( v , w ) ; let m : mask < 2 > = mask_or ( vec_lt ( v , w ) , mask_not ( n ) ) ; if mask_all ( m ) { return 3 ; } let z : vec < i64 , 2 > = select ( m , w , vec_add_checked ( v , w ) ) ; return reduce_sum_checked ( z ) ; } ")
      [] name = "tree" -> Head0("0.18") \o Main("i : u64 , b : byte", "u64",
           "capability c effect fs_list authorized_by c effect fs_read authorized_by c effect fs_write authorized_by c { let n : [ byte ; 1 ] = [ b ] ; let k : u64 = fs_create_file ( n , n ) + fs_write_bytes_at ( i , 0 , n ) ; let d : [ byte ; up_to 2 ] = fs_entry_name_at ( k ) ; let l : u64 = d . len + fs_entry_size_at ( i ) + fs_rename_at ( i , n ) + fs_mkdir ( n ) ; let e : [ byte ; up_to 2 ] = fs_read_bytes_at ( i , 0 , 1 ) ; return l + e . len + fs_sync_at ( fs_generation ( ) ) ; } ")
      [] name = "artifacts" -> Head0("0.18") \o "record P { x : i64 , y : bool } " \o Main("b : byte", "u64",
           "capability c capability a effect structured_read authorized_by c effect structured_read_identity authorized_by c effect structured_write authorized_by c effect provider_call authorized_by c effect structured_digest authorized_by a { let n : [ byte ; 1 ] = [ b ] ; let p : P = structured_read ( n , n ) ; let o : P = structured_read_identity ( n , n , n ) ; let q : bool = provider_call ( n , p ) ; let s : u64 = structured_write ( n , n , P { .. o , y : q } ) ; let d : [ byte ; up_to 2 ] = structured_digest ( p ) ; return d . len + s ; } ")
      [] name = "hosts" -> Head0("0.13") \o Main("b : byte", "bool",
           "capability c effect host_read authorized_by c effect sha256_digest authorized_by c effect ed25519_verify authorized_by c effect clock_read authorized_by c { let n : [ byte ; 1 ] = [ b ] ; let s : [ byte ; 2 ] = [ b ; 2 ] ; let d : [ byte ; up_to 2 ] = sha256_digest ( n ) ; let h : [ byte ; up_to 2 ] = host_read ( ) ; return ed25519_verify ( n , n , s ) && d . len < clock_read ( ) + h . len ; } ")
      [] name = "processes" -> "mncs 0.18 ; module mncs . std . process . v1 ; record ProcessRequest { x : i64 } record ProcessHandle { x : i64 } record ProcessObservation { y : bool } record ProcessStartResult { t : ProcessHandle } record ProcessResult { x : i64 } "
           \o Main("n : i64", "bool", "capability c effect process_run authorized_by c { let q : ProcessRequest = ProcessRequest { x : n } ; let s : ProcessStartResult = process_start ( q ) ; let u : ProcessResult = process_run ( q ) ; let o : ProcessObservation = process_cancel ( s . t ) ; return o . y || u . x == n ; } ")
Plainly0 == {<<"scopes", 13>>, <<"rounds", 13>>, <<"over", 13>>, <<"variants", 13>>, <<"records", 6>>, <<"calls", 13>>, <<"cases", 13>>,
             <<"views", 14>>, <<"lists", 14>>, <<"casts", 13>>, <<"descent", 13>>, <<"generic", 13>>, <<"copies", 14>>, <<"floats", 18>>, <<"vectors", 13>>, <<"masks", 13>>, <<"tree", 18>>, <<"artifacts", 18>>,
             <<"hosts", 13>>, <<"processes", 18>>}
Operations0 == {"||", "&&", "==", "!=", "<", "<=", ">", ">=", "+", "-", "+%", "-%", "+|", "-|", "*", "*%", "*|", "/", "%", "&", "|", "^", "<<", ">>"}
MCSources == LET x == {[name |-> s[1], profile |-> s[2], flat |-> FALSE] : s \in Plainly0}
                      \cup {[name |-> o, profile |-> 13, flat |-> TRUE] : o \in Operations0} IN x
Edited(text) ==
    LET n == Len(text)
        but(i, instead) == SubSeq(text, 1, i - 1) \o instead \o SubSeq(text, i + 1, n)
    IN {text} \cup {but(i, <<>>) : i \in 1 .. n} \cup {but(i, <<text[i], text[i]>>) : i \in {i \in 1 .. n : text[i] \in Syntax!Marks}}
            \cup {SubSeq(text, 1, i - 1) \o <<text[i + 1], text[i]>> \o SubSeq(text, i + 2, n) : i \in 1 .. n - 1}
            \cup {but(i, <<o>>) : i \in {i \in 1 .. n : text[i] \in Operations0}, o \in {"-", "<", "^"}}
Between3(one, two) == WordsIn(Head0("0.13") \o Main("a : i64 , b : i64 , c : i64", "i64", "{ return a " \o one \o " b " \o two \o " c ; } "))
MCTextsOf(s) == IF s.flat THEN {Between3(s.name, two) : two \in Operations0} ELSE Edited(WordsIn(TextOf(s.name)))
-----------------------------------------------------------------------------
MCRank == [a |-> 1, t |-> 2, x |-> 3, y |-> 4, N |-> 5, T |-> 6]
MCNumerals == [n \in {"0", "1", "2", "3", "4", "5", "7"} |->
                 CHOOSE k \in 0 .. 7 : n = CASE k = 0 -> "0" [] k = 1 -> "1" [] k = 2 -> "2" [] k = 3 -> "3" [] k = 4 -> "4"
                                             [] k = 5 -> "5" [] k = 7 -> "7" [] OTHER -> ""]
MCVersions == LET x == "0.6" :> 6 @@ "0.13" :> 13 @@ "0.14" :> 14 @@ "0.18" :> 18 IN x
MCFloats == LET x == "2.0" :> 2 IN x
MCScalars == LET x == "bool" :> BoolT @@ "byte" :> ByteT @@ "f64" :> FloatT @@ "i64" :> IntT(CounterBits, TRUE) @@ "u64" :> U64 IN x
MCNothing == LET x == [w \in {} |-> 0] IN x
MCSequenceBound(p) == IF p < 7 THEN 0 ELSE MaxSequence
MCIterationBound(p) == IF p < 4 THEN 0 ELSE MaxIterations
MCWorkProduct(p) == IF p < 4 THEN 0 ELSE MaxIterations * MaxIterations
MCExact == 0 .. 7
I4 == IntT(CounterBits, TRUE)
OneField(rank, ty) == <<<<rank, ty>>>>
MCRecords == LET x == [P |-> <<<<3, I4>>, <<4, BoolT>>>>, ProcessRequest |-> OneField(3, I4), ProcessHandle |-> OneField(3, I4),
                       ProcessObservation |-> OneField(4, BoolT), ProcessStartResult |-> OneField(2, RecT("ProcessHandle")),
                       ProcessResult |-> OneField(3, I4)] IN x
MCFinites == LET x == [E |-> <<<<>>, <<<<3, I4>>, <<4, BoolT>>>>>>, L |-> <<<<>>, <<<<2, FinT("L")>>>>>>] IN x

Inputs(ty, few) ==
    CASE ty.t = "int" -> IF ty.signed THEN {IntV(n, ty) : n \in IF few THEN {-1, 2, 7} ELSE {-1, 0, 2, 5, 7}} ELSE {IntV(n, ty) : n \in {0, 1, 3}}
      [] ty.t = "byte" -> {ByteV(0), ByteV(2)} [] ty.t = "bool" -> {BoolV(TRUE), BoolV(FALSE)}
      [] ty.t = "seq" -> IF ~ty.exact THEN {SeqV(<<>>), SeqV(<<ByteV(1), ByteV(3)>>)}
                         ELSE {SeqV([i \in 1 .. ty.cap |-> IF ty.elem = ByteT THEN ByteV(i) ELSE IntV(i, ty.elem)])}
      [] ty.t = "vec" -> {VecV([i \in 1 .. ty.lanes |-> IntV(n[i], ty.elem)]) : n \in [1 .. ty.lanes -> {0, 2, 6}]}
      [] OTHER -> {}
MCRequests(p) ==
    IF "main" \notin DOMAIN p \/ \E f \in DOMAIN p : p[f].generics # <<>> THEN {}
    ELSE {[fn |-> "main", args |-> s, budget |-> MaxBudget, depth |-> None, policy |-> y, session |-> TRUE, owned |-> FALSE,
           provider |-> Some([answer |-> "ok", value |-> BoolV(TRUE), events |-> <<>>]),
           grants |-> <<[cap |-> "c", bytes |-> <<ByteV(1)>>, answer |-> a, authorizes |-> TRUE],
                        [cap |-> "a", bytes |-> <<>>, answer |-> "ok", authorizes |-> TRUE]>>] :
          s \in {s \in [DOMAIN p.main.in -> UNION {Inputs(p.main.in[i], Len(p.main.in) > 2) : i \in DOMAIN p.main.in}] :
                   \A i \in DOMAIN s : s[i] \in Inputs(p.main.in[i], Len(p.main.in) > 2)},
          y \in IF p.main.caps = {} THEN {"realize"} ELSE {"record", "realize"},
          a \in IF p.main.caps = {} THEN {"ok"} ELSE {"ok", "fails"}}
=============================================================================
