---------------------------- MODULE SourceParser ----------------------------
(* The recursive-descent parser of one module (source.rs).  A production is *)
(* a sequence of steps, named after the parser's method, and Run carries    *)
(* the steps out on the parser's state.  Spans and the concrete tree are    *)
(* left out: the abstract tree of a source with any error is dropped, so a  *)
(* hole stands for whatever a failed method would have returned.            *)
EXTENDS Integers, Sequences, FiniteSets

CONSTANTS Numerals,    \* the integer literals, and the number each spells
          Floats,      \* the dotted literals with a float's shape, and their values
          Versions,    \* the dotted literals that name a profile, and its number
          Supported,   \* the profiles with a registry record
          FloatLimit,  \* a float literal beyond it is not finite
          MaxLiteral,  \* the largest integer a literal's number can hold
          MaxNesting,  \* MAX_PARSE_NESTING
          Lookahead    \* how far generic_args looks for its closer

(***************************************************************************)
(* Words and tokens                                                        *)
(***************************************************************************)
Keywords == {"mncs", "module", "fn", "return", "let", "if", "else", "fail", "requires",
    "ensures", "assumes", "property", "invariant", "metamorphic", "effect", "capability",
    "authorized_by", "enum", "use", "record", "match", "iterate", "up_to", "carrying",
    "next", "over", "as", "while", "true", "false"}
Marks == {"->", "=>", "&&", "||", "==", "!=", "<=", ">=", "<<", ">>", "..", ".", ":", ";", ",",
    "(", ")", "{", "}", "[", "]", "+", "+%", "+|", "-", "-%", "-|", "*", "*%", "*|", "/", "%",
    "&", "|", "^", "<", ">", "="}

KindOf(word, profile) ==
    CASE word \in Keywords \cup Marks -> word
      [] word = "test" -> IF profile >= 17 THEN "test" ELSE "name"
      [] word = "!" -> IF profile >= 13 THEN "!" ELSE "unknown"
      [] word \in DOMAIN Numerals -> "integer"
      [] word \in DOMAIN Versions \cup DOMAIN Floats -> "version"
      [] OTHER -> "name"

\* The lexer works under the profile of the envelope, the parser under the header's.
Lex(words, profile) ==
    [i \in DOMAIN words |-> [k |-> KindOf(words[i], profile), t |-> words[i]]]

(***************************************************************************)
(* The steps of a production                                               *)
(***************************************************************************)
Token(kinds, code, keep, must) ==
    [do |-> "token", kinds |-> kinds, code |-> code, keep |-> keep, must |-> must]
Want(kinds, code) == Token(kinds, code, FALSE, FALSE)
Maybe(kinds, code) == Token(kinds, code, TRUE, FALSE)
Text(kinds, code) == Token(kinds, code, TRUE, TRUE)
Do(what) == [do |-> what]
Skip == Do("skip")
Fail == Do("fail")
Error(code) == [do |-> "error", code |-> code]
Gate(since, code) == [do |-> "gate", since |-> since, code |-> code]
NonEmpty(code) == [do |-> "non-empty", code |-> code]
Call(rule) == [do |-> "call", rule |-> rule]
Soft(rule) == [do |-> "soft", steps |-> <<Call(rule)>>]
Type(code) == [do |-> "type", code |-> code]
SoftType(code) == [do |-> "soft", steps |-> <<Type(code)>>]
Binary(least) == [do |-> "binary", least |-> least]
Try(steps) == [do |-> "try", steps |-> steps]
OrBreak(steps) == [do |-> "or break", steps |-> steps]
\* A node of what the steps push, after taking back the last `back` values; it
\* is a hole when one of the values it needs is.
Wrap(tag, back, steps) ==
    [do |-> "node", tag |-> tag, back |-> back, steps |-> steps, needs |-> 1..back]
Node(tag, steps, needs) ==
    [do |-> "node", tag |-> tag, back |-> 0, steps |-> steps, needs |-> needs]
Group(steps) == [do |-> "group", steps |-> steps]
While(test, steps) == [do |-> "while", test |-> test, steps |-> steps]
If(test, then, else) == [do |-> "if", test |-> test, then |-> then, else |-> else]
\* The first arm <<test, steps>> whose test holds, or the other steps.
Choose(arms, other) == [do |-> "choose", arms |-> arms, other |-> other]
Comma == Do("comma")

Is(kinds) == [test |-> "is", kinds |-> kinds]
Before(kinds) == [test |-> "before", kinds |-> kinds]   \* not at one of them, nor at the end
Peek(kinds) == [test |-> "peek", kinds |-> kinds]
Since(profile) == [test |-> "since", since |-> profile]
Both(p, q) == [test |-> "both", p |-> p, q |-> q]
Either(p, q) == [test |-> "either", p |-> p, q |-> q]
Always == [test |-> "always"]
AtRecordLiteral == [test |-> "record literal"]
AtPayload == [test |-> "payload"]
AtIntrinsic == [test |-> "intrinsic"]
Pair == [test |-> "pair"]               \* the path just pushed has two segments
Top(word) == [test |-> "top", word |-> word]
Unclosed == [test |-> "unclosed"]
Arguments == [test |-> "arguments"]     \* the list just pushed is not empty

Ident == {"name", "test"}
Value == Ident \cup {"capability"}
Field == {"<field>"}                    \* a name, or `next` from profile 0.13 on

(***************************************************************************)
(* Declarations                                                            *)
(***************************************************************************)
QualifiedName ==
    Node("path", <<Text({"name", "mncs", "test"}, "MNP030"),
        While(Is({"."}), <<Skip, OrBreak(<<Text({"name", "mncs", "test"}, "MNP031")>>)>>)>>, {})

UseDecl ==
    Node("use", <<Want({"use"}, "MNP135"), Gate(6, "MNP136"),
        Soft("qualified_name"),
        If(Is({"as"}),
           <<If(Since(9), <<Skip, Maybe(Ident, "MNP182")>>, <<Error("MNP181")>>)>>, <<>>),
        Want({";"}, "MNP137")>>, {1})

PayloadFields ==
    Group(<<While(Always, <<OrBreak(<<Node("field", <<Text(Field, "MNP132"),
        Want({":"}, "MNP133"), Type("MNP134")>>, {})>>), Comma>>)>>)

GenericRefused(code) == <<Error(code), Soft("generic_params"), Do("skip block"), Fail>>

FiniteType ==
    Node("enum", <<Want({"enum"}, "MNP070"), Maybe(Ident, "MNP071"),
        If(Is({"<"}), GenericRefused("MNP214"), <<>>),
        Want({"{"}, "MNP072"),
        Group(<<While(Is(Ident), <<Node("variant", <<Text(Ident, "MNP073"),
            Choose(<<<<Both(Is({"{"}), Since(6)),
                       <<Skip, PayloadFields, Want({"}"}, "MNP135")>>>>,
                     <<Is({"{"}), <<Error("MNP076"), Group(<<>>)>>>>>>,
                   <<Group(<<>>)>>)>>, {}), Comma>>)>>),
        Want({"}"}, "MNP074"), NonEmpty("MNP075")>>, {1})

RecordDecl ==
    Node("record type", <<Want({"record"}, "MNP121"), Maybe(Ident, "MNP122"),
        If(Is({"<"}), GenericRefused("MNP213"), <<>>),
        Want({"{"}, "MNP123"),
        Group(<<While(Is(Field), <<Node("field", <<Maybe(Field, "MNP124"),
            Want({":"}, "MNP125"), SoftType("MNP126")>>, {1, 2}), Comma>>)>>),
        Want({"}"}, "MNP127"), NonEmpty("MNP128")>>, {1})

ParameterList ==
    <<Want({"("}, "MNP020"),
      Group(<<While(Is(Value), <<Node("parameter", <<Maybe(Value, "MNP021"),
          Want({":"}, "MNP022"), SoftType("MNP023")>>, {1, 2}), Comma>>)>>),
      Want({")"}, "MNP024")>>

\* A repeated name is an error of its own, and parsing goes on.
GenericParams ==
    Group(<<If(Is({"<"}), <<Gate(10, "MNP184"), Skip,
        While(Before({">", ">>"}), <<OrBreak(<<Text({"name"}, "MNP185")>>), Do("fresh"),
            If(Is({":"}), <<Skip, OrBreak(<<Text({"name"}, "MNP187")>>),
                If(Is({"->"}), <<Skip, OrBreak(<<Text({"name"}, "MNP187")>>),
                                 Wrap("generic", 3, <<>>)>>,
                   <<Do("constraint"), Wrap("generic", 2, <<>>)>>)>>,
               <<Wrap("generic", 1, <<>>)>>), Comma>>),
        If(Is({">>"}), <<Error("MNP188")>>, <<Want({">"}, "MNP188")>>)>>, <<>>)>>)

ContractKinds == {"requires", "ensures", "assumes", "property", "invariant", "metamorphic"}

Clauses ==
    Group(<<While(Is(ContractKinds \cup {"capability", "effect"}), <<Choose(
        <<<<Is(ContractKinds), <<Node("contract", <<Text(ContractKinds, "MNP040"),
              Maybe({"name"}, "MNP041")>>, {1, 2})>>>>,
          <<Is({"capability"}), <<Node("capability", <<Skip, Maybe({"name"}, "MNP042")>>, {1})>>>>>>,
        <<Node("effect", <<Skip, Maybe({"name"}, "MNP043"), Want({"authorized_by"}, "MNP044"),
              Maybe({"name"}, "MNP045")>>, {1, 2})>>)>>)>>)

ReturnedName == <<Maybe(Value, "MNP015"), Wrap("path", 1, <<>>), Wrap("name", 1, <<>>)>>

\* role: how the declaration began, `fn`, `test`, or the identifier `test` of an
\* older profile.
Function(role) ==
    Node(IF role = "fn" THEN "fn" ELSE "test", <<
        CASE role = "fn" -> Want({"fn"}, "MNP010")
          [] role = "test" -> Want({"test"}, "MNP221")
          [] OTHER -> Skip,
        Maybe(Value, "MNP011"), Soft("generic_params")>>
        \o ParameterList \o <<Want({"->"}, "MNP012")>> \o ParameterList \o <<
        If(Since(2), <<Clauses>>, <<Group(<<>>)>>),
        Want({"{"}, "MNP013"),
        If(Since(2), <<Call("statements_until_return")>>,
           <<Group(<<>>), Want({"return"}, "MNP014")>> \o ReturnedName
               \o <<Want({";"}, "MNP016")>>),
        Want({"}"}, "MNP017")>>, {1, 7})

StatementsUntilReturn ==
    <<Group(<<While(Before({"}", "return"}), <<Call("statement")>>)>>),
      If(Is({"return"}),
         <<Skip, If(Since(3), <<Soft("expression")>>, ReturnedName), Want({";"}, "MNP016")>>,
         <<Error("MNP014"), Do("hole")>>)>>

Header ==
    <<Want({"mncs"}, "MNP001"), Do("header"), Want({";"}, "MNP003"),
      Want({"module"}, "MNP004"), Soft("qualified_name"), Want({";"}, "MNP005")>>
Declaration ==
    Choose(<<<<Both(Is({"enum"}), Since(3)), <<Try(<<FiniteType>>)>>>>,
             <<Is({"record"}),
               <<If(Since(5), <<Try(<<RecordDecl>>)>>, <<Error("MNP120"), Do("break")>>)>>>>,
             <<Is({"fn"}), <<Function("fn")>>>>,
             <<Is({"test"}), <<Function("test")>>>>,
             <<[test |-> "word", word |-> "test"], <<Error("MNP220"), Function("old")>>>>>>,
           <<Do("break")>>)
\* Variant: what is left after the declarations passes unseen.
EndOfSource_Any == If(Always, <<>>, <<>>)
\* What is left after the declarations is an error.
EndOfSource == If(Before({}), <<Error("MNP007")>>, <<>>)
Document ==
    Header \o <<Group(<<While(Is({"use"}), <<Try(<<UseDecl>>)>>), While(Always, <<Declaration>>)>>),
      If([test |-> "word", word |-> "record"], <<Error("MNP120"), Skip>>, <<>>),
      NonEmpty("MNP006"), EndOfSource>>

(***************************************************************************)
(* Statements                                                              *)
(***************************************************************************)
Block == Group(<<While(Before({"}"}), <<Call("statement")>>)>>)

Statement ==
    <<Choose(
      <<<<Is({"let"}), <<Node("let", <<Skip, Maybe(Value, "MNP050"), Want({":"}, "MNP051"),
            SoftType("MNP052"), Want({"="}, "MNP053"), Soft("expression"),
            Want({";"}, "MNP054")>>, {1, 2, 3})>>>>,
        <<Is({"if"}), <<Node("if", <<Skip, Soft("expression"), Want({"{"}, "MNP055"), Block,
            Want({"}"}, "MNP056"),
            If(Is({"else"}), <<Skip, Want({"{"}, "MNP057"), Block, Want({"}"}, "MNP058")>>,
               <<Group(<<>>)>>)>>, {1})>>>>,
        <<Is({"fail"}), <<Node("fail", <<Skip, Maybe({"name"}, "MNP059"),
            Want({";"}, "MNP060")>>, {1})>>>>,
        <<Is({"return"}), <<Node("return", <<Skip,
            If(Since(3), <<Soft("expression")>>, ReturnedName), Want({";"}, "MNP016")>>, {1})>>>>,
        <<Is({"iterate"}), <<Call("bounded_iteration")>>>>,
        <<Is({"while"}), <<Error("MNP106"), Skip>>>>>>,
      <<Error("MNP061"), Skip>>)>>

\* A missing bound costs a token, unless the clause or the body follows.
BoundedIteration ==
    Node("iterate", <<
        If(Since(4), <<>>, <<Error("MNP090")>>),
        Want({"iterate"}, "MNP091"), Maybe(Value, "MNP092"),
        If(Is({"over"}),
           <<If(Since(7), <<>>, <<Error("MNP144")>>), Skip,
             Node("over", <<Soft("expression")>>, {})>>,
           <<Want({"up_to"}, "MNP093"),
             If(Is({"integer"}), <<Do("bound")>>,
                <<Error("MNP094"), Do("hole"),
                  If(Before({"carrying", "{", "}"}), <<Skip>>, <<>>)>>)>>),
        Want({"carrying"}, "MNP095"), Maybe(Value, "MNP096"), Want({":"}, "MNP097"),
        SoftType("MNP098"), Want({"="}, "MNP099"), Soft("expression"),
        Want({"{"}, "MNP100"), Group(<<While(Before({"next", "}"}), <<Call("statement")>>)>>),
        Want({"next"}, "MNP101"), Maybe(Value, "MNP102"), Want({"="}, "MNP103"),
        Soft("expression"), Want({";"}, "MNP104"), Want({"}"}, "MNP105")>>,
        {1, 2, 3, 4, 5, 7, 8})

(***************************************************************************)
(* Expressions                                                             *)
(***************************************************************************)
\* Each operator with its precedence; the binary expression is left-associative.
Precedence(kind) ==
    CASE kind = "||" -> 1
      [] kind = "&&" -> 2
      [] kind = "|" -> 3
      [] kind = "^" -> 4
      [] kind = "&" -> 5
      [] kind \in {"==", "!="} -> 6
      [] kind \in {"<", "<=", ">", ">="} -> 7
      [] kind \in {"<<", ">>"} -> 8
      [] kind \in {"+", "-", "+%", "-%", "+|", "-|"} -> 9
      [] kind \in {"*", "*%", "*|", "/", "%"} -> 10
      [] OTHER -> 0
Intents == {"+%", "-%", "*%", "+|", "-|", "*|"}

CallArguments(closed) ==
    <<Group(<<While(Before({")"}), <<Call("expression"), Comma>>)>>), Want({")"}, closed)>>

\* The generic arguments and the arguments after the path just pushed.
CallOrPath(path) ==
    <<Call("generic_args"),
      If(Both(Arguments, Before({"("})), <<Error("MNP191")>>, <<>>),
      If(Is({"("}), <<Skip>> \o CallArguments("MNP066") \o <<Wrap("call", 3, <<>>)>>, path),
      Call("chain")>>

\* An expression that fails ends the fields where the path has no dot of its own,
\* and fails the whole literal where it has one.
Payload(expression) ==
    <<Skip, Group(<<While(Before({"}"}), <<OrBreak(<<Text(Field, "MNP140")>>),
        Want({":"}, "MNP141"), expression, Wrap("field", 2, <<>>), Comma>>)>>),
      Want({"}"}, "MNP142"), Wrap("variant", 3, <<>>)>>

Named ==
    <<Text(Value, "MNP062"), Wrap("path", 1, <<>>), Choose(
      <<<<AtIntrinsic, <<Want({"("}, "MNP160")>> \o CallArguments("MNP161")
                        \o <<Do("intrinsic")>>>>,
        <<Both(Since(5), Both(Is({"{"}), AtRecordLiteral)), <<Call("record")>>>>,
        <<Is({"."}), <<Skip, Text(Field, "MNP065"),
            If(Both(AtPayload, Since(6)), Payload(Call("expression")),
               <<Group(<<>>), Wrap("variant", 3, <<>>), Call("chain")>>)>>>>>>,
      CallOrPath(<<Do("drop"), Wrap("name", 1, <<>>)>>))>>

QualifiedPrimary ==
    <<Node("path", <<Text(Value, "MNP062"),
          While(Is({"."}), <<Skip, Text(Field, "MNP065")>>)>>, {}),
      Choose(
      <<<<Both(AtPayload, Either(Since(13), Pair)),
          <<Do("split")>> \o Payload(OrBreak(<<Call("expression")>>))>>,
        <<Both(Is({"{"}), AtRecordLiteral), <<Call("record")>>>>>>,
      CallOrPath(<<Do("drop"), If(Pair, <<Do("split"), Group(<<>>), Wrap("variant", 3, <<>>)>>,
                                  <<Wrap("qualified", 1, <<>>)>>)>>))>>

Chain ==
    <<While(Is({".", "["}), <<OrBreak(<<If(Is({"."}),
        <<Skip, Wrap("project", 1, <<Text(Field, "MNP129")>>)>>,
        <<Gate(7, "MNP153"), Skip, Call("expression"),
          If(Is({".."}), <<Skip, Wrap("slice", 2, <<Call("expression"), Want({"]"}, "MNP154")>>)>>,
             <<Wrap("index", 2, <<Want({"]"}, "MNP155")>>)>>)>>)>>)>>)>>

Primary ==
    <<Choose(
      <<<<Is({"!"}), <<Gate(13, "MNP064"), Node("!", <<Skip, Call("primary")>>, {})>>>>,
        <<Both(Since(13), Both(Is({"-"}), Peek({"integer", "version"}))),
          <<Skip, Do("literal"), Do("negate")>>>>,
        <<Both(Is(Value), Both(Since(9), Peek({"."}))), QualifiedPrimary>>,
        <<Is(Value), Named>>,
        <<Is({"integer", "version"}), <<Do("literal")>>>>,
        <<Is({"true", "false"}), <<Node("bool", <<Text({"true", "false"}, "MNP067")>>, {})>>>>,
        <<Is({"("}), <<Skip, Soft("expression"), Want({")"}, "MNP068"), Do("solid")>>>>,
        <<Is({"match"}), <<Call("match")>>>>,
        <<Is({"["}), <<Gate(7, "MNP152"), Call("sequence"), Call("chain")>>>>>>,
      <<Error("MNP064"), Fail>>),
      If(Is({"as"}), <<Gate(7, "MNP150"), Skip, Wrap("as", 1, <<Type("MNP151")>>)>>, <<>>)>>

SequenceLiteral ==
    Node("sequence", <<Token({"["}, "MNP156", FALSE, TRUE),
        Group(<<While(Before({"]"}), <<OrBreak(<<Call("expression")>>),
            If(Both(Since(13), Is({";"})),
               <<Do("single"), Skip, Node("count", <<Text({"name", "integer"}, "MNP203")>>, {}),
                 Do("break")>>, <<>>),
            Comma>>)>>),
        Want({"]"}, "MNP157")>>, {})

RecordFields ==
    Group(<<While(Is(Field), <<Node("field", <<Text(Field, "MNP132"), Want({":"}, "MNP133"),
        Call("expression")>>, {}), Comma>>)>>)

RecordLiteral ==
    <<Want({"{"}, "MNP130"),
      If(Is({".."}), <<Group(<<Skip, Call("expression")>>),
                       If(Is({","}), <<Skip, RecordFields>>, <<Group(<<>>)>>)>>,
         <<Group(<<>>), RecordFields>>),
      Want({"}"}, "MNP131"), Wrap("record", 3, <<>>)>>

AtMatchArm ==
    Either(Is(Ident \cup {"true", "false"}), Both(Since(13), Is({"integer", "-"})))

ArmPattern ==
    <<Choose(
      <<<<Is({"-"}), <<Skip, Do("pattern"), Do("negate"), Group(<<>>)>>>>,
        <<Is({"integer"}), <<Do("pattern"), Group(<<>>)>>>>,
        <<Is({"true", "false"}),
          <<Node("path", <<Text({"true", "false"}, "MNP082")>>, {}), Group(<<>>)>>>>>>,
      <<Node("path", <<Text(Ident, "MNP082"),
            If(Both(Is({"."}), Since(6)), <<Skip, Text(Ident, "MNP136"),
               While(Both(Is({"."}), Since(9)), <<Skip, Text(Ident, "MNP136")>>)>>, <<>>)>>, {}),
        If(Both(Is({"{"}), Since(6)),
           <<Skip, Group(<<If(Is({".."}), <<Node("rest", <<Skip>>, {})>>, <<>>),
               While(Is(Field), <<Node("binding", <<Text(Field, "MNP137"),
                   If(Is({":"}), <<Skip, Text(Ident, "MNP138")>>, <<>>)>>, {}), Comma>>)>>),
             Want({"}"}, "MNP139")>>,
           <<Group(<<>>)>>)>>)>>

MatchExpression ==
    Node("match", <<Want({"match"}, "MNP080"), Call("expression"), Want({"{"}, "MNP081"),
        Group(<<While(AtMatchArm, <<
            Node("arm", ArmPattern \o <<Want({"=>"}, "MNP083"), Call("expression")>>, {}),
            If(Is({","}), <<Skip>>,
               <<If(AtMatchArm, <<Error("MNP192")>>, <<Do("break")>>)>>)>>)>>),
        Want({"}"}, "MNP084")>>, {})

(***************************************************************************)
(* Types                                                                   *)
(***************************************************************************)
\* From profile 0.10 on a count may be a generic parameter.
Count(code) == If(Since(10), <<Text({"name", "integer"}, code)>>, <<Text({"integer"}, code)>>)

TypeAnnotation(code) ==
    <<If(Is({"["}),
      <<If(Since(7), <<>>, <<Error("MNP145")>>),
        Node("seq", <<Skip, Type(code), Want({";"}, "MNP146"),
            If(Is({"up_to"}), <<Skip, Node("up_to", <<Count("MNP147")>>, {})>>, <<Count("MNP148")>>),
            Token({"]"}, "MNP149", FALSE, TRUE)>>, {})>>,
      <<Node("path", <<Text(Ident, code),
            While(Both(Since(9), Is({"."})), <<Skip, Text(Ident, code)>>)>>, {}),
        If(Both(Is({"<"}), Either(Top("vec"), Top("mask"))),
           <<If(Since(8), <<>>, <<Error("MNP163")>>), Skip,
             If(Top("vec"),
                <<Do("drop"), Node("vec", <<Type(code), Want({","}, "MNP164"), Count("MNP165"),
                    Do("closer")>>, {})>>,
                <<Do("drop"), Node("mask", <<Count("MNP166"), Do("closer")>>, {})>>)>>,
           <<>>)>>)>>

\* The list of a generic call; generic_args tells it from a comparison.
ArgumentList ==
    <<Skip, Group(<<While(Unclosed, <<
        If(Is({"integer"}), <<Node("count", <<Text({"integer"}, "MNP190")>>, {})>>,
           <<OrBreak(<<Type("MNP190")>>)>>), Comma>>)>>),
      Do("close arguments")>>

(***************************************************************************)
(* The intrinsics: arity, the profile that introduced each, the error of a *)
(* wrong arity and that of an older profile.  Any other reserved name is a *)
(* vector operation, whose arguments elaboration checks.                   *)
(***************************************************************************)
Arity(n, since, wrong, early) == [n |-> n, since |-> since, wrong |-> wrong, early |-> early]
Lifecycle == {"process_start", "process_observe", "process_cancel", "process_reap"}
Unknown == Arity(-1, 0, "", "")
PureIntrinsic(name) ==
    CASE name \in {"select", "replace"} -> Arity(3, 0, "MNP162", "")
      [] name = "copy_span" -> Arity(5, 14, "MNP208", "MNP207")
      [] name = "checked_index" -> Arity(2, 14, "MNP210", "MNP209")
      [] name = "sin" -> Arity(1, 12, "MNP199", "MNP201")
      [] name = "cos" -> Arity(1, 12, "MNP200", "MNP201")
      [] name = "neg" -> Arity(1, 12, "MNP212", "MNP201")
      [] OTHER -> Unknown
HostIntrinsic(name) ==
    CASE name = "host_read" -> Arity(0, 0, "MNP193", "")
      [] name = "clock_read" -> Arity(0, 0, "MNP194", "")
      [] name = "sha256_digest" -> Arity(1, 0, "MNP195", "")
      [] name = "structured_digest" -> Arity(1, 16, "MNP214", "MNP213")
      [] name = "process_run" -> Arity(1, 16, "MNP216", "MNP215")
      [] name \in Lifecycle -> Arity(1, 18, "MNP239", "MNP238")
      [] OTHER -> Unknown
ArtifactIntrinsic(name) ==
    CASE name = "structured_read" -> Arity(2, 18, "MNP218", "MNP217")
      [] name = "structured_read_identity" -> Arity(3, 18, "MNP222", "MNP221")
      [] name = "provider_call" -> Arity(2, 18, "MNP224", "MNP223")
      [] name = "structured_write" -> Arity(3, 18, "MNP220", "MNP219")
      [] name = "host_write" -> Arity(1, 0, "MNP202", "")
      [] name = "ed25519_verify" -> Arity(3, 0, "MNP196", "")
      [] OTHER -> Unknown
FsReadIntrinsic(name) ==
    CASE name \in {"fs_list_count", "fs_generation"} -> Arity(0, 12, "MNP205", "MNP204")
      [] name \in {"fs_entry_name_at", "fs_entry_kind_at"} -> Arity(1, 12, "MNP205", "MNP204")
      [] name \in {"fs_entry_size_at", "fs_entry_mtime_at"} -> Arity(1, 18, "MNP205", "MNP204")
      [] name = "fs_read_bytes_at" -> Arity(3, 12, "MNP205", "MNP204")
      [] OTHER -> Unknown
FsChangeIntrinsic(name) ==
    CASE name = "fs_write_bytes_at" -> Arity(3, 16, "MNP205", "MNP211")
      [] name \in {"fs_create_file", "fs_append_bytes_at", "fs_rename_at"} ->
             Arity(2, 16, "MNP205", "MNP211")
      [] name \in {"fs_mkdir", "fs_delete_at", "fs_sync_at"} -> Arity(1, 16, "MNP205", "MNP211")
      [] OTHER -> Unknown
\* A name is a row of at most one of the tables.
IntrinsicOf(name) ==
    LET rows == {PureIntrinsic(name), HostIntrinsic(name), ArtifactIntrinsic(name),
                 FsReadIntrinsic(name), FsChangeIntrinsic(name)} \ {Unknown}
    IN  IF rows = {} THEN Unknown ELSE CHOOSE row \in rows : TRUE

VectorNames == {"vector", "splat", "extract_lane", "replace_lane", "vec_add_wrap",
    "vec_add_checked", "vec_add_sat", "vec_sub_wrap", "vec_sub_checked", "vec_sub_sat",
    "vec_mul_wrap", "vec_mul_checked", "vec_mul_sat", "vec_and", "vec_or", "vec_xor", "vec_shl",
    "vec_shr", "vec_min", "vec_max", "vec_eq", "vec_ne", "vec_lt", "vec_le", "vec_gt", "vec_ge",
    "mask_and", "mask_or", "mask_xor", "mask_not", "mask_any", "mask_all", "mask_none",
    "reduce_sum_wrap", "reduce_sum_checked", "reduce_min", "reduce_max"}

Reserved(name) == IntrinsicOf(name).n >= 0 \/ name \in VectorNames

(***************************************************************************)
(* The parser's state and the steps carried out on it                      *)
(***************************************************************************)
Rule(name) ==
    CASE name = "generic_params" -> <<GenericParams>>
      [] name = "qualified_name" -> <<QualifiedName>>
      [] name = "statements_until_return" -> StatementsUntilReturn
      [] name = "bounded_iteration" -> <<BoundedIteration>>
      [] name = "chain" -> Chain
      [] name = "sequence" -> <<SequenceLiteral>>
      [] name = "record" -> RecordLiteral
      [] name = "match" -> <<MatchExpression>>

Fresh(tokens) ==
    [toks |-> tokens, profile |-> 1, at |-> 1, errs |-> <<>>, closers |-> 0, nest |-> 0,
     ok |-> TRUE, stop |-> FALSE, over |-> FALSE, out |-> <<>>, base |-> 0]

Hole == [k |-> "hole"]
Raw(s, i) == IF i <= Len(s.toks) THEN s.toks[i].k ELSE "end"
\* A word a later profile reserves is a name under an older one.
At(s) ==
    LET k == Raw(s, s.at)
    IN  IF \/ k \in {"iterate", "up_to", "carrying", "next", "while"} /\ s.profile < 4
           \/ k = "record" /\ s.profile < 5
           \/ k = "use" /\ s.profile < 6
        THEN "name" ELSE k
FieldKinds(s) == IF s.profile >= 13 THEN Ident \cup {"next"} ELSE Ident
IsAt(s, kinds) == At(s) \in (IF kinds = Field THEN FieldKinds(s) ELSE kinds)
Push(s, v) == [s EXCEPT !.out = Append(@, v)]
Pop(s, n) == [s EXCEPT !.out = SubSeq(@, 1, Len(@) - n)]
Peeked(s, n) == s.out[Len(s.out) - n]
Ahead(s) == [s EXCEPT !.at = IF @ <= Len(s.toks) THEN @ + 1 ELSE @]
Word(s) == [k |-> "word", t |-> s.toks[s.at].t]
Erred(s, code) == [s EXCEPT !.errs = Append(@, code)]
Failed(s) == [s EXCEPT !.ok = FALSE]
Broken(s) == [s EXCEPT !.stop = TRUE]
Since0(s, n, code) == IF s.profile >= n THEN s ELSE Failed(Erred(s, code))

NameThenColon(s) == Raw(s, s.at + 1) \in FieldKinds(s) /\ Raw(s, s.at + 2) = ":"

RECURSIVE Test(_, _)
Test(t, s) ==
    CASE t.test = "is" -> IsAt(s, t.kinds)
      [] t.test = "before" -> At(s) \notin t.kinds \cup {"end"}
      [] t.test = "peek" -> Raw(s, s.at + 1) \in t.kinds
      [] t.test = "since" -> s.profile >= t.since
      [] t.test = "both" -> Test(t.p, s) /\ Test(t.q, s)
      [] t.test = "either" -> Test(t.p, s) \/ Test(t.q, s)
      [] t.test = "always" -> TRUE
      [] t.test = "word" -> At(s) = "name" /\ Word(s).t = t.word
      [] t.test = "record literal" -> Raw(s, s.at + 1) = ".." \/ NameThenColon(s)
      [] t.test = "payload" -> At(s) = "{" /\ (NameThenColon(s) \/ Raw(s, s.at + 1) = "}")
      [] t.test = "intrinsic" ->
            At(s) = "(" /\ s.profile >= 8 /\ Reserved(Peeked(s, 0).kids[1].t)
      [] t.test = "pair" -> Len(Peeked(s, 0).kids) = 2
      [] t.test = "top" -> Peeked(s, 0).kids = <<[k |-> "word", t |-> t.word]>>
      [] t.test = "arguments" -> Peeked(s, 0).kids # <<>>
      [] t.test = "unclosed" -> s.closers = 0 /\ At(s) \notin {">", ">>", "end"}

\* The position of the `>` or `>>` that would close the generic arguments opened
\* before position i, 0 when there is none within reach.
RECURSIVE Closer(_, _, _, _)
Closer(s, i, depth, square) ==
    LET k == Raw(s, i)
        deep == CASE k = "<" -> depth + 1 [] k = ">" -> depth - 1 [] k = ">>" -> depth - 2
                  [] OTHER -> depth
        sq == CASE k = "[" -> square + 1 [] k = "]" /\ square > 0 -> square - 1
                [] OTHER -> square
    IN  IF k = "end" THEN 0
        ELSE IF k \in {">", ">>"} /\ deep <= 0 THEN i
        ELSE IF deep = 1 /\ sq = 0 /\ k \in {"{", "}", ";"} THEN 0
        ELSE IF i + 1 - s.at > Lookahead THEN 0
        ELSE Closer(s, i + 1, deep, sq)

LooksGeneric(s) ==
    /\ At(s) = "<"
    /\ LET p == Closer(s, s.at + 1, 1, 0) IN p # 0 /\ Raw(s, p + 1) = "("

\* The integer a literal stands for: one too large to hold reads as zero.
LiteralValue(word) == IF Numerals[word] > MaxLiteral THEN 0 ELSE Numerals[word]

Literal(s) ==
    LET word == Word(s).t
    IN  IF At(s) = "integer"
        THEN Push(Ahead(s), [k |-> "integer", t |-> word, n |-> LiteralValue(word)])
        ELSE IF s.profile < 12 \/ word \notin DOMAIN Floats
             THEN Failed(Erred(Ahead(s), "MNP197"))
        ELSE IF Floats[word] > FloatLimit THEN Failed(Erred(Ahead(s), "MNP198"))
        ELSE Push(Ahead(s), [k |-> "float", t |-> word, n |-> Floats[word]])

\* `>>` closes the type and leaves one closer for the list around it.
CloseType(s) ==
    IF At(s) = ">>" THEN [Ahead(s) EXCEPT !.closers = @ + 1]
    ELSE IF At(s) = ">" THEN Ahead(s) ELSE Failed(Erred(s, "MNP167"))

CloseArguments(s) ==
    IF s.closers > 0 THEN [s EXCEPT !.closers = @ - 1]
    ELSE IF At(s) = ">" THEN Ahead(s) ELSE Failed(s)

\* intrinsic_selection's table lookup, on the path and the list just pushed.
Selected(s) ==
    LET name == Peeked(s, 1).kids[1].t
        row == IntrinsicOf(name)
        args == Peeked(s, 0).kids
    IN  IF row.n >= 0 /\ Len(args) # row.n THEN Failed(Erred(s, row.wrong))
        ELSE IF s.profile < row.since THEN Failed(Erred(s, row.early))
        ELSE Push(Pop(s, 2), [k |-> "intrinsic", t |-> name, kids |-> args])

\* The last segment of a qualified path taken apart from the type it is in.
Split(s) ==
    LET kids == Peeked(s, 0).kids
    IN  Push(Push(Pop(s, 1), [k |-> "path", kids |-> SubSeq(kids, 1, Len(kids) - 1)]),
             kids[Len(kids)])

RECURSIVE SkipBlock(_, _)
SkipBlock(s, depth) ==
    LET d == CASE At(s) = "{" -> depth + 1 [] At(s) = "}" -> depth - 1 [] OTHER -> depth
    IN  IF At(s) = "end" THEN s ELSE IF d = 0 THEN Ahead(s) ELSE SkipBlock(Ahead(s), d)

Simple(what, s) ==
    CASE what = "skip" -> Ahead(s)
      [] what = "fail" -> Failed(s)
      [] what = "break" -> Broken(s)
      [] what = "hole" -> Push(s, Hole)
      [] what = "drop" -> Pop(s, 1)
      [] what = "comma" -> IF At(s) = "," THEN Ahead(s) ELSE Broken(s)
      [] what = "solid" -> IF Peeked(s, 0).k = "hole" THEN Failed(s) ELSE s
      [] what = "literal" -> Literal(s)
      [] what = "bound" ->
            Push(Ahead(s), IF Numerals[Word(s).t] > MaxLiteral THEN Hole
                           ELSE [k |-> "integer", t |-> Word(s).t, n |-> Numerals[Word(s).t]])
      [] what = "pattern" ->
            IF At(s) # "integer" THEN Failed(Erred(s, "MNP082"))
            ELSE Push(Ahead(s), [k |-> "scalar", t |-> Word(s).t, n |-> Numerals[Word(s).t]])
      [] what = "negate" ->
            Push(Pop(s, 1), [Peeked(s, 0) EXCEPT !.n = -@, !.t = "-" \o @])
      [] what = "closer" -> CloseType(s)
      [] what = "close arguments" -> CloseArguments(s)
      [] what = "intrinsic" -> Selected(s)
      [] what = "split" -> Split(s)
      [] what = "single" ->
            IF Len(s.out) = s.base + 1 THEN s ELSE Failed(Erred(s, "MNP203"))
      [] what = "fresh" ->
            IF \E i \in DOMAIN s.out : s.out[i].k = "generic" /\ s.out[i].kids[1] = Peeked(s, 0)
            THEN Erred(s, "MNP186") ELSE s
      [] what = "constraint" ->
            IF Peeked(s, 0).t \in {"Type", "Nat"} THEN s ELSE Erred(s, "MNP187")
      [] what = "skip block" -> IF At(s) = "{" THEN SkipBlock(s, 0) ELSE s
      [] what = "header" ->
            IF At(s) # "version" THEN Push(Erred(s, "MNP002"), Hole)
            ELSE [Push(Ahead(s), Word(s)) EXCEPT !.profile =
                  IF Word(s).t \in DOMAIN Versions THEN Versions[Word(s).t] ELSE 0]

RECURSIVE Run(_, _), Ran(_, _, _), Step(_, _), Rounds(_, _, _), Repeated(_, _, _), Climb(_, _)

\* Steps in turn until one fails or ends the loop; the first n of them.
Ran(steps, n, s) ==
    IF n = 0 THEN s
    ELSE LET r == Ran(steps, n - 1, s) IN IF r.ok /\ ~r.stop THEN Step(steps[n], r) ELSE r
Run(steps, s) == Ran(steps, Len(steps), s)

\* One more level of nesting, refused at the bound.
Nest(s, steps) ==
    IF s.nest >= MaxNesting THEN Failed(Erred(s, "MNP206"))
    ELSE [Run(steps, [s EXCEPT !.nest = @ + 1]) EXCEPT !.nest = @ - 1]

\* A refused statement costs a token, so the loop around it moves on.
StatementStep(s) ==
    IF s.nest >= MaxNesting THEN Ahead(Erred(s, "MNP206")) ELSE Nest(s, Statement)

\* Variant: operators of one level group to the right.
Climb_RightAssociative(least, s) ==
    LET p == Precedence(At(s))
    IN  IF ~s.ok \/ p = 0 \/ p < least THEN s
        ELSE IF At(s) \in Intents /\ s.profile < 6 THEN Failed(Erred(s, "MNP143"))
        ELSE Climb(least, Step(Wrap(At(s), 1, <<Skip, Binary(p)>>), s))
Climb(least, s) ==
    LET p == Precedence(At(s))
    IN  IF ~s.ok \/ p = 0 \/ p < least THEN s
        ELSE IF At(s) \in Intents /\ s.profile < 6 THEN Failed(Erred(s, "MNP143"))
        ELSE Climb(least, Step(Wrap(At(s), 1, <<Skip, Binary(p + 1)>>), s))

\* A round of a loop, which takes a token or is the last; n rounds, halved, and twice as many
\* as long as it goes on, so that evaluating them stays shallow.
Round(w, s) ==
    IF ~Test(w.test, s) THEN [s EXCEPT !.over = TRUE]
    ELSE LET r == Run(w.steps, s)
         IN  [r EXCEPT !.stop = @ /\ ~r.ok, !.over = ~r.ok \/ r.stop]
Rounds(w, s, n) ==
    IF n = 1 THEN Round(w, s)
    ELSE LET half == Rounds(w, s, n \div 2) IN IF half.over THEN half ELSE Rounds(w, half, n \div 2)
Repeated(w, s, n) ==
    LET r == Rounds(w, s, n) IN IF r.over THEN [r EXCEPT !.over = FALSE] ELSE Repeated(w, r, 2 * n)
Loop(w, s) == Repeated(w, s, 1)

\* The node of what the steps push; a node that fails pushes nothing.
Built(i, s) ==
    LET from == Len(s.out) - i.back
        r == Run(i.steps, s)
        kids == SubSeq(r.out, from + 1, Len(r.out))
        whole == \A n \in i.needs : n \in DOMAIN kids /\ kids[n].k # "hole"
        node == IF whole THEN [k |-> i.tag, kids |-> kids] ELSE Hole
    IN  IF r.ok THEN [r EXCEPT !.out = Append(SubSeq(@, 1, from), node)]
        ELSE [r EXCEPT !.out = SubSeq(@, 1, Len(s.out))]

Listed(i, s) ==
    LET r == Run(i.steps, [s EXCEPT !.base = Len(s.out)])
        kids == SelectSeq(SubSeq(r.out, Len(s.out) + 1, Len(r.out)), LAMBDA v : v.k # "hole")
    IN  IF r.ok THEN [r EXCEPT !.base = s.base, !.out = Append(s.out, [k |-> "list", kids |-> kids])]
        ELSE [r EXCEPT !.base = s.base, !.out = s.out]

\* What a method that fails has pushed is gone.
Kept(r, s) == IF r.ok THEN r ELSE [r EXCEPT !.out = s.out]
\* A failed method's caller goes on, where the method was called.
Recovered(r, s) == IF r.ok THEN r ELSE [r EXCEPT !.ok = TRUE, !.out = s.out]

\* generic_args: a list that turns out not to be one leaves no trace.
GenericArgs(s) ==
    IF ~LooksGeneric(s) THEN Push(s, [k |-> "list", kids |-> <<>>])
    ELSE IF s.profile < 10 THEN Push(Erred(s, "MNP189"), [k |-> "list", kids |-> <<>>])
    ELSE LET r == Run(ArgumentList, s)
         IN  IF r.ok /\ At(r) = "(" THEN r
             ELSE Push([s EXCEPT !.nest = r.nest], [k |-> "list", kids |-> <<>>])

Step(i, s) ==
    CASE i.do = "token" ->
            IF IsAt(s, i.kinds) THEN IF i.keep THEN Push(Ahead(s), Word(s)) ELSE Ahead(s)
            ELSE IF i.must THEN Failed(Erred(s, i.code))
            ELSE IF i.keep THEN Push(Erred(s, i.code), Hole) ELSE Erred(s, i.code)
      [] i.do = "error" -> Erred(s, i.code)
      [] i.do = "gate" -> Since0(s, i.since, i.code)
      [] i.do = "non-empty" -> IF Peeked(s, 0).kids = <<>> THEN Erred(s, i.code) ELSE s
      [] i.do = "call" -> IF i.rule = "statement" THEN StatementStep(s)
                          ELSE IF i.rule = "generic_args" THEN GenericArgs(s)
                          ELSE IF i.rule = "expression" THEN Kept(Nest(s, <<Binary(0)>>), s)
                          ELSE IF i.rule = "primary" THEN Kept(Nest(s, Primary), s)
                          ELSE Kept(Run(Rule(i.rule), s), s)
      [] i.do = "type" -> Nest(s, TypeAnnotation(i.code))
      [] i.do = "binary" -> Nest(s, <<Call("primary"), [do |-> "climb", least |-> i.least]>>)
      [] i.do = "climb" -> Climb(i.least, s)
      [] i.do = "soft" -> LET r == Run(i.steps, s)
                          IN  IF r.ok THEN r ELSE Push(Recovered(r, s), Hole)
      [] i.do = "try" -> Recovered(Run(i.steps, s), s)
      [] i.do = "or break" -> LET r == Run(i.steps, s)
                              IN  IF r.ok THEN r ELSE Broken(Recovered(r, s))
      [] i.do = "node" -> Built(i, s)
      [] i.do = "group" -> Listed(i, s)
      [] i.do = "while" -> Loop(i, s)
      [] i.do = "if" -> Run(IF Test(i.test, s) THEN i.then ELSE i.else, s)
      [] i.do = "choose" ->
            LET hit == {n \in DOMAIN i.arms : Test(i.arms[n][1], s)}
            IN  Run(IF hit = {} THEN i.other ELSE i.arms[CHOOSE n \in hit : \A m \in hit : n <= m][2], s)
      [] OTHER -> Simple(i.do, s)

\* parse_with_lexical_and_source_map: any error drops the tree.
Parse(words, envelope) ==
    LET lexed == Lex(words, envelope)
        s == Run(Document, Fresh(lexed))
        unknown == {i \in DOMAIN lexed : lexed[i].k = "unknown"}
        errs == (IF unknown = {} THEN <<>> ELSE <<"MNL002">>) \o s.errs
                \o (IF s.profile \notin Supported THEN <<"MNP008">> ELSE <<>>)
                \o (IF s.profile # envelope THEN <<"MNE002">> ELSE <<>>)
    IN  [tree |-> IF errs = <<>> THEN s.out ELSE <<>>, errs |-> errs,
         closers |-> s.closers, nest |-> s.nest]
=============================================================================
