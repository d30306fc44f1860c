---------------------------- MODULE MCFsResource ----------------------------
(* Small instance of FsResource: a file two directories down, and room to move *)
(* it and its directory.                                                       *)
EXTENDS FsResource
MCPaths == {<<1>>, <<2>>, <<1, 1>>, <<1, 2>>, <<2, 1>>, <<1, 1, 1>>, <<1, 2, 1>>}
DeepFile == [p \in MCPaths |-> CASE p \in {<<1>>, <<1, 1>>} -> "dir" [] p = <<1, 1, 1>> -> "file"
                               [] OTHER -> "none"]
MCLong == {<<2, 1>>}
Call(op, i, name, off, realize) ==
    [op |-> op, i |-> i, name |-> name, off |-> off, n |-> 1, realize |-> realize]
MCCalls ==
    {Call("count", 0, 0, 0, TRUE)}
    \cup {Call(op, i, 0, 0, TRUE) : op \in {"append", "delete", "sync"}, i \in 1 .. 2}
    \cup {Call(op, 2, 0, 0, FALSE) : op \in {"append", "delete", "sync"}}
    \cup {Call("entry", i, 0, 0, TRUE) : i \in 0 .. 1}
    \cup {Call("read", 2, 0, 0, TRUE), [Call("write", 2, 0, 0, TRUE) EXCEPT !.n = 2],
          Call("write", 2, 0, 0, FALSE)}
    \cup {Call(op, 0, n, 0, TRUE) : op \in {"create", "mkdir"}, n \in 0 .. 2}
    \cup {Call(op, 0, 2, 0, FALSE) : op \in {"create", "mkdir"}}
    \cup {Call("rename", i, 2, 0, r) : i \in 0 .. 2, r \in BOOLEAN}
    \cup {Call("rename", 1, n, 0, TRUE) : n \in 0 .. 1}
=============================================================================
