---------------------------- MODULE MCTaskScope ----------------------------
(* Small instances of TaskScope. *)
EXTENDS TaskScope, TLC

CONSTANTS r1, r2

\* A run whose items are divided, beside one with a single item.
LongAndShort == r1 :> {0, 1, 3} @@ r2 :> {1}
=============================================================================
