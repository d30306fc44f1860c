-------------------------- MODULE MCArtifactCache --------------------------
(* Small instances of ArtifactCache: two processes, one or two cache roots. *)
EXTENDS ArtifactCache, TLC

CONSTANTS p1, p2, n1, n2, k1, k2, app1, app2

Processes == Permutations({p1, p2})

Both(r1, r2, scope) == p1 :> [root |-> r1, scope |-> scope]
                    @@ p2 :> [root |-> r2, scope |-> scope]
\* The processes share a root, or have a root each in one storage root.
TwoSettings == {Both(n1, n1, "root"), Both(n1, n2, "storage"), Both(n2, n1, "storage")}

\* Both keys may compile to app1; the compilation of k2 is not a function of the key.
UnstableBuilds == k1 :> {app1} @@ k2 :> {app1, app2}
SameCode == app1 :> 0 @@ app2 :> 0
Sizes == app1 :> 2 @@ app2 :> 3

\* How a call ended is looked at in the step that ends it and nowhere else, so
\* states that differ in the last result of an idle process are one.
Forgetful == <<env, dirs, pend, made, now, left, offered, got,
               [p \in Procs |-> IF l[p].pc = "idle" THEN Idle ELSE l[p]]>>

LegacyEntry == [s \in Slots |-> IF s = <<n1, k1>> THEN app1 ELSE NoValue]
=============================================================================
