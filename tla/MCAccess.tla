------------------------------ MODULE MCAccess ------------------------------
(* One subject, one key that is bound to a server, two tools on two servers *)
(* and a name that no server has.                                           *)
EXTENDS Access, TLC

CONSTANTS r1, r2, u, k, t1, t2, ghost, boss, clerk

MCHome == t1 :> {"mcp-s1", "s1"} @@ t2 :> {"s2"}
MCClassified == t1 :> "write" @@ t2 :> "unknown"
MCKeyScope == k :> {"s1"}
MCHeaders == {[bearer |-> u, x |-> k], [bearer |-> "other", x |-> k], [bearer |-> "bad jwt", x |-> k]}
MCEditors == boss :> "admin" @@ clerk :> "editor"

Do(t) == [tool |-> t, approval |-> FALSE]
Ask(t) == [tool |-> t, approval |-> TRUE]
MCPlans == {<<Do(ghost), Do(t2), Do(t1), Ask(t1)>>}
MCConfigs == {<<"standalone", TRUE>>, <<"integrated", FALSE>>}
MCKinds == r1 :> {"call", "list", "plan", "execute"} @@ r2 :> {"schema"}
=============================================================================
