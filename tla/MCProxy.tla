------------------------------ MODULE MCProxy -------------------------------
(* The endpoint in each namespace mode: with two servers that have one tool *)
(* name in common; by itself with a server of two tools, one under a raw    *)
(* name that starts with its display name; and with a server that moves.    *)
EXTENDS Proxy, TLC

CONSTANTS db, k8s, web, a1, a2, a3

MCProfile ==
    k8s :> [full |-> <<"mcp-k8s">>, display |-> <<"k8s">>,
            tools |-> {<<"list">>}, resources |-> {<<"cluster">>}]
    @@ web :> [full |-> <<"web">>, display |-> <<"web">>,
               tools |-> {<<"list">>}, resources |-> {}]
    @@ db :> [full |-> <<"mcp-db">>, display |-> <<"db">>,
              tools |-> {<<"db", "get">>, <<"put">>}, resources |-> {}]

MCFleets == Reject :> {{db}} @@ Always :> {{k8s}} @@ OnConflict :> {{k8s, web}}

\* k8s and db move.
MCAddrs == k8s :> {a1, a2} @@ web :> {a3} @@ db :> {a1, a2}
Moves == Permutations({a1, a2})

MCToolOrder == << <<"db", "get">>, <<"list">>, <<"put">> >>
=============================================================================
