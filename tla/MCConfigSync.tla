---------------------------- MODULE MCConfigSync ----------------------------
(* One pod whose configuration is pushed to it; and, apart from that, the   *)
(* discovery index to which the pushed metadata goes, given every list of   *)
(* tools and every list of metadata in every order.                         *)
EXTENDS ConfigSync, Search

MCCatalog == <<
    [name |-> <<"db", "query">>, title |-> <<>>, category |-> "db",
     desc |-> <<"run", "sql">>, summary |-> <<"run", "sql">>],
    [name |-> <<"k8s", "apply">>, title |-> <<>>, category |-> "k8s",
     desc |-> <<"write", "state">>, summary |-> <<"write", "state">>],
    [name |-> <<"k8s", "pods">>, title |-> <<"list">>, category |-> "k8s",
     desc |-> <<"show", "kube", "state">>, summary |-> <<"show">>] >>

Overlay(t, c, s, g, p) == [tool |-> t, category |-> c, summary |-> s, tags |-> g, priority |-> p]
MCOverlays == {<<>>, <<Overlay(3, "db", <<"sql", "pods">>, <<>>, 1)>>,
               <<Overlay(3, "", <<>>, <<"state">>, 0), Overlay(2, "", <<>>, <<"run">>, 2)>>}
MCQueries == {<<"sql">>, <<"k8s">>, <<"state">>, <<"kube", "state">>, <<"run">>, <<"pods">>}
MCSynonyms == {{"k8s", "kube"}}
MCRelated == {<<"sql", "state">>, <<"run", "apply">>}

\* Either the configuration moves or the index does.
MCInit == Init /\ SInit
MCNext ==
    \/ engine = "off" /\ Next /\ UNCHANGED svars
    \/ engine # "off" /\ SNext /\ UNCHANGED vars
MCSpec == MCInit /\ [][MCNext]_<<vars, svars>> /\ Fairness
=============================================================================
