------------------------------ MODULE MCPolicy ------------------------------
(* A small gateway: a tool whose name reads as read-only and one whose     *)
(* name reads as destructive, and calls that between them meet every check *)
(* of the engine.                                                          *)
EXTENDS Policy, TLC

MCTokens == ("drop_table" :> {"drop", "table"}) @@ ("list_pods" :> {"list", "pods"})
MCManualLevels == ("drop_table" :> {"read_only"}) @@ ("list_pods" :> {"destructive"})
MCExposes == ("s1" :> {"drop_table"})

Text(kind) == [kind |-> "string", strings |-> {kind}, elems |-> {}]
List(vs) == [kind |-> "array", strings |-> {}, elems |-> vs]
NoSchema == [state |-> "absent"]
Wants(type) == [state |-> "valid", required |-> {"q"},
                properties |-> ("q" :> [type |-> type, enum |-> {}])]

MCCalls ==
  { [tool |-> "drop_table", profile |-> "ops", args |-> <<>>, schema |-> NoSchema],
    [tool |-> "list_pods", profile |-> "none", args |-> "q" :> List({Text("dangerous")}),
     schema |-> Wants("string")] }

MCProfileTables ==
  { WithDefault("ops" :> [allow |-> {}, deny |-> {}, mode |-> "audit"]),
    WithDefault(("ops" :> [allow |-> {"list_pods"}, deny |-> {}, mode |-> "enforce"])
             @@ ("default" :> [allow |-> {}, deny |-> {"drop_table"}, mode |-> "unset"])) }
=============================================================================
