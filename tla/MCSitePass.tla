----------------------------- MODULE MCSitePass ------------------------------
(* A TLC instance of SitePass: two claims of one namespace.                      *)
EXTENDS SitePass

MCVolumes == "a" :> [ref |-> <<"db", "data">>, gib |-> 8] @@ "b" :> [ref |-> <<"db", "cache">>, gib |-> 4]

MCWorlds ==
    {[vol |-> "a" :> "mounted" @@ "b" :> "idle", spare |-> FALSE, junk |-> TRUE],
     [vol |-> "a" :> "released" @@ "b" :> "waiting", spare |-> TRUE, junk |-> FALSE]}
=============================================================================
