-------------------------- MODULE MCAgentGateway --------------------------
(* An admin and a viewer, a tool under one prefix rule in two spellings, a *)
(* tool under two that disagree and one under none, calls in two spellings,*)
(* a list, a notification, and messages refused for each of the reasons    *)
(* there are.                                                              *)
EXTENDS AgentGateway

MCWellFormed == {"tools/call", "Tools/Call", "tools/list", "get", "admin_reset", "Admin_Reset",
                 "admin_report"}
MCFolded ==
    [s \in MCWellFormed |-> CASE s = "Tools/Call" -> "tools/call"
                              [] s = "Admin_Reset" -> "admin_reset"
                              [] OTHER -> s]
MCRules == <<[prefix |-> "admin_rep", roles |-> {"viewer"}],
             [prefix |-> "admin_", roles |-> {"admin"}]>>
MCStartsWith == {<<"admin_report", "admin_rep">>, <<"admin_report", "admin_">>,
                 <<"admin_reset", "admin_">>}
Msg(method, tool, id) == [rpc |-> TRUE, method |-> method, tool |-> tool, id |-> id]
MCMessages ==
    {Msg("tools/call", "get", TRUE), Msg("tools/call", "Admin_Reset", TRUE),
     Msg("Tools/Call", "admin_reset", FALSE), Msg("tools/call", "admin_report", TRUE),
     Msg("tools/call", "a b", TRUE),
     Msg("tools/list", Unnamed, TRUE), Msg("tools call", "get", TRUE),
     [rpc |-> FALSE, method |-> "", tool |-> Unnamed, id |-> FALSE]}
MCListed == {"get", "admin_reset", "admin_report"}
=============================================================================
