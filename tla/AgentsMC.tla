------------------------------ MODULE AgentsMC ------------------------------
(* A small instance of Agents for TLC.                                     *)
EXTENDS Agents

(* Claude and Codex events in either order, output that is no JSON, and    *)
(* more on stderr than its pipe holds while stdout stays open.             *)
PrintsMC ==
    {<<"finding", "turn", "result", "turn", "done">>,
     <<"turn", "finding", "failed", "turn">>,
     <<"finding", "noise", "finding", "failed", "result">>,
     <<"failed", "stderr", "finding", "done">>,
     <<"finding", "stderr", "stderr", "stderr", "finding">>}

(* The prompt that comes back, another session's events, prose, an error   *)
(* and a server that never says it is idle.                                *)
RepliesMC ==
    {<<"prompt", "register", "finding", "foreign", "finding", "idle">>,
     <<"prompt", "foreign", "register", "finding", "prose", "finding", "idle">>,
     <<"prompt", "register", "finding", "failed", "idle">>,
     <<"register", "error", "idle">>,
     <<"register", "finding">>}
=============================================================================
