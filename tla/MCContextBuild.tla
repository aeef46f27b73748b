--------------------------- MODULE MCContextBuild ---------------------------
(* ContextBuild for TLC: two providers, of which the first has a timeout,  *)
(* and callers that pass no messages, an old conversation under a system   *)
(* message of its own, or one with a tool exchange.                        *)
EXTENDS ContextBuild

MCProviders == <<"timed", "patient">>

OldTalk == <<System(30), User(700), Assistant({}, 1500)>>

OldExchange == <<User(60), Assistant({"c1"}, 90), ToolResult("c1", 1900), Assistant({}, 40)>>

MCHistories == {<<>>, OldTalk, OldExchange}
===============================================================================
