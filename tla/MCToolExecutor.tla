----------------------------- MODULE MCToolExecutor -----------------------------
(* Two turns that share a provider; two failed calls open the breaker. *)
EXTENDS ToolExecutor

CONSTANTS t1, t2

MCRequests == { <<"search">>, <<"search", "search">>, <<"noQuery", "unknownTool">>,
                <<"search", "nullArguments">> }
=================================================================================
