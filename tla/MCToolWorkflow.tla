--------------------------- MODULE MCToolWorkflow ---------------------------
(* A conversation with two calls, the first of them high-risk, and a user  *)
(* who has one of them retried: two executors, whose attempts can hold     *)
(* more operations than the monitor allows.                                *)
EXTENDS ToolWorkflow, TLC

CONSTANTS c1, t1, a, b

OneConversation == c1 :> <<a, b>>
=============================================================================
