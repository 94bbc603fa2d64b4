------------------------- MODULE MCConversationCache -------------------------
(* Four conversations and two tool executions of two sizes. *)
EXTENDS ConversationCache, TLC

CONSTANTS c1, c2, c3, c4, t1, t2

MCConvIds == {c1, c2, c3, c4}
MCToolIds == {t1, t2}
MCSizes == {1, 2}
MCLimits == {3, 5}
Symmetry == Permutations(MCConvIds) \cup Permutations(MCToolIds)
=============================================================================
