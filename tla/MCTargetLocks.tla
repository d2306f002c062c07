--------------------------- MODULE MCTargetLocks ---------------------------
(* Three contexts, c2 and c3 in one process, over two homes: two lock both, *)
(* and the third asks for both in the other order, or for the second home.  *)
EXTENDS TargetLocks
CONSTANTS c1, c2, c3, codex, opencode

ThreeContexts == {c1, c2, c3}
TwoHomes == {codex, opencode}
OpencodeExists == {opencode}
CodexFirst == [h \in Paths |-> IF h = codex THEN 1 ELSE 2]
OneReversed == [c \in Contexts |->
  IF c = c3 THEN <<opencode, codex>> ELSE <<codex, opencode>>]
OneSecond == [c \in Contexts |->
  IF c = c3 THEN <<opencode>> ELSE <<codex, opencode>>]
TwoProcesses == [c \in Contexts |-> IF c = c1 THEN 1 ELSE 2]
=============================================================================
