---------------------------- MODULE AtomicCommit ----------------------------
(***************************************************************************)
(* What the transaction promises, without journals, homes or recoveries:   *)
(* items change one at a time, in any order and back and forth, while the  *)
(* outcome is open; it is decided once, when every item is as after the    *)
(* transaction or every item as before it; from then on nothing changes.   *)
(***************************************************************************)
CONSTANT Items

VARIABLES view,     \* view[i]: the item is as "before", as "after", or "between"
          decision  \* "open", "commit" or "abort"

Views == {"before", "between", "after"}

ACInit == view = [i \in Items |-> "before"] /\ decision = "open"

Change(i) ==
  /\ decision = "open"
  /\ \E v \in Views \ {view[i]} : view' = [view EXCEPT ![i] = v]
  /\ UNCHANGED decision

Commit ==
  /\ decision = "open" /\ \A i \in Items : view[i] = "after"
  /\ decision' = "commit" /\ UNCHANGED view

Abort ==
  /\ decision = "open" /\ \A i \in Items : view[i] = "before"
  /\ decision' = "abort" /\ UNCHANGED view

ACNext == Commit \/ Abort \/ \E i \in Items : Change(i)
ACSpec == ACInit /\ [][ACNext]_<<view, decision>>
=============================================================================
