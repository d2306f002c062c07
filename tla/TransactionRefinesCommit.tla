---------------------- MODULE TransactionRefinesCommit ----------------------
(***************************************************************************)
(* The journaled transaction implements AtomicCommit.  The abstract        *)
(* decision is the first cleanup journal on any home or, once no journal   *)
(* is left, what the files are.                                            *)
(***************************************************************************)
EXTENDS Transaction

View == [o \in Ops |-> IF LooksBefore(o, file[o]) THEN "before"
                       ELSE IF LooksAfter(o, file[o]) THEN "after" ELSE "between"]

Outcome ==
  IF \E h \in Present : Sealed(h) /\ FinalOf(h) = "applied" THEN "commit"
  ELSE IF \E h \in Present : Sealed(h) THEN "abort"
  ELSE IF Present # {} \/ pc \in {"start", "create"} THEN "open"
  ELSE IF \A o \in Ops : LooksAfter(o, file[o]) THEN "commit" ELSE "abort"

Abstract == INSTANCE AtomicCommit WITH Items <- Ops, view <- View, decision <- Outcome

\* No process is killed while a journal is between its two names: see
\* InterruptionKeepsJournal for what happens then.  Fairness as in FairSpec.
NamedSpec == /\ Init /\ [][Next /\ "journal" \notin windows']_vars
             /\ WF_vars(Process) /\ WF_vars(Recover)

\* The file changes of all homes take effect as one atomic commit or abort:
\* across kills at any other point, system calls that raise and any number of
\* recoveries, the outcome is decided once, when all files agree, and no file
\* changes after it.
ImplementsAtomicCommit == Abstract!ACSpec
=============================================================================
