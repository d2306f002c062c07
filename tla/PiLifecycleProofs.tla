-------------------------- MODULE PiLifecycleProofs --------------------------
(***************************************************************************)
(* What the installer claims, removes and reports of the external package, *)
(* for whatever settings.json may hold, and for any number of invocations, *)
(* kills, orphaned commands, releases and steps of the user.               *)
(***************************************************************************)
EXTENDS PiLifecycle, TLAPS

\* What an invocation that has planned nothing knows of a package.
Planless == pc \in {"idle", "done", "recover", "plan"}
\* The phases only an installation goes through, and only a removal.
InstallPhases == {"external", "verify", "postcondition", "package", "catalog",
                  "store", "stored", "record"}
RemovePhases == {"removal", "removed", "unrecord"}

\* A command runs while its installer waits for it, and is the planned one;
\* what is planned is what was asked for.
Phase ==
  /\ command # "none" => pc = "wait" /\ command = plan.action
  /\ Planless => plan.action = "none" /\ drawn = NoReceipt
  /\ ~Planless /\ Installing => plan.action # "remove"
  /\ ~Planless /\ ~Installing =>
       plan.action = (IF request.remove THEN "remove" ELSE "none")
  /\ pc \in InstallPhases => Installing
  /\ pc \in RemovePhases => ~Installing /\ request.remove
  /\ pc = "external" => plan.action = "install"
  /\ pc \in {"spawn", "start", "wait"} => plan.action # "none"
  /\ pc = "wait" => command = plan.action
  /\ pc \in {"spawn", "start", "wait", "verify"} => snapshot \in Evidences
  /\ pc = "probe" /\ ~Installing => request.remove
  /\ pc = "applying" => journal \in Journals
  /\ ~orphaned => orphans = {}

\* Whoever has a receipt, or is about to remove, has it from a command that
\* succeeded.
Owned ==
  /\ receipt # NoReceipt => ran /\ receipt.after.entry = "pinned"
  /\ drawn # NoReceipt => ran /\ drawn.after.entry = "pinned"
  /\ pc = "verify" => ran
  /\ plan.action = "remove" => ran
  /\ "remove" \in {command} \cup orphans => ran

\* Where the package was there before, no command is ever planned.
Kept ==
  mine /\ touches = 0 =>
    /\ Status(Evidence) = "exact" /\ receipt = NoReceipt /\ drawn = NoReceipt
    /\ ~ran /\ plan.action = "none" /\ command = "none" /\ orphans = {}

\* TypeOK in two parts: the data, and the flags.
TypeData ==
  /\ settings \in Settings /\ store \in Stores
  /\ receipt \in Receipts \cup {NoReceipt}
  /\ drawn \in Receipts \cup {NoReceipt}
  /\ local \in Locals /\ journal \in Journals \cup {NoJournal}
  /\ command \in Actions /\ orphans \subseteq {"install", "remove"}
  /\ pc \in Phases /\ request \in Requests
  /\ plan.action \in Actions /\ plan.before \in Evidences \cup {NoEvidence}
  /\ snapshot \in Evidences \cup {NoEvidence}
  /\ package \in Evidences \cup {NoEvidence}
  /\ exit \in {0, 3, 4, 5, 6, 7, 8} /\ touches \in 0 .. MaxTouches
OtherFlags ==
  /\ edited \in BOOLEAN /\ orphaned \in BOOLEAN
  /\ ran \in BOOLEAN /\ mine \in BOOLEAN
TypeFlags == plan.conflicts \in BOOLEAN /\ OtherFlags

OwnInv == TypeOK /\ Phase /\ Owned /\ Kept

-----------------------------------------------------------------------------
\* What an exact package is, and what is absent.
LEMMA StatusIs ==
  ASSUME NEW e
  PROVE  /\ Status(e) = "exact" <=> /\ e.settings.rest \notin Unsafe
                                    /\ e.settings.entry = "pinned" /\ e.store = "exact"
         /\ Status(e) = "absent" <=> /\ e.settings.rest \notin Unsafe
                                     /\ e.settings.entry = "none" /\ e.store = "none"
BY DEF Status

LEMMA EvidenceTyped == TypeData => Evidence \in Evidences
BY DEF TypeData, Evidence, Evidences

LEMMA TypeIs == TypeOK <=> TypeData /\ TypeFlags
BY DEF TypeOK, TypeData, TypeFlags, OtherFlags

-----------------------------------------------------------------------------
LEMMA InitOwns == Init => OwnInv
<1> SUFFICES ASSUME Init PROVE OwnInv
  OBVIOUS
<1>1. TypeData
  BY RestsAssumption DEF Init, TypeData, Phases, NoPlan, Actions, Requests,
      Locals
<1>2. TypeFlags
  <2>1. plan.conflicts = FALSE
    BY DEF Init, NoPlan
  <2>2. mine \in BOOLEAN
    BY DEF Init
  <2> QED
    BY <2>1, <2>2 DEF Init, TypeFlags, OtherFlags
<1>3. Phase /\ Owned /\ Kept
  BY StatusIs DEF Init, Phase, Planless, Owned, Kept, InstallPhases,
      RemovePhases, NoPlan
<1> QED
  BY <1>1, <1>2, <1>3, TypeIs DEF OwnInv

LEMMA TypeDataStep == TypeData /\ Phase /\ [Next]_vars => TypeData'
<1> SUFFICES ASSUME TypeData, Phase, [Next]_vars PROVE TypeData'
  OBVIOUS
<1> USE EvidenceTyped, RestsAssumption DEF TypeData, Phases, Actions, Ends,
    Goes, packageVars, localVars, handVars, history, NoPlan
<1>1. CASE \E r \in Requests: Begin(r)
  BY <1>1 DEF Begin
<1>2. CASE Recover
  BY <1>2 DEF Recover, Journals
<1>3. CASE PlanInstall
  BY <1>3 DEF PlanInstall, Planned
<1>4. CASE PlanUninstall
  BY <1>4 DEF PlanUninstall, Planned
<1>5. CASE Probe
  BY <1>5 DEF Probe
<1>6. CASE External
  BY <1>6 DEF External
<1>7. CASE Removal
  BY <1>7 DEF Removal
<1>8. CASE Spawn
  BY <1>8 DEF Spawn
<1>9. CASE Start
  BY <1>9 DEF Start
<1>10. CASE Timeout
  BY <1>10 DEF Timeout
<1>11. CASE Exited
  BY <1>11 DEF Exited
<1>12. CASE Verify
  BY <1>12 DEF Verify, Receipts, Evidences, Phase, Stores, Settings
<1>13. CASE Postcondition
  BY <1>13 DEF Postcondition
<1>14. CASE Package
  BY <1>14 DEF Package
<1>15. CASE Catalog
  BY <1>15 DEF Catalog
<1>16. CASE Store
  BY <1>16 DEF Store
<1>17. CASE Stored
  BY <1>17 DEF Stored
<1>18. CASE Record
  BY <1>18 DEF Record
<1>19. CASE Apply
  BY <1>19 DEF Apply, Target, Locals, Journals
<1>20. CASE Applied
  BY <1>20 DEF Applied, Phase, Journals
<1>21. CASE Local
  BY <1>21 DEF Local
<1>22. CASE Removed
  BY <1>22 DEF Removed
<1>23. CASE Unrecord
  BY <1>23 DEF Unrecord
<1>24. CASE Raise
  BY <1>24 DEF Raise, Raising
<1>25. CASE Return
  BY <1>25 DEF Return
<1>26. CASE Kill
  BY <1>26 DEF Kill
<1>27. CASE Command
  BY <1>27 DEF Command, Works, Settings, Entries, Stores
<1>28. CASE OrphanExits
  BY <1>28 DEF OrphanExits
<1>29. CASE Touch
  BY <1>29 DEF Touch, Settings, Entries, Stores
<1>30. CASE Edit
  BY <1>30 DEF Edit
<1>31. CASE NewRelease
  BY <1>31 DEF NewRelease, Locals
<1>32. CASE UNCHANGED vars
  BY <1>32 DEF vars
<1> QED
  BY <1>1, <1>2, <1>3, <1>4, <1>5, <1>6, <1>7, <1>8, <1>9, <1>10, <1>11, <1>12,
     <1>13, <1>14, <1>15, <1>16, <1>17, <1>18, <1>19, <1>20, <1>21, <1>22,
     <1>23, <1>24, <1>25, <1>26, <1>27, <1>28, <1>29, <1>30, <1>31, <1>32
     DEF Next, Proceed, Others

\* A plan is kept, dropped, or made of what is there.
LEMMA PlanStep == [Next]_vars => \/ plan' = plan \/ plan' = NoPlan
                        \/ plan' = [action |-> plan'.action, before |-> Evidence,
                                    conflicts |-> Drifted]
<1> SUFFICES ASSUME [Next]_vars PROVE \/ plan' = plan \/ plan' = NoPlan
                        \/ plan' = [action |-> plan'.action, before |-> Evidence,
                                    conflicts |-> Drifted]
  OBVIOUS
<1> USE DEF Ends, Goes, packageVars, localVars, handVars, history, NoPlan
<1>1. CASE \E r \in Requests: Begin(r)
  BY <1>1 DEF Begin
<1>2. CASE Recover
  BY <1>2 DEF Recover
<1>3. CASE PlanInstall
  BY <1>3 DEF PlanInstall, Planned
<1>4. CASE PlanUninstall
  BY <1>4 DEF PlanUninstall, Planned
<1>5. CASE Probe
  BY <1>5 DEF Probe
<1>6. CASE External
  BY <1>6 DEF External
<1>7. CASE Removal
  BY <1>7 DEF Removal
<1>8. CASE Spawn
  BY <1>8 DEF Spawn
<1>9. CASE Start
  BY <1>9 DEF Start
<1>10. CASE Timeout
  BY <1>10 DEF Timeout
<1>11. CASE Exited
  BY <1>11 DEF Exited
<1>12. CASE Verify
  BY <1>12 DEF Verify
<1>13. CASE Postcondition
  BY <1>13 DEF Postcondition
<1>14. CASE Package
  BY <1>14 DEF Package
<1>15. CASE Catalog
  BY <1>15 DEF Catalog
<1>16. CASE Store
  BY <1>16 DEF Store
<1>17. CASE Stored
  BY <1>17 DEF Stored
<1>18. CASE Record
  BY <1>18 DEF Record
<1>19. CASE Apply
  BY <1>19 DEF Apply
<1>20. CASE Applied
  BY <1>20 DEF Applied
<1>21. CASE Local
  BY <1>21 DEF Local
<1>22. CASE Removed
  BY <1>22 DEF Removed
<1>23. CASE Unrecord
  BY <1>23 DEF Unrecord
<1>24. CASE Raise
  BY <1>24 DEF Raise, Raising
<1>25. CASE Return
  BY <1>25 DEF Return
<1>26. CASE Kill
  BY <1>26 DEF Kill
<1>27. CASE Command
  BY <1>27 DEF Command, Works
<1>28. CASE OrphanExits
  BY <1>28 DEF OrphanExits
<1>29. CASE Touch
  BY <1>29 DEF Touch
<1>30. CASE Edit
  BY <1>30 DEF Edit
<1>31. CASE NewRelease
  BY <1>31 DEF NewRelease
<1>32. CASE UNCHANGED vars
  BY <1>32 DEF vars
<1> QED
  BY <1>1, <1>2, <1>3, <1>4, <1>5, <1>6, <1>7, <1>8, <1>9, <1>10, <1>11, <1>12,
     <1>13, <1>14, <1>15, <1>16, <1>17, <1>18, <1>19, <1>20, <1>21, <1>22,
     <1>23, <1>24, <1>25, <1>26, <1>27, <1>28, <1>29, <1>30, <1>31, <1>32
     DEF Next, Proceed, Others

LEMMA FlagsStep == OtherFlags /\ [Next]_vars => OtherFlags'
<1> SUFFICES ASSUME OtherFlags, [Next]_vars PROVE OtherFlags'
  OBVIOUS
<1> USE DEF OtherFlags, Ends, Goes, packageVars, localVars, handVars, history,
    NoPlan
<1>1. CASE \E r \in Requests: Begin(r)
  BY <1>1 DEF Begin
<1>2. CASE Recover
  BY <1>2 DEF Recover
<1>3. CASE PlanInstall
  BY <1>3 DEF PlanInstall
<1>4. CASE PlanUninstall
  BY <1>4 DEF PlanUninstall
<1>5. CASE Probe
  BY <1>5 DEF Probe
<1>6. CASE External
  BY <1>6 DEF External
<1>7. CASE Removal
  BY <1>7 DEF Removal
<1>8. CASE Spawn
  BY <1>8 DEF Spawn
<1>9. CASE Start
  BY <1>9 DEF Start
<1>10. CASE Timeout
  BY <1>10 DEF Timeout
<1>11. CASE Exited
  BY <1>11 DEF Exited
<1>12. CASE Verify
  BY <1>12 DEF Verify
<1>13. CASE Postcondition
  BY <1>13 DEF Postcondition
<1>14. CASE Package
  BY <1>14 DEF Package
<1>15. CASE Catalog
  BY <1>15 DEF Catalog
<1>16. CASE Store
  BY <1>16 DEF Store
<1>17. CASE Stored
  BY <1>17 DEF Stored
<1>18. CASE Record
  BY <1>18 DEF Record
<1>19. CASE Apply
  BY <1>19 DEF Apply, Target
<1>20. CASE Applied
  BY <1>20 DEF Applied
<1>21. CASE Local
  BY <1>21 DEF Local
<1>22. CASE Removed
  BY <1>22 DEF Removed
<1>23. CASE Unrecord
  BY <1>23 DEF Unrecord
<1>24. CASE Raise
  BY <1>24 DEF Raise, Raising
<1>25. CASE Return
  BY <1>25 DEF Return
<1>26. CASE Kill
  BY <1>26 DEF Kill
<1>27. CASE Command
  BY <1>27 DEF Command, Works
<1>28. CASE OrphanExits
  BY <1>28 DEF OrphanExits
<1>29. CASE Touch
  BY <1>29 DEF Touch
<1>30. CASE Edit
  BY <1>30 DEF Edit
<1>31. CASE NewRelease
  BY <1>31 DEF NewRelease
<1>32. CASE UNCHANGED vars
  BY <1>32 DEF vars
<1> QED
  BY <1>1, <1>2, <1>3, <1>4, <1>5, <1>6, <1>7, <1>8, <1>9, <1>10, <1>11, <1>12,
     <1>13, <1>14, <1>15, <1>16, <1>17, <1>18, <1>19, <1>20, <1>21, <1>22,
     <1>23, <1>24, <1>25, <1>26, <1>27, <1>28, <1>29, <1>30, <1>31, <1>32
     DEF Next, Proceed, Others

LEMMA TypeFlagsStep == TypeFlags /\ [Next]_vars => TypeFlags'
<1> SUFFICES ASSUME TypeFlags, [Next]_vars PROVE TypeFlags'
  OBVIOUS
<1>1. OtherFlags'
  BY FlagsStep DEF TypeFlags, OtherFlags
<1>2. CASE plan' = plan
  BY <1>1, <1>2 DEF TypeFlags, OtherFlags
<1>3. CASE plan' = NoPlan
  <2>1. plan'.conflicts = FALSE
    BY <1>3 DEF NoPlan
  <2> QED
    BY <1>1, <2>1 DEF TypeFlags, OtherFlags
<1>4. CASE plan' = [action |-> plan'.action, before |-> Evidence, conflicts |-> Drifted]
  <2>1. plan'.conflicts = Drifted
    BY <1>4
  <2>2. Drifted \in BOOLEAN
    BY DEF Drifted
  <2> QED
    BY <1>1, <2>1, <2>2 DEF TypeFlags, OtherFlags
<1> QED
  BY PlanStep, <1>2, <1>3, <1>4

LEMMA PhaseStep == TypeData /\ Phase /\ [Next]_vars => Phase'
<1> SUFFICES ASSUME TypeData, Phase, [Next]_vars PROVE Phase'
  OBVIOUS
<1> USE EvidenceTyped DEF Phase, Planless, InstallPhases, RemovePhases,
    Installing, Actions, Ends, Goes, packageVars, localVars, handVars, history,
    NoPlan
<1>1. CASE \E r \in Requests: Begin(r)
  BY <1>1 DEF Begin, Requests
<1>2. CASE Recover
  BY <1>2 DEF Recover, NoJournal, Journals
<1>3. CASE PlanInstall
  BY <1>3 DEF PlanInstall, Planned
<1>4. CASE PlanUninstall
  BY <1>4 DEF PlanUninstall, Planned
<1>5. CASE Probe
  BY <1>5 DEF Probe
<1>6. CASE External
  BY <1>6 DEF External, TypeData
<1>7. CASE Removal
  BY <1>7 DEF Removal, TypeData
<1>8. CASE Spawn
  BY <1>8 DEF Spawn
<1>9. CASE Start
  BY <1>9 DEF Start, TypeData
<1>10. CASE Timeout
  BY <1>10 DEF Timeout
<1>11. CASE Exited
  BY <1>11 DEF Exited, TypeData
<1>12. CASE Verify
  BY <1>12 DEF Verify, TypeData
<1>13. CASE Postcondition
  BY <1>13 DEF Postcondition
<1>14. CASE Package
  BY <1>14 DEF Package
<1>15. CASE Catalog
  BY <1>15 DEF Catalog
<1>16. CASE Store
  BY <1>16 DEF Store
<1>17. CASE Stored
  BY <1>17 DEF Stored
<1>18. CASE Record
  BY <1>18 DEF Record
<1>19. CASE Apply
  BY <1>19 DEF Apply, TypeData, Journals, Locals, Target
<1>20. CASE Applied
  BY <1>20 DEF Applied
<1>21. CASE Local
  BY <1>21 DEF Local
<1>22. CASE Removed
  BY <1>22 DEF Removed
<1>23. CASE Unrecord
  BY <1>23 DEF Unrecord
<1>24. CASE Raise
  BY <1>24 DEF Raise, Raising
<1>25. CASE Return
  BY <1>25 DEF Return
<1>26. CASE Kill
  BY <1>26 DEF Kill, TypeData
<1>27. CASE Command
  BY <1>27 DEF Command, Works
<1>28. CASE OrphanExits
  BY <1>28 DEF OrphanExits, TypeData
<1>29. CASE Touch
  BY <1>29 DEF Touch
<1>30. CASE Edit
  BY <1>30 DEF Edit
<1>31. CASE NewRelease
  BY <1>31 DEF NewRelease
<1>32. CASE UNCHANGED vars
  BY <1>32 DEF vars
<1> QED
  BY <1>1, <1>2, <1>3, <1>4, <1>5, <1>6, <1>7, <1>8, <1>9, <1>10, <1>11, <1>12,
     <1>13, <1>14, <1>15, <1>16, <1>17, <1>18, <1>19, <1>20, <1>21, <1>22,
     <1>23, <1>24, <1>25, <1>26, <1>27, <1>28, <1>29, <1>30, <1>31, <1>32
     DEF Next, Proceed, Others

LEMMA OwnedStep == TypeData /\ Phase /\ Owned /\ [Next]_vars => Owned'
<1> SUFFICES ASSUME TypeData, Phase, Owned, [Next]_vars PROVE Owned'
  OBVIOUS
<1> USE StatusIs DEF Owned, Installing, Ends, Goes, packageVars, localVars,
    handVars, history, NoPlan
<1>1. CASE \E r \in Requests: Begin(r)
  BY <1>1 DEF Begin
<1>2. CASE Recover
  BY <1>2 DEF Recover
<1>3. CASE PlanInstall
  BY <1>3 DEF PlanInstall, Planned
<1>4. CASE PlanUninstall
  BY <1>4 DEF PlanUninstall, Planned, Current
<1>5. CASE Probe
  BY <1>5 DEF Probe
<1>6. CASE External
  BY <1>6 DEF External
<1>7. CASE Removal
  BY <1>7 DEF Removal
<1>8. CASE Spawn
  BY <1>8 DEF Spawn
<1>9. CASE Start
  BY <1>9 DEF Start, Phase
<1>10. CASE Timeout
  BY <1>10 DEF Timeout
<1>11. CASE Exited
  <2>1. /\ ran => ran'
        /\ pc' = "verify" => ran'
    BY <1>11 DEF Exited
  <2>2. /\ receipt' = receipt /\ (drawn' = drawn \/ drawn' = NoReceipt)
        /\ (plan' = plan \/ plan' = NoPlan) /\ orphans' = orphans /\ command' = "none"
    BY <1>11 DEF Exited
  <2> QED
    BY <2>1, <2>2
<1>12. CASE Verify
  BY <1>12 DEF Verify, Evidence, Phase, InstallPhases
<1>13. CASE Postcondition
  BY <1>13 DEF Postcondition
<1>14. CASE Package
  BY <1>14 DEF Package
<1>15. CASE Catalog
  BY <1>15 DEF Catalog
<1>16. CASE Store
  BY <1>16 DEF Store
<1>17. CASE Stored
  BY <1>17 DEF Stored
<1>18. CASE Record
  BY <1>18 DEF Record
<1>19. CASE Apply
  BY <1>19 DEF Apply
<1>20. CASE Applied
  BY <1>20 DEF Applied
<1>21. CASE Local
  BY <1>21 DEF Local
<1>22. CASE Removed
  BY <1>22 DEF Removed
<1>23. CASE Unrecord
  BY <1>23 DEF Unrecord
<1>24. CASE Raise
  BY <1>24 DEF Raise, Raising
<1>25. CASE Return
  BY <1>25 DEF Return
<1>26. CASE Kill
  BY <1>26 DEF Kill
<1>27. CASE Command
  BY <1>27 DEF Command, Works
<1>28. CASE OrphanExits
  BY <1>28 DEF OrphanExits
<1>29. CASE Touch
  BY <1>29 DEF Touch
<1>30. CASE Edit
  BY <1>30 DEF Edit
<1>31. CASE NewRelease
  BY <1>31 DEF NewRelease
<1>32. CASE UNCHANGED vars
  BY <1>32 DEF vars
<1> QED
  BY <1>1, <1>2, <1>3, <1>4, <1>5, <1>6, <1>7, <1>8, <1>9, <1>10, <1>11, <1>12,
     <1>13, <1>14, <1>15, <1>16, <1>17, <1>18, <1>19, <1>20, <1>21, <1>22,
     <1>23, <1>24, <1>25, <1>26, <1>27, <1>28, <1>29, <1>30, <1>31, <1>32
     DEF Next, Proceed, Others

LEMMA KeptStep == TypeData /\ Phase /\ Owned /\ Kept /\ [Next]_vars => Kept'
<1> SUFFICES ASSUME TypeData, Phase, Owned, Kept, [Next]_vars PROVE Kept'
  OBVIOUS
<1> USE StatusIs DEF Kept, Installing, Evidence, Ends, Goes, packageVars,
    localVars, handVars, history, NoPlan
<1>1. CASE \E r \in Requests: Begin(r)
  BY <1>1 DEF Begin
<1>2. CASE Recover
  BY <1>2 DEF Recover
<1>3. CASE PlanInstall
  BY <1>3 DEF PlanInstall, Planned
<1>4. CASE PlanUninstall
  BY <1>4 DEF PlanUninstall, Planned, Current
<1>5. CASE Probe
  BY <1>5 DEF Probe
<1>6. CASE External
  BY <1>6 DEF External
<1>7. CASE Removal
  BY <1>7 DEF Removal
<1>8. CASE Spawn
  BY <1>8 DEF Spawn
<1>9. CASE Start
  BY <1>9 DEF Start, Phase
<1>10. CASE Timeout
  BY <1>10 DEF Timeout, Phase
<1>11. CASE Exited
  BY <1>11 DEF Exited, Phase
<1>12. CASE Verify
  BY <1>12 DEF Verify, Owned
<1>13. CASE Postcondition
  BY <1>13 DEF Postcondition
<1>14. CASE Package
  BY <1>14 DEF Package
<1>15. CASE Catalog
  BY <1>15 DEF Catalog
<1>16. CASE Store
  BY <1>16 DEF Store, Phase
<1>17. CASE Stored
  BY <1>17 DEF Stored
<1>18. CASE Record
  BY <1>18 DEF Record
<1>19. CASE Apply
  BY <1>19 DEF Apply
<1>20. CASE Applied
  BY <1>20 DEF Applied
<1>21. CASE Local
  BY <1>21 DEF Local
<1>22. CASE Removed
  BY <1>22 DEF Removed
<1>23. CASE Unrecord
  BY <1>23 DEF Unrecord
<1>24. CASE Raise
  BY <1>24 DEF Raise, Raising
<1>25. CASE Return
  BY <1>25 DEF Return
<1>26. CASE Kill
  BY <1>26 DEF Kill, Phase
<1>27. CASE Command
  BY <1>27 DEF Command, Works
<1>28. CASE OrphanExits
  BY <1>28 DEF OrphanExits
<1>29. CASE Touch
  BY <1>29 DEF Touch, TypeData
<1>30. CASE Edit
  BY <1>30 DEF Edit
<1>31. CASE NewRelease
  BY <1>31 DEF NewRelease
<1>32. CASE UNCHANGED vars
  BY <1>32 DEF vars
<1> QED
  BY <1>1, <1>2, <1>3, <1>4, <1>5, <1>6, <1>7, <1>8, <1>9, <1>10, <1>11, <1>12,
     <1>13, <1>14, <1>15, <1>16, <1>17, <1>18, <1>19, <1>20, <1>21, <1>22,
     <1>23, <1>24, <1>25, <1>26, <1>27, <1>28, <1>29, <1>30, <1>31, <1>32
     DEF Next, Proceed, Others

-----------------------------------------------------------------------------
THEOREM Inductive == Spec => []OwnInv
<1>1. OwnInv /\ [Next]_vars => OwnInv'
  <2> SUFFICES ASSUME OwnInv, [Next]_vars PROVE OwnInv'
    OBVIOUS
  <2>1. TypeData /\ TypeFlags /\ Phase /\ Owned /\ Kept
    BY TypeIs DEF OwnInv
  <2>2. TypeData' /\ TypeFlags'
    BY <2>1, TypeDataStep, TypeFlagsStep
  <2>3. TypeOK'
    BY <2>2, Zenon DEF TypeOK, TypeData, TypeFlags, OtherFlags
  <2>4. Phase' /\ Owned' /\ Kept'
    BY <2>1, PhaseStep, OwnedStep, KeptStep
  <2> QED
    BY <2>3, <2>4 DEF OwnInv
<1> QED
  BY InitOwns, <1>1, PTL DEF Spec

\* Every variable holds a value of its kind, whatever settings.json may hold.
THEOREM TypeCorrect == Spec => []TypeOK
<1>1. OwnInv => TypeOK
  BY DEF OwnInv
<1> QED
  BY Inductive, <1>1, PTL

\* A receipt is only ever about a package that a command of the installer put
\* there, no other package is removed, and one the user had before stays as it
\* is: for any number of invocations, kills and orphaned commands.
THEOREM OwnershipIsProved == Spec => []OwnershipProved
<1>1. OwnInv => OwnershipProved
  BY DEF OwnInv, Owned, Kept, OwnershipProved
<1> QED
  BY Inductive, <1>1, PTL

-----------------------------------------------------------------------------
(* The package and the managed file, while the user leaves Pi alone and no  *)
(* command has lost its installer.                                          *)

Alone == touches = 0 /\ ~orphaned
\* The managed file is there, or may be there once the journal is settled.
Present == local # "out" \/ (journal # NoJournal
                              /\ (journal.from # "out" \/ journal.to # "out"))

\* A file has its package; a command runs only where there is no file; and
\* a file is installed only beside a package.
Paired ==
  Alone =>
    /\ Present => Status(Evidence) = "exact"
    /\ plan.action # "none" /\ pc \notin {"apply", "applying", "local"} => ~Present
    /\ Installing /\ pc \in {"store", "stored", "record", "apply", "applying", "local"}
         => Status(Evidence) = "exact"

\* The local transaction makes what it was asked for.
Transacted ==
  /\ pc = "applying" =>
       /\ journal # NoJournal
       /\ Installing => journal.to = "in"
       /\ ~Installing /\ ~plan.conflicts => journal.to = "out"
  /\ pc = "local" =>
       /\ journal = NoJournal
       /\ Installing => local = "in"
       /\ ~Installing /\ ~plan.conflicts => local = "out"

\* The receipt goes only after the package, and success is reported last.
Ended ==
  /\ pc = "unrecord" /\ Alone => Status(Evidence) = "absent"
  /\ SuccessIsTrue

LEMMA PairedStep ==
  TypeData /\ Phase /\ Transacted /\ Paired /\ [Next]_vars => Paired'
<1> SUFFICES ASSUME TypeData, Phase, Transacted, Paired, [Next]_vars
             PROVE  Paired'
  OBVIOUS
<1> USE StatusIs DEF Paired, Alone, Present, Evidence, Installing, Ends, Goes,
    packageVars, localVars, handVars, history, NoPlan
<1>1. CASE \E r \in Requests: Begin(r)
  BY <1>1 DEF Begin, Phase
<1>2. CASE Recover
  BY <1>2 DEF Recover, Phase
<1>3. CASE PlanInstall
  BY <1>3 DEF PlanInstall, Planned
<1>4. CASE PlanUninstall
  BY <1>4 DEF PlanUninstall, Planned
<1>5. CASE Probe
  BY <1>5 DEF Probe, Phase
<1>6. CASE External
  BY <1>6 DEF External
<1>7. CASE Removal
  BY <1>7 DEF Removal
<1>8. CASE Spawn
  BY <1>8 DEF Spawn
<1>9. CASE Start
  BY <1>9 DEF Start
<1>10. CASE Timeout
  BY <1>10 DEF Timeout
<1>11. CASE Exited
  BY <1>11 DEF Exited
<1>12. CASE Verify
  BY <1>12 DEF Verify
<1>13. CASE Postcondition
  BY <1>13 DEF Postcondition
<1>14. CASE Package
  BY <1>14 DEF Package
<1>15. CASE Catalog
  BY <1>15 DEF Catalog, CatalogConflict, PackageConflict
<1>16. CASE Store
  BY <1>16 DEF Store
<1>17. CASE Stored
  BY <1>17 DEF Stored
<1>18. CASE Record
  BY <1>18 DEF Record
<1>19. CASE Apply
  BY <1>19 DEF Apply, Target, Phase
<1>20. CASE Applied
  BY <1>20 DEF Applied, Transacted
<1>21. CASE Local
  BY <1>21 DEF Local, Transacted
<1>22. CASE Removed
  BY <1>22 DEF Removed
<1>23. CASE Unrecord
  BY <1>23 DEF Unrecord
<1>24. CASE Raise
  BY <1>24 DEF Raise, Raising
<1>25. CASE Return
  BY <1>25 DEF Return
<1>26. CASE Kill
  BY <1>26 DEF Kill, Phase
<1>27. CASE Command
  BY <1>27 DEF Command, Works, Phase
<1>28. CASE OrphanExits
  BY <1>28 DEF OrphanExits, Phase
<1>29. CASE Touch
  BY <1>29 DEF Touch, TypeData
<1>30. CASE Edit
  BY <1>30 DEF Edit
<1>31. CASE NewRelease
  BY <1>31 DEF NewRelease, Phase
<1>32. CASE UNCHANGED vars
  BY <1>32 DEF vars
<1> QED
  BY <1>1, <1>2, <1>3, <1>4, <1>5, <1>6, <1>7, <1>8, <1>9, <1>10, <1>11, <1>12,
     <1>13, <1>14, <1>15, <1>16, <1>17, <1>18, <1>19, <1>20, <1>21, <1>22,
     <1>23, <1>24, <1>25, <1>26, <1>27, <1>28, <1>29, <1>30, <1>31, <1>32
     DEF Next, Proceed, Others

LEMMA TransactedStep ==
  TypeData /\ Phase /\ Transacted /\ [Next]_vars => Transacted'
<1> SUFFICES ASSUME TypeData, Phase, Transacted, [Next]_vars PROVE Transacted'
  OBVIOUS
<1> USE DEF Transacted, Installing, Ends, Goes, packageVars, localVars,
    handVars, history, NoPlan
<1>1. CASE \E r \in Requests: Begin(r)
  BY <1>1 DEF Begin
<1>2. CASE Recover
  BY <1>2 DEF Recover
<1>3. CASE PlanInstall
  BY <1>3 DEF PlanInstall, Planned
<1>4. CASE PlanUninstall
  BY <1>4 DEF PlanUninstall, Planned
<1>5. CASE Probe
  BY <1>5 DEF Probe
<1>6. CASE External
  BY <1>6 DEF External
<1>7. CASE Removal
  BY <1>7 DEF Removal
<1>8. CASE Spawn
  BY <1>8 DEF Spawn
<1>9. CASE Start
  BY <1>9 DEF Start
<1>10. CASE Timeout
  BY <1>10 DEF Timeout
<1>11. CASE Exited
  BY <1>11 DEF Exited
<1>12. CASE Verify
  BY <1>12 DEF Verify
<1>13. CASE Postcondition
  BY <1>13 DEF Postcondition
<1>14. CASE Package
  BY <1>14 DEF Package
<1>15. CASE Catalog
  BY <1>15 DEF Catalog
<1>16. CASE Store
  BY <1>16 DEF Store
<1>17. CASE Stored
  BY <1>17 DEF Stored
<1>18. CASE Record
  BY <1>18 DEF Record
<1>19. CASE Apply
  <2>1. Target # "none"
    BY DEF TypeData, Locals, Target
  <2>2. CASE pc' = "applying"
    <3>1. journal' = [from |-> local, to |-> Target] /\ UNCHANGED <<plan, request>>
      BY <1>19, <2>2 DEF Apply
    <3>2. journal' # NoJournal /\ journal'.to = Target
      BY <3>1, <2>1 DEF NoJournal
    <3>3. Installing => Target = "in"
      BY DEF Target
    <3>4. ~Installing /\ ~plan.conflicts => Target = "out"
      BY DEF Target
    <3> QED
      BY <2>2, <3>1, <3>2, <3>3, <3>4
  <2>3. CASE pc' = "done"
    BY <2>3
  <2> QED
    BY <1>19, <2>2, <2>3 DEF Apply
<1>20. CASE Applied
  BY <1>20 DEF Applied
<1>21. CASE Local
  BY <1>21 DEF Local
<1>22. CASE Removed
  BY <1>22 DEF Removed
<1>23. CASE Unrecord
  BY <1>23 DEF Unrecord
<1>24. CASE Raise
  BY <1>24 DEF Raise, Raising
<1>25. CASE Return
  BY <1>25 DEF Return
<1>26. CASE Kill
  BY <1>26 DEF Kill
<1>27. CASE Command
  BY <1>27 DEF Command, Works
<1>28. CASE OrphanExits
  BY <1>28 DEF OrphanExits
<1>29. CASE Touch
  BY <1>29 DEF Touch
<1>30. CASE Edit
  BY <1>30 DEF Edit
<1>31. CASE NewRelease
  BY <1>31 DEF NewRelease
<1>32. CASE UNCHANGED vars
  BY <1>32 DEF vars
<1> QED
  BY <1>1, <1>2, <1>3, <1>4, <1>5, <1>6, <1>7, <1>8, <1>9, <1>10, <1>11, <1>12,
     <1>13, <1>14, <1>15, <1>16, <1>17, <1>18, <1>19, <1>20, <1>21, <1>22,
     <1>23, <1>24, <1>25, <1>26, <1>27, <1>28, <1>29, <1>30, <1>31, <1>32
     DEF Next, Proceed, Others

LEMMA EndedStep ==
  TypeData /\ Phase /\ Transacted /\ Paired /\ Ended /\ [Next]_vars => Ended'
<1> SUFFICES ASSUME TypeData, Phase, Transacted, Paired, Ended, [Next]_vars
             PROVE  Ended'
  OBVIOUS
<1> USE StatusIs DEF Ended, SuccessIsTrue, Alone, Evidence, Installing, Ends,
    Goes, packageVars, localVars, handVars, history, NoPlan
<1>1. CASE \E r \in Requests: Begin(r)
  BY <1>1 DEF Begin
<1>2. CASE Recover
  BY <1>2 DEF Recover
<1>3. CASE PlanInstall
  BY <1>3 DEF PlanInstall, Planned
<1>4. CASE PlanUninstall
  BY <1>4 DEF PlanUninstall, Planned
<1>5. CASE Probe
  BY <1>5 DEF Probe
<1>6. CASE External
  BY <1>6 DEF External
<1>7. CASE Removal
  BY <1>7 DEF Removal
<1>8. CASE Spawn
  BY <1>8 DEF Spawn
<1>9. CASE Start
  BY <1>9 DEF Start
<1>10. CASE Timeout
  BY <1>10 DEF Timeout
<1>11. CASE Exited
  BY <1>11 DEF Exited
<1>12. CASE Verify
  BY <1>12 DEF Verify
<1>13. CASE Postcondition
  BY <1>13 DEF Postcondition
<1>14. CASE Package
  BY <1>14 DEF Package
<1>15. CASE Catalog
  BY <1>15 DEF Catalog
<1>16. CASE Store
  BY <1>16 DEF Store
<1>17. CASE Stored
  BY <1>17 DEF Stored
<1>18. CASE Record
  BY <1>18 DEF Record
<1>19. CASE Apply
  BY <1>19 DEF Apply
<1>20. CASE Applied
  BY <1>20 DEF Applied
<1>21. CASE Local
  BY <1>21 DEF Local, Transacted, Paired, Phase, Planless
<1>22. CASE Removed
  BY <1>22 DEF Removed
<1>23. CASE Unrecord
  BY <1>23 DEF Unrecord, Phase, RemovePhases, Planless, Paired, Present
<1>24. CASE Raise
  BY <1>24 DEF Raise, Raising
<1>25. CASE Return
  BY <1>25 DEF Return
<1>26. CASE Kill
  BY <1>26 DEF Kill, Phase
<1>27. CASE Command
  BY <1>27 DEF Command, Works, Phase
<1>28. CASE OrphanExits
  BY <1>28 DEF OrphanExits
<1>29. CASE Touch
  BY <1>29 DEF Touch, TypeData
<1>30. CASE Edit
  BY <1>30 DEF Edit
<1>31. CASE NewRelease
  BY <1>31 DEF NewRelease
<1>32. CASE UNCHANGED vars
  BY <1>32 DEF vars
<1> QED
  BY <1>1, <1>2, <1>3, <1>4, <1>5, <1>6, <1>7, <1>8, <1>9, <1>10, <1>11, <1>12,
     <1>13, <1>14, <1>15, <1>16, <1>17, <1>18, <1>19, <1>20, <1>21, <1>22,
     <1>23, <1>24, <1>25, <1>26, <1>27, <1>28, <1>29, <1>30, <1>31, <1>32
     DEF Next, Proceed, Others

THEOREM PackagePaired == Spec => [](OwnInv /\ Paired /\ Transacted /\ Ended)
<1>1. Init => Paired /\ Transacted /\ Ended
  BY DEF Init, Paired, Transacted, Ended, SuccessIsTrue, Present, NoPlan
<1>2. OwnInv /\ Paired /\ Transacted /\ Ended /\ [Next]_vars
        => (Paired /\ Transacted /\ Ended)'
  BY PairedStep, TransactedStep, EndedStep, TypeIs DEF OwnInv
<1> QED
  BY Inductive, <1>1, <1>2, PTL DEF Spec

\* The managed file is never there without its package, as long as the user
\* leaves Pi alone and no command has lost its installer.
THEOREM FilesArePaired == Spec => []FilesHaveTheirPackage
<1>1. Paired => FilesHaveTheirPackage
  BY DEF Paired, Alone, Present, FilesHaveTheirPackage
<1> QED
  BY PackagePaired, <1>1, PTL

\* Under the same conditions, what a successful exit status says is so.
THEOREM SuccessIsReal == Spec => []SuccessIsTrue
<1>1. Ended => SuccessIsTrue
  BY DEF Ended
<1> QED
  BY PackagePaired, <1>1, PTL

\* Only the removal of the package takes a receipt away, and only after it.
THEOREM ReceiptIsLast == Spec => ReceiptOutlivesPackage
<1>1. TypeData /\ Ended /\ [Next]_vars =>
        [receipt # NoReceipt /\ receipt' = NoReceipt /\ touches' = 0 /\ ~orphaned
           /\ pc # "stored" => Status(Evidence) = "absent"]_vars
  <2> SUFFICES ASSUME TypeData, Ended, [Next]_vars, receipt # NoReceipt,
                      receipt' = NoReceipt, touches' = 0, ~orphaned, pc # "stored"
               PROVE  Status(Evidence) = "absent"
    OBVIOUS
  <2> USE DEF Ended, Alone, Ends, Goes, packageVars, localVars, handVars, history, NoPlan
  <2>1. CASE \E r \in Requests: Begin(r)
    BY <2>1 DEF Begin
  <2>2. CASE Recover
    BY <2>2 DEF Recover
  <2>3. CASE PlanInstall
    BY <2>3 DEF PlanInstall
  <2>4. CASE PlanUninstall
    BY <2>4 DEF PlanUninstall
  <2>5. CASE Probe
    BY <2>5 DEF Probe
  <2>6. CASE External
    BY <2>6 DEF External
  <2>7. CASE Removal
    BY <2>7 DEF Removal
  <2>8. CASE Spawn
    BY <2>8 DEF Spawn
  <2>9. CASE Start
    BY <2>9 DEF Start
  <2>10. CASE Timeout
    BY <2>10 DEF Timeout
  <2>11. CASE Exited
    BY <2>11 DEF Exited
  <2>12. CASE Verify
    BY <2>12 DEF Verify
  <2>13. CASE Postcondition
    BY <2>13 DEF Postcondition
  <2>14. CASE Package
    BY <2>14 DEF Package
  <2>15. CASE Catalog
    BY <2>15 DEF Catalog
  <2>16. CASE Store
    BY <2>16 DEF Store
  <2>17. CASE Stored
    BY <2>17 DEF Stored
  <2>18. CASE Record
    BY <2>18 DEF Record
  <2>19. CASE Apply
    BY <2>19 DEF Apply
  <2>20. CASE Applied
    BY <2>20 DEF Applied
  <2>21. CASE Local
    BY <2>21 DEF Local
  <2>22. CASE Removed
    BY <2>22 DEF Removed
  <2>23. CASE Unrecord
    BY <2>23 DEF Unrecord
  <2>24. CASE Raise
    BY <2>24 DEF Raise, Raising
  <2>25. CASE Return
    BY <2>25 DEF Return
  <2>26. CASE Kill
    BY <2>26 DEF Kill
  <2>27. CASE Command
    BY <2>27 DEF Command, Works
  <2>28. CASE OrphanExits
    BY <2>28 DEF OrphanExits
  <2>29. CASE Touch
    BY <2>29 DEF Touch, TypeData
  <2>30. CASE Edit
    BY <2>30 DEF Edit
  <2>31. CASE NewRelease
    BY <2>31 DEF NewRelease
  <2>32. CASE UNCHANGED vars
    BY <2>32 DEF vars
  <2> QED
    BY <2>1, <2>2, <2>3, <2>4, <2>5, <2>6, <2>7, <2>8, <2>9, <2>10, <2>11,
       <2>12, <2>13, <2>14, <2>15, <2>16, <2>17, <2>18, <2>19, <2>20, <2>21, <2>22,
       <2>23, <2>24, <2>25, <2>26, <2>27, <2>28, <2>29, <2>30, <2>31, <2>32
       DEF Next, Proceed, Others
<1>2. OwnInv => TypeData
  BY TypeIs DEF OwnInv
<1> QED
  BY PackagePaired, <1>1, <1>2, PTL DEF Spec, ReceiptOutlivesPackage

=============================================================================
