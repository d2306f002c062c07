----------------------------- MODULE PiLifecycle -----------------------------
(***************************************************************************)
(* The lifecycle of the external Pi package: what install and uninstall do *)
(* for the Pi target around the local transaction.  The package is         *)
(* installed and removed by another program, in a home the installer does  *)
(* not own, and is outside the journal; what the installer knows of it is  *)
(* what it sees and a receipt.                                             *)
(*                                                                         *)
(* Invocations on one home take turns (TargetLocks).  A command outlives   *)
(* an installer that is killed: it has a session of its own.  The user may *)
(* act at any moment.  The local transaction is that of AtomicCommit, with *)
(* one managed file.  The maintained matrix refuses every Pi request as    *)
(* yet; here the gate is one of the ways an invocation may end.            *)
(***************************************************************************)
EXTENDS Naturals, FiniteSets

CONSTANTS
  Rests,        \* what settings.json may hold beside the entry of the package
  Unsafe,       \* ... that the inspection refuses
  Overriding,   \* ... that the effective catalog reports as a conflict
  ProjectClean, \* whether the project root has no agents of its own
  MaxTouches,   \* how often the user steps in
  MaxOrphans    \* how many commands are without their installer at a time

ASSUME RestsAssumption ==
  /\ Unsafe \subseteq Rests /\ Overriding \subseteq Rests
  /\ ProjectClean \in BOOLEAN
  /\ MaxTouches \in Nat /\ MaxOrphans \in Nat

VARIABLES
  settings,  \* settings.json: the entry of the package, and the rest
  store,     \* npm/: directory, lock and manifest of the package
  receipt,   \* .subagents_configs/pi-package-receipt.json
  local,     \* the managed file: absent, current, or of an earlier release
  journal,   \* the journal of a local transaction that is not settled
  edited,    \* whether what the user has at the managed path is his own
  command,   \* the package command the installer waits for
  orphans,   \* package commands whose installer was killed
  pc, request, plan, snapshot, package, drawn, exit,
  touches,   \* how often the user has touched package, settings or receipt
  orphaned,  \* whether a command has lost its installer (history)
  ran,       \* whether an install command has reported success (history)
  mine       \* whether the package was there before the installer (history)

packageVars == <<settings, store>>
localVars == <<local, journal>>
handVars == <<plan, snapshot, package, drawn>>
history == <<touches, orphaned, ran, mine>>
vars == <<settings, store, receipt, local, journal, edited, command, orphans,
          pc, request, plan, snapshot, package, drawn, exit,
          touches, orphaned, ran, mine>>

-----------------------------------------------------------------------------
(* What the installer sees.                                                 *)

Entries == {"none", "pinned", "other"}
Stores == {"none", "partial", "exact"}
Settings == [entry : Entries, rest : Rests]
Evidences == [settings : Settings, store : Stores]

Evidence == [settings |-> settings, store |-> store]

\* _inspect_pi_package_state_snapshot; "unsafe" stands for the exception.
Status(e) ==
  CASE e.settings.rest \in Unsafe -> "unsafe"
    [] e.settings.rest \notin Unsafe /\ e.settings.entry = "none" /\ e.store = "none"
         -> "absent"
    [] e.settings.rest \notin Unsafe /\ e.settings.entry = "pinned" /\ e.store = "exact"
         -> "exact"
    [] OTHER -> "conflict"

Receipts == [before : Settings, after : Settings]
NoSettings == [entry |-> "nothing", rest |-> "nothing"]
NoReceipt == [before |-> NoSettings, after |-> NoSettings]
\* Mutant: a missing receipt is taken for one that holds.
CurrentWithoutReceipt(r, e) == Status(e) = "exact" /\ (r = NoReceipt \/ r.after = e.settings)
\* validate_pi_package_receipt: policy and manifest hashes are those of "exact".
Current(r, e) == /\ r # NoReceipt
                 /\ Status(e) = "exact"
                 /\ r.after = e.settings

\* inspect_effective_catalog reads everything again, and knows of more that is
\* in the way: settings that override or extend a role, other packages beside
\* the pinned one, a role file that is not of this release.
SettingsConflict == settings.rest \in Overriding
PackageConflict == Status(package) # "exact" \/ Status(Evidence) # "exact"
FileConflict == edited \/ local = "old"
CatalogConflict ==
  ~ProjectClean \/ SettingsConflict \/ PackageConflict \/ FileConflict

Locals == {"out", "in", "old"}
NoJournal == [from |-> "out", to |-> "none"]
Journals == [from : Locals, to : Locals]

Requests == [operation : {"install"}, remove : {FALSE}, consent : BOOLEAN]
            \cup [operation : {"uninstall"}, remove : BOOLEAN, consent : {FALSE}]
Installing == request.operation = "install"

NoEvidence == [settings |-> NoSettings, store |-> "none"]
Actions == {"none", "install", "remove"}
NoPlan == [action |-> "none", before |-> NoEvidence, conflicts |-> FALSE]

Init ==
  /\ \E s \in Settings, t \in Stores:
       /\ settings = s /\ store = t
       /\ Status(Evidence) \in {"absent", "exact"}
  /\ receipt = NoReceipt
  /\ local = "out" /\ journal = NoJournal /\ edited \in BOOLEAN
  /\ command = "none" /\ orphans = {}
  /\ pc = "idle" /\ exit = 0
  /\ request = [operation |-> "uninstall", remove |-> FALSE, consent |-> FALSE]
  /\ plan = NoPlan /\ snapshot = NoEvidence /\ package = NoEvidence
  /\ drawn = NoReceipt
  /\ touches = 0 /\ orphaned = FALSE /\ ran = FALSE
  /\ mine = (Status(Evidence) = "exact")

-----------------------------------------------------------------------------
(* One invocation.                                                          *)

\* _finish, _pi_phase_failure: what the invocation knew is gone.
Ends(status) ==
  /\ pc' = "done" /\ exit' = status
  /\ plan' = NoPlan /\ snapshot' = NoEvidence /\ package' = NoEvidence
  /\ drawn' = NoReceipt
Goes(to) == pc' = to /\ UNCHANGED exit

\* The request, the compatibility gate, and the lock of the home.
Begin(r) ==
  /\ pc = "idle"
  /\ request' = r
  /\ \/ Goes("recover") /\ UNCHANGED handVars
     \/ Ends(3)
  /\ UNCHANGED <<packageVars, receipt, localVars, edited, command, orphans, history>>

\* _recover_groups: the journal of an interrupted transaction is settled.
Recover ==
  /\ pc = "recover"
  /\ \/ /\ \/ journal = NoJournal /\ UNCHANGED local
           \/ journal # NoJournal /\ local' \in {journal.from, journal.to}
        /\ journal' = NoJournal
        /\ Goes("plan") /\ UNCHANGED handVars
     \/ /\ \E status \in {6, 8}: Ends(status)
        /\ UNCHANGED localVars
  /\ UNCHANGED <<packageVars, receipt, edited, command, orphans, request, history>>

\* A managed file that is not what was installed; a file of the user's at a
\* path nothing was installed at is no conflict here, but one of the catalog.
Drifted == edited /\ local # "out"
Planned(action) ==
  plan' = [action |-> action, before |-> Evidence, conflicts |-> Drifted]

\* preflight_install, _pi_external_plan, and what follows before any command.
PlanInstall ==
  /\ pc = "plan" /\ Installing
  /\ LET legible == /\ Status(Evidence) \in {"absent", "exact"}
                    /\ receipt = NoReceipt \/ Current(receipt, Evidence)
         action == IF Status(Evidence) = "exact" THEN "none" ELSE "install"
     IN \/ ~legible /\ Ends(3)
        \/ legible /\ Drifted /\ Ends(4)
        \/ legible /\ ~Drifted /\ action = "install" /\ ~request.consent /\ Ends(5)
        \/ /\ legible /\ ~Drifted /\ (action = "install" => request.consent)
           /\ Planned(action)
           /\ Goes("probe") /\ UNCHANGED <<snapshot, package, drawn>>
  /\ UNCHANGED <<packageVars, receipt, localVars, edited, command, orphans,
                 request, history>>

\* Mutant: the package goes before the local files.
PlanPackageFirst ==
  /\ pc = "plan" /\ ~Installing
  /\ request.remove => Current(receipt, Evidence)
  /\ Planned(IF request.remove THEN "remove" ELSE "none")
  /\ drawn' = IF request.remove THEN receipt ELSE NoReceipt
  /\ Goes(IF request.remove THEN "probe" ELSE "apply")
  /\ UNCHANGED <<packageVars, receipt, localVars, edited, command, orphans,
                 request, snapshot, package, history>>
\* preflight_uninstall: without --remove-pi-package nothing of Pi is looked at.
PlanUninstall ==
  /\ pc = "plan" /\ ~Installing
  /\ \/ request.remove /\ ~Current(receipt, Evidence) /\ Ends(3)
     \/ /\ request.remove => Current(receipt, Evidence)
        /\ Planned(IF request.remove THEN "remove" ELSE "none")
        /\ drawn' = IF request.remove THEN receipt ELSE NoReceipt
        /\ Goes("apply") /\ UNCHANGED <<snapshot, package>>
  /\ UNCHANGED <<packageVars, receipt, localVars, edited, command, orphans,
                 request, history>>

\* validate_pi_executable runs the program for its version and its help.
Probe ==
  /\ pc = "probe"
  /\ Goes(CASE ~Installing -> "removal"
            [] Installing /\ plan.action = "install" -> "external"
            [] OTHER -> "package")
  /\ UNCHANGED <<packageVars, receipt, localVars, edited, command, orphans, request,
                 handVars, history>>

\* install_pi_package_external up to its command.  With an exact package it
\* returns a receipt with operation "none", which no postcondition accepts.
External ==
  /\ pc = "external"
  /\ \/ /\ receipt = NoReceipt /\ Status(Evidence) = "absent"
        /\ snapshot' = Evidence
        /\ Goes("spawn") /\ UNCHANGED <<plan, package, drawn>>
     \/ ~(receipt = NoReceipt /\ Status(Evidence) = "absent") /\ Ends(5)
  /\ UNCHANGED <<packageVars, receipt, localVars, edited, command, orphans, request,
                 history>>

\* remove_pi_package up to its command.
Removal ==
  /\ pc = "removal"
  /\ \/ /\ receipt = drawn /\ Current(receipt, Evidence)
        /\ snapshot' = Evidence
        /\ Goes("spawn") /\ UNCHANGED <<plan, package, drawn>>
     \/ ~(receipt = drawn /\ Current(receipt, Evidence)) /\ Ends(5)
  /\ UNCHANGED <<packageVars, receipt, localVars, edited, command, orphans, request,
                 history>>

\* _bounded_spawn: the last look, and then the process.
Spawn ==
  /\ pc = "spawn"
  /\ \/ Evidence = snapshot /\ Goes("start") /\ UNCHANGED handVars
     \/ Evidence # snapshot /\ Ends(5)
  /\ UNCHANGED <<packageVars, receipt, localVars, edited, command, orphans, request,
                 history>>
Start ==
  /\ pc = "start"
  /\ command' = plan.action
  /\ Goes("wait")
  /\ UNCHANGED <<packageVars, receipt, localVars, edited, orphans, request, handVars,
                 history>>

\* Mutant: no look after the command of a removal.
ExitedUnchecked ==
  /\ pc = "wait"
  /\ command' = "none"
  /\ Goes(IF command = "install" THEN "verify" ELSE "unrecord")
  /\ ran' = (ran \/ command = "install")
  /\ UNCHANGED <<packageVars, receipt, localVars, edited, orphans, request, handVars,
                 touches, orphaned, mine>>
\* The process has ended within the deadline.
Exited ==
  /\ pc = "wait"
  /\ command' = "none"
  /\ \/ Ends(5) /\ UNCHANGED ran
     \/ /\ Goes(IF command = "install" THEN "verify" ELSE "removed")
        /\ ran' = (ran \/ command = "install")
        /\ UNCHANGED handVars
  /\ UNCHANGED <<packageVars, receipt, localVars, edited, orphans, request,
                 touches, orphaned, mine>>
\* Mutant: the group is killed, and then waited for without a bound.
TimeoutWithoutEnd ==
  /\ pc = "wait"
  /\ command' = "none"
  /\ UNCHANGED <<packageVars, receipt, localVars, edited, orphans, pc, request,
                 handVars, exit, history>>
\* The deadline has passed: the whole process group is killed.
Timeout ==
  /\ pc = "wait"
  /\ command' = "none"
  /\ Ends(5)
  /\ UNCHANGED <<packageVars, receipt, localVars, edited, orphans, request, history>>

\* The end of install_pi_package_external.
Verify ==
  /\ pc = "verify"
  /\ \/ /\ Status(Evidence) = "exact"
        /\ drawn' = [before |-> snapshot.settings, after |-> settings]
        /\ Goes("postcondition") /\ UNCHANGED <<plan, snapshot, package>>
     \/ Status(Evidence) # "exact" /\ Ends(5)
  /\ UNCHANGED <<packageVars, receipt, localVars, edited, command, orphans, request,
                 history>>

\* verify_pi_install_postcondition
Postcondition ==
  /\ pc = "postcondition"
  /\ LET holds == /\ Current(drawn, Evidence)
                  /\ drawn.before = plan.before.settings
     IN \/ holds /\ Goes("package") /\ UNCHANGED handVars
        \/ ~holds /\ Ends(5)
  /\ UNCHANGED <<packageVars, receipt, localVars, edited, command, orphans, request,
                 history>>

\* verify_pi_package_postcondition, with the evidence the rest relies on.
Package ==
  /\ pc = "package"
  /\ \/ /\ Status(Evidence) = "exact"
        /\ package' = Evidence
        /\ Goes("catalog") /\ UNCHANGED <<plan, snapshot, drawn>>
     \/ Status(Evidence) # "exact" /\ Ends(5)
  /\ UNCHANGED <<packageVars, receipt, localVars, edited, command, orphans, request,
                 history>>

\* verify_pi_effective_postcondition
Catalog ==
  /\ pc = "catalog"
  /\ \/ CatalogConflict /\ Ends(5)
     \/ /\ ~CatalogConflict
        /\ Goes(IF plan.action = "install" THEN "store" ELSE "apply")
        /\ UNCHANGED handVars
  /\ UNCHANGED <<packageVars, receipt, localVars, edited, command, orphans, request,
                 history>>

\* store_pi_package_receipt: one look, and a receipt where there is none.
Store ==
  /\ pc = "store"
  /\ LET holds == Evidence = package /\ Current(drawn, package) /\ receipt = NoReceipt
     IN \/ holds /\ receipt' = drawn /\ Goes("stored") /\ UNCHANGED handVars
        \/ ~holds /\ Ends(5) /\ UNCHANGED receipt
  /\ UNCHANGED <<packageVars, localVars, edited, command, orphans, request, history>>
\* A second look; when it fails the receipt is taken back, if that succeeds.
Stored ==
  /\ pc = "stored"
  /\ \/ receipt = drawn /\ Evidence = package
        /\ Goes("record") /\ UNCHANGED <<receipt, handVars>>
     \/ /\ receipt' \in {receipt, IF receipt = drawn THEN NoReceipt ELSE receipt}
        /\ Ends(5)
  /\ UNCHANGED <<packageVars, localVars, edited, command, orphans, request, history>>
\* The receipt and the package once more, now without taking anything back.
Record ==
  /\ pc = "record"
  /\ LET holds == receipt = drawn /\ Current(receipt, Evidence)
     IN \/ holds /\ Goes("apply") /\ UNCHANGED handVars
        \/ ~holds /\ Ends(5)
  /\ UNCHANGED <<packageVars, receipt, localVars, edited, command, orphans, request,
                 history>>

\* Mutant: what uninstall restores is "none" for "was not there".
TargetOfAbsence == IF Installing THEN "in" ELSE "none"
\* The local transaction: what it installs, or what it need not retain.
Target == IF Installing THEN "in" ELSE IF plan.conflicts THEN local ELSE "out"
Apply ==
  /\ pc = "apply"
  /\ \/ /\ journal' = [from |-> local, to |-> Target]
        /\ Goes("applying") /\ UNCHANGED handVars
     \/ Ends(5) /\ UNCHANGED journal
  /\ UNCHANGED <<packageVars, receipt, local, edited, command, orphans, request,
                 history>>
Applied ==
  /\ pc = "applying"
  /\ \/ /\ local' = journal.to /\ journal' = NoJournal
        /\ Goes("local") /\ UNCHANGED handVars
     \/ Ends(5) /\ journal' = NoJournal /\ UNCHANGED local
     \/ (\E status \in {5, 6}: Ends(status)) /\ UNCHANGED localVars
  /\ UNCHANGED <<packageVars, receipt, edited, command, orphans, request, history>>

\* After the local phase: done, unresolved, or the package is next.
Local ==
  /\ pc = "local"
  /\ \/ Installing /\ Ends(0)
     \/ ~Installing /\ plan.conflicts /\ (\E status \in {3, 7}: Ends(status))
     \/ ~Installing /\ ~plan.conflicts /\ plan.action = "none" /\ Ends(0)
     \/ /\ ~Installing /\ ~plan.conflicts /\ plan.action = "remove"
        /\ Goes("probe") /\ UNCHANGED handVars
  /\ UNCHANGED <<packageVars, receipt, localVars, edited, command, orphans, request,
                 history>>

\* Mutant: no look after the removal.
RemovedUnchecked ==
  /\ pc = "removed"
  /\ Goes("unrecord")
  /\ UNCHANGED <<packageVars, receipt, localVars, edited, command, orphans, request,
                 handVars, history>>
\* The end of remove_pi_package: the package is gone, and then the receipt.
Removed ==
  /\ pc = "removed"
  /\ \/ Status(Evidence) = "absent" /\ Goes("unrecord") /\ UNCHANGED handVars
     \/ Status(Evidence) # "absent" /\ Ends(5)
  /\ UNCHANGED <<packageVars, receipt, localVars, edited, command, orphans, request,
                 history>>
Unrecord ==
  /\ pc = "unrecord"
  /\ \/ receipt = drawn /\ receipt' = NoReceipt /\ Ends(0)
     \/ receipt # drawn /\ Ends(5) /\ UNCHANGED receipt
  /\ UNCHANGED <<packageVars, localVars, edited, command, orphans, request, history>>

\* Every call may fail; so may the checks around a command, after it has run.
Raising == {"probe", "external", "removal", "spawn", "start", "verify",
            "postcondition", "package", "catalog", "store", "record",
            "removed", "unrecord"}
Raise ==
  /\ \/ pc = "plan" /\ (\E status \in {3, 8}: Ends(status))
     \/ pc \in Raising /\ Ends(5)
  /\ UNCHANGED <<packageVars, receipt, localVars, edited, command, orphans, request,
                 history>>

\* The process ends, and its lock with it.
Return ==
  /\ pc = "done"
  /\ Goes("idle")
  /\ UNCHANGED <<packageVars, receipt, localVars, edited, command, orphans, request,
                 handVars, history>>

\* The installer is killed; a command that runs stays behind.
Kill ==
  /\ pc \notin {"idle", "done"}
  /\ command # "none" => Cardinality(orphans) < MaxOrphans /\ command \notin orphans
  /\ pc' = "idle" /\ exit' = 0
  /\ plan' = NoPlan /\ snapshot' = NoEvidence /\ package' = NoEvidence
  /\ drawn' = NoReceipt
  /\ orphans' = orphans \cup ({command} \ {"none"})
  /\ command' = "none"
  /\ orphaned' = (orphaned \/ command # "none")
  /\ UNCHANGED <<packageVars, receipt, localVars, edited, request, touches, ran, mine>>

-----------------------------------------------------------------------------
(* Everyone else.                                                           *)

\* One step of pi install or of pi remove, alone or behind its installer.
Works(kind) ==
  \/ /\ kind = "install"
     /\ \/ /\ store # "exact"
           /\ store' = IF store = "none" THEN "partial" ELSE "exact"
           /\ UNCHANGED settings
        \/ /\ settings.entry # "pinned"
           /\ settings' = [settings EXCEPT !.entry = "pinned"] /\ UNCHANGED store
  \/ /\ kind = "remove"
     /\ \/ /\ store # "none"
           /\ store' = IF store = "exact" THEN "partial" ELSE "none"
           /\ UNCHANGED settings
        \/ /\ settings.entry # "none"
           /\ settings' = [settings EXCEPT !.entry = "none"] /\ UNCHANGED store
Command ==
  /\ \E kind \in {command} \cup orphans: Works(kind)
  /\ UNCHANGED <<receipt, localVars, edited, command, orphans, pc, request, handVars,
                 exit, history>>
OrphanExits ==
  /\ \E kind \in orphans: orphans' = orphans \ {kind}
  /\ UNCHANGED <<packageVars, receipt, localVars, edited, command, pc, request,
                 handVars, exit, history>>

\* The user runs Pi, edits its settings, or deletes the receipt.
Touch ==
  /\ touches < MaxTouches /\ touches' = touches + 1
  /\ \/ /\ \E entry \in Entries, t \in {"none", "exact"}:
             /\ (entry = "none") = (t = "none")
             /\ store' = t
             /\ settings' = [settings EXCEPT !.entry = entry]
        /\ UNCHANGED receipt
     \/ /\ \E rest \in Rests: settings' = [settings EXCEPT !.rest = rest]
        /\ UNCHANGED <<store, receipt>>
     \/ receipt' = NoReceipt /\ UNCHANGED packageVars
  /\ UNCHANGED <<localVars, edited, command, orphans, pc, request, handVars, exit,
                 orphaned, ran, mine>>
\* The user edits the managed file, or puts back what was there.
Edit ==
  /\ edited' = ~edited
  /\ UNCHANGED <<packageVars, receipt, localVars, command, orphans, pc, request,
                 handVars, exit, history>>
\* A new release of the sources, between two invocations.
NewRelease ==
  /\ pc = "idle" /\ journal = NoJournal /\ local = "in"
  /\ local' = "old"
  /\ UNCHANGED <<packageVars, receipt, journal, edited, command, orphans, pc, request,
                 handVars, exit, history>>

\* All that depends on the installer alone; when a command ends does not.
Proceed ==
  \/ Recover \/ PlanInstall \/ PlanUninstall \/ Probe \/ External \/ Removal
  \/ Spawn \/ Start \/ Timeout \/ Verify \/ Postcondition \/ Package
  \/ Catalog \/ Store \/ Stored \/ Record \/ Apply \/ Applied \/ Local
  \/ Removed \/ Unrecord \/ Raise \/ Return
Others == Kill \/ Command \/ OrphanExits \/ Touch \/ Edit \/ NewRelease
Next == (\E r \in Requests: Begin(r)) \/ Proceed \/ Exited \/ Others

\* A process that runs goes on; no one has to start one, or to kill it.
Spec == Init /\ [][Next]_vars /\ WF_vars(Proceed)

-----------------------------------------------------------------------------
Phases == {"idle", "done", "recover", "plan", "probe", "external", "removal",
  "spawn", "start", "wait", "verify", "postcondition", "package", "catalog",
  "store", "stored", "record", "apply", "applying", "local", "removed", "unrecord"}

\* Every variable holds a value of its kind.
TypeOK ==
  /\ settings \in Settings /\ store \in Stores
  /\ receipt \in Receipts \cup {NoReceipt} /\ drawn \in Receipts \cup {NoReceipt}
  /\ local \in Locals /\ journal \in Journals \cup {NoJournal} /\ edited \in BOOLEAN
  /\ command \in Actions /\ orphans \subseteq {"install", "remove"}
  /\ pc \in Phases /\ request \in Requests
  /\ plan.action \in Actions /\ plan.conflicts \in BOOLEAN
  /\ plan.before \in Evidences \cup {NoEvidence}
  /\ snapshot \in Evidences \cup {NoEvidence}
  /\ package \in Evidences \cup {NoEvidence}
  /\ exit \in {0, 3, 4, 5, 6, 7, 8} /\ touches \in 0 .. MaxTouches
  /\ orphaned \in BOOLEAN /\ ran \in BOOLEAN /\ mine \in BOOLEAN

\* A receipt is only ever about a package that a command of the installer put
\* there, and only such a package is removed by a command.  A package the user
\* had before stays as it is, and is never claimed.
OwnershipProved ==
  /\ receipt # NoReceipt => ran /\ receipt.after.entry = "pinned"
  /\ "remove" \in {command} \cup orphans => ran
  /\ mine /\ touches = 0 => Status(Evidence) = "exact" /\ receipt = NoReceipt

\* As long as the user leaves Pi alone and no command has lost its installer,
\* the managed file is never there without the package it is for.
FilesHaveTheirPackage ==
  touches = 0 /\ ~orphaned /\ journal = NoJournal /\ local # "out"
    => Status(Evidence) = "exact"

\* Under the same conditions, what a successful exit status says is so.
SuccessIsTrue ==
  pc = "done" /\ exit = 0 /\ touches = 0 /\ ~orphaned
    => IF Installing THEN local = "in" /\ Status(Evidence) = "exact"
       ELSE /\ local = "out"
            /\ request.remove => Status(Evidence) = "absent" /\ receipt = NoReceipt

\* Only the removal of the package takes a receipt away, and only after it.
ReceiptOutlivesPackage ==
  [][ receipt # NoReceipt /\ receipt' = NoReceipt /\ touches' = 0 /\ ~orphaned
        /\ pc # "stored"
      => Status(Evidence) = "absent" ]_vars

\* Every invocation ends: a command that hangs is killed at the deadline.
InvocationEnds == pc # "idle" ~> pc = "idle"

\* Design specification: a successful package install creates an ownership
\* receipt.  An install that succeeds after a command of the installer has put
\* the package there would then leave one.
InstalledIsRecorded ==
  pc = "done" /\ exit = 0 /\ Installing /\ ran /\ ~mine /\ touches = 0
    => receipt # NoReceipt
=============================================================================
