------------------------------- MODULE DryRun -------------------------------
(***************************************************************************)
(* A dry run takes no lock.  It reads journals, manifests and managed      *)
(* files one at a time while another process may install, uninstall, fail, *)
(* die or recover in the same homes and the user may edit; it reads it all *)
(* twice, renders, and reads it all twice again before it prints.          *)
(*                                                                         *)
(* Of a transaction this module keeps what a reader can see: the order in  *)
(* which its journals, files and manifests change (Transaction has the     *)
(* rest).  A fingerprint holds hashes of files and the identity of journal *)
(* and manifest; identities can be used again, so what counts here is the  *)
(* content.  One home has one managed file.                                *)
(*                                                                         *)
(* Files are replaced by unlinking what is there and linking what is new:  *)
(* in between there is nothing at the name.  Of a managed file or a        *)
(* manifest that is a state of its own here; of a journal `away` says so,  *)
(* and `journal` keeps what the transaction has or will have there.        *)
(***************************************************************************)
EXTENDS Naturals, Sequences

CONSTANTS
  Targets,   \* how many targets are selected; they are read in order
  Operations, \* what a dry run may be asked for
  Found,     \* what there may be at the managed paths of the homes at first
  Edited,    \* what the user may put there
  MaxRuns,   \* how many transactions the other process begins
  MaxMishaps \* how often that process dies or fails to undo, or the user edits

ASSUME DryRunAssumption ==
  /\ Operations \subseteq {"install", "uninstall"}
  /\ Edited \subseteq {"absent", "current", "foreign"}
  /\ Found \subseteq [1 .. Targets -> {"absent", "current", "foreign"}]
  /\ Targets \in Nat \ {0} /\ MaxRuns \in Nat /\ MaxMishaps \in Nat

VARIABLES
  file, manifest, journal,   \* of each home
  away,                      \* the home whose journal is between its names, or 0
  litter,                    \* a home in whose state directory a killed process has left
                             \* the name of a copy, or 0
  writer,                    \* the transaction of the other process
  request,                   \* the operation
  at,                        \* which collection, and which part of it
  got,                       \* what has been read of this part
  memo,                      \* what the first pass of the first collection read
  printed, exit,
  moments,                   \* what was true at some moment of this collection
  edits                      \* how many, and what may be beside this collection: edits
                             \* of which files, transactions from which number on, and
                             \* a journal that was missed, in it or in the one before

world == <<file, manifest, journal, away, litter>>
reader == <<request, at, got, memo, printed, exit>>
vars == <<file, manifest, journal, away, litter, writer, request, at, got, memo, printed, exit,
          moments, edits>>

T == 1 .. Targets

-----------------------------------------------------------------------------
(* What a home may hold, and what is planned for it.                        *)

Files == {"absent", "current", "foreign"}
Manifests == {"absent", "claims"}
\* The journal of a home: its transaction, and whether that is decided and only
\* cleans up.  The status of the operations is what no dry run reports.
NoJournal == [tx |-> 0, sealed |-> FALSE]

\* _plan_regular_source and _target_uninstall, for one file.
Effect(operation, m, f) ==
  CASE m = "claims" /\ f # "current" -> "conflict"
    [] m = "claims" /\ f = "current" ->
         IF operation = "install" THEN "none" ELSE "remove"
    [] m = "absent" /\ operation = "uninstall" -> "none"
    [] m = "absent" /\ operation = "install" ->
         CASE f = "absent" -> "create" [] f = "current" -> "adopt"
           [] f = "foreign" -> "replace"

\* What the manifest holds afterwards; it is written when that is news.
Claims(operation, m, f) ==
  IF Effect(operation, m, f) = "remove" \/ (operation = "uninstall" /\ m = "absent")
  THEN "absent" ELSE "claims"
\* The manifest is read once for what it claims and once for its own operation.
Effects(operation, m, f, again) ==
  <<Effect(operation, m, f),
    IF Claims(operation, m, f) = again THEN "kept" ELSE again>>

\* _recovery_summary, _recovery_action
Pending(js) == {t \in T : js[t] # NoJournal}
Summary(js) ==
  [kind |-> "recovery", participants |-> Pending(js),
   effects |-> IF \A t \in Pending(js) : js[t].sealed THEN <<"cleanup">>
               ELSE <<"rollback">>]
Planned(operation, ms, fs, again) ==
  [kind |-> "plan", participants |-> {},
   effects |-> [t \in T |-> Effects(operation, ms[t], fs[t], again[t])]]
\* What a dry run reports of homes in which nothing moves.
Report(operation, js, ms, fs) ==
  IF Pending(js) # {} THEN Summary(js) ELSE Planned(operation, ms, fs, ms)
Nothing == [kind |-> "nothing", participants |-> {}, effects |-> << >>]

-----------------------------------------------------------------------------
(* The collection, as a sequence of reads.                                  *)

\* _collect_stable_dry_run_evidence: two passes, the state outermost.
Parts == <<"groups", "state", "plan", "groups", "plan", "state">>
Part == Parts[at.part]
Cells == CASE Part = "groups" -> <<"journal">>
           [] Part = "state" -> <<"manifest", "journal">>
           [] Part = "plan" -> <<"manifest", "file", "manifest">>
\* The read with number n, counted from zero: of which home, and what.
Home(n) == 1 + (n \div Len(Cells))
Cell(n) == Cells[1 + (n % Len(Cells))]
Value(n) ==
  LET t == Home(n)
  IN CASE Cell(n) = "journal" -> IF t = away THEN NoJournal ELSE journal[t]
       [] Cell(n) = "manifest" -> manifest[t]
       [] Cell(n) = "file" -> file[t]
\* _read_state_files refuses a state directory with a name that it does not know.
Refused(n) == Part = "groups" /\ Home(n) = litter
\* It lists the names before it opens the journal: one that goes away after that
\* is missed, without a word.
Missed(n) == at.round > 0 /\ Cell(n) = "journal" /\ Home(n) = away
Reads == Append(got, Value(Len(got)))
Complete == Len(Reads) = Targets * Len(Cells)
Column(c) == [t \in T |-> Reads[(t - 1) * Len(Cells) + c]]

NoMemo == [groups |-> << >>, state |-> << >>, plan |-> Nothing]
Start(round, part) == [round |-> round, part |-> part]
Running == at.round \in 0 .. 2

\* _journal_groups raises when the journals of a transaction are not all there,
\* unless it is decided: then those that are left are its survivors.
Torn(js) ==
  LET present == Pending(js)
  IN \/ \E t, u \in present : js[t].tx # js[u].tx
     \/ present \notin {{}, T} /\ \E t \in present : ~js[t].sealed

Init ==
  /\ file \in Found /\ manifest \in [T -> Manifests]
  /\ \A t \in T : manifest[t] = "claims" <=> file[t] = "current"
  /\ journal = [t \in T |-> NoJournal] /\ away = 0 /\ litter = 0
  /\ writer = [phase |-> "idle", tx |-> 0, next |-> 1, operation |-> "install",
               stuck |-> FALSE, recovers |-> FALSE,
               mishaps |-> 0, files |-> file, manifests |-> manifest]
  /\ request = "install"
  /\ at = Start(4, 1) /\ got = << >> /\ memo = NoMemo
  /\ printed = Nothing /\ exit = 0
  /\ moments = {} /\ edits = [count |-> 0, files |-> {}, twice |-> FALSE, first |-> 1,
                            missed |-> FALSE, earlier |-> FALSE]

\* What a dry run in which nothing moves would have reported now.
Moment == Report(request', journal', manifest', file')
Watch == moments' = IF Running THEN moments \cup {Moment} ELSE moments

-----------------------------------------------------------------------------
(* The dry run.                                                             *)

Ends(status) ==
  at' = Start(3, 1) /\ got' = << >> /\ memo' = NoMemo /\ exit' = status
Fails(status) == Ends(status) /\ UNCHANGED printed /\ moments' = {}
Prints(report) == printed' = report /\ UNCHANGED moments
Quiet == UNCHANGED <<printed, moments>>
Turns(round, part) == at' = Start(round, part) /\ got' = << >> /\ UNCHANGED exit

\* A collection begins, and with it what it will have to agree with.
FromHere(earlier) ==
  edits' = [edits EXCEPT !.files = {}, !.twice = FALSE,
              !.first = IF writer.phase = "idle" THEN writer.tx + 1 ELSE writer.tx,
              !.missed = FALSE, !.earlier = earlier]

\* run, before the first collection
Begin(operation) ==
  /\ at.round = 4
  /\ request' = operation
  /\ Turns(0, 1) /\ UNCHANGED <<memo, printed, world, writer>> /\ FromHere(FALSE)
  /\ moments' = {Moment}

\* A read, which may be the last one of its part.
Looks == edits' = [edits EXCEPT !.missed = @ \/ Missed(Len(got))]
Read ==
  /\ Running /\ ~Complete /\ ~Refused(Len(got))
  /\ got' = Reads
  /\ Looks
  /\ UNCHANGED <<at, memo, exit>> /\ Quiet
  /\ UNCHANGED <<world, writer, request>>

\* The look at the journals before the first collection has a status of its own.
CloseCheck ==
  /\ at.round = 0 /\ Complete /\ ~Refused(Len(got))
  /\ \/ Torn(Column(1)) /\ Fails(8)
     \/ ~Torn(Column(1)) /\ Turns(1, 1) /\ Quiet /\ UNCHANGED memo
  /\ UNCHANGED <<world, writer, request, edits>>

\* What the first pass reads is noted, and every later pass has to agree.  The
\* code compares at the end of a collection; to stop at once ends the same way.
Noting == at.round = 1 /\ at.part <= 3
Agrees(part, value) ==
  IF Noting THEN memo' = [memo EXCEPT ![part] = value] ELSE UNCHANGED memo
Differs(part, value) == ~Noting /\ memo[part] # value

\* _journal_groups; with a pending group nothing is planned in this pass.
CloseGroups ==
  /\ at.round \in {1, 2} /\ Part = "groups" /\ Complete /\ ~Refused(Len(got))
  /\ \/ (Torn(Column(1)) \/ Differs("groups", Column(1))) /\ Fails(3)
     \/ /\ ~Torn(Column(1)) /\ ~Differs("groups", Column(1))
        /\ Agrees("groups", Column(1))
        /\ Turns(at.round, CASE at.part = 1 -> 2
                             [] at.part = 4 /\ Pending(Column(1)) = {} -> 5
                             [] OTHER -> 6)
        /\ Quiet
  /\ UNCHANGED <<world, writer, request>> /\ Looks

\* Mutant: the first plan is printed.
ClosePlanAtOnce ==
  /\ Running /\ Part = "plan" /\ Complete
  /\ LET plan == Planned(request, Column(1), Column(2), Column(3))
     IN /\ Ends(IF \E t \in T : plan.effects[t][1] = "conflict" THEN 4 ELSE 0)
        /\ Prints(plan)
  /\ UNCHANGED <<world, writer, request, edits>>
\* _plan
ClosePlan ==
  /\ Running /\ Part = "plan" /\ Complete
  /\ LET plan == Planned(request, Column(1), Column(2), Column(3))
     IN \/ Differs("plan", plan) /\ Fails(3)
        \/ /\ ~Differs("plan", plan) /\ Agrees("plan", plan)
           /\ Turns(at.round, at.part + 1) /\ Quiet
  /\ UNCHANGED <<world, writer, request, edits>>

\* _state_fingerprint, before the first plan
OpenState ==
  /\ Running /\ at.part = 2 /\ Complete
  /\ \/ Differs("state", Reads) /\ Fails(3)
     \/ /\ ~Differs("state", Reads) /\ Agrees("state", Reads)
        /\ Turns(at.round, IF Pending(memo.groups) = {} THEN 3 ELSE 4) /\ Quiet
  /\ UNCHANGED <<world, writer, request>> /\ Looks

Outcome == IF Pending(memo.groups) # {} THEN Summary(memo.groups) ELSE memo.plan
HasConflicts == /\ request = "install" /\ Outcome.kind = "plan"
                /\ \E t \in T : Outcome.effects[t][1] = "conflict"
\* _state_fingerprint once more.  A pending recovery is printed at once, if the
\* format is text; as JSON it is rendered, like any plan.
CloseFirst ==
  /\ at.round = 1 /\ at.part = 6 /\ Complete
  /\ UNCHANGED <<world, writer, request>>
  /\ \/ Differs("state", Reads) /\ Fails(3) /\ Looks
     \/ /\ ~Differs("state", Reads) /\ Outcome.kind = "recovery"
        /\ Ends(0) /\ Prints(Outcome) /\ Looks
     \/ /\ ~Differs("state", Reads) /\ Turns(2, 1) /\ FromHere(edits.missed \/ Missed(Len(got)))
        /\ moments' = {Moment} /\ UNCHANGED <<memo, printed>>
\* What was collected after rendering is what was rendered, or nothing is printed.
CloseSecond ==
  /\ at.round = 2 /\ at.part = 6 /\ Complete
  /\ \/ Differs("state", Reads) /\ Fails(3)
     \/ /\ ~Differs("state", Reads)
        /\ Ends(IF HasConflicts THEN 4 ELSE 0) /\ Prints(Outcome)
  /\ UNCHANGED <<world, writer, request>> /\ Looks

\* A read fails, or what it finds is refused; or the output fails.  The status is 3
\* or 8; one stands for both.
Raise ==
  /\ Running /\ Fails(3)
  /\ UNCHANGED <<world, writer, request, edits>>

\* The process has ended; what others do from here on is nothing to it.
Return ==
  /\ at.round = 3
  /\ at' = Start(4, 1) /\ exit' = 0 /\ printed' = Nothing
  /\ request' = "install"
  /\ moments' = {}
  /\ UNCHANGED <<world, writer, got, memo, edits>>

-----------------------------------------------------------------------------
(* The other process, as a reader sees it.                                  *)

Before(k) ==
  LET t == (k + 1) \div 2 IN IF k % 2 = 1 THEN writer.files[t] ELSE writer.manifests[t]
After(k) ==
  LET t == (k + 1) \div 2
      m == writer.manifests[t]
      f == writer.files[t]
      effect == Effect(writer.operation, m, f)
  IN IF k % 2 = 0 THEN Claims(writer.operation, m, f)
     ELSE CASE effect \in {"create", "replace", "adopt"} -> "current"
            [] effect = "remove" -> "absent"
            [] OTHER -> f
Now(k) ==
  LET t == (k + 1) \div 2 IN IF k % 2 = 1 THEN file[t] ELSE manifest[t]
Put(k, value) ==
  LET t == (k + 1) \div 2
  IN IF k % 2 = 1 THEN file' = [file EXCEPT ![t] = value] /\ UNCHANGED manifest
     ELSE manifest' = [manifest EXCEPT ![t] = value] /\ UNCHANGED file
Last == 2 * Targets
Mishap == writer.mishaps + edits.count < MaxMishaps
Moves(phase, next) == writer' = [writer EXCEPT !.phase = phase, !.next = next]
Beside == at.round # 3 /\ UNCHANGED <<reader, edits>> /\ Watch
Writes == away = 0 /\ UNCHANGED <<away, litter>> /\ Beside

\* Planned under the locks: with a conflict an installation is refused, and
\* without an operation there is no transaction.
Plan(operation) ==
  /\ writer.phase = "idle" /\ writer.tx < MaxRuns /\ Pending(journal) = {}
  /\ LET effects == {Effect(operation, manifest[t], file[t]) : t \in T}
     IN /\ effects \ {"none", "conflict"} # {}
        /\ operation = "install" => "conflict" \notin effects
  /\ writer' = [writer EXCEPT !.phase = "journal", !.tx = @ + 1, !.next = 1,
                 !.operation = operation, !.stuck = FALSE, !.recovers = FALSE,
                 !.files = file, !.manifests = manifest]
  /\ UNCHANGED world /\ Writes
Journal ==
  /\ writer.phase = "journal"
  /\ journal' = [journal EXCEPT ![writer.next] = [tx |-> writer.tx, sealed |-> FALSE]]
  /\ IF writer.next = Targets THEN Moves("apply", 1)
     ELSE Moves("journal", writer.next + 1)
  /\ UNCHANGED <<file, manifest>> /\ Writes

\* _write_journal: every status is written by replacing the journal, which is
\* unlinked and linked.  How often is left open.
Rewritten(t) ==
  \/ writer.phase = "apply" /\ t \in {writer.next \div 2, (writer.next + 1) \div 2}
  \/ writer.phase = "undo"
  \/ writer.phase = "seal" /\ t = writer.next
Detach ==
  /\ away = 0 /\ \E t \in T : Rewritten(t) /\ away' = t
  /\ UNCHANGED <<file, manifest, journal, litter, writer>> /\ Beside
Attach ==
  /\ away # 0 /\ writer.phase \in {"apply", "undo"} /\ away' = 0
  /\ UNCHANGED <<file, manifest, journal, litter, writer>> /\ Beside

\* The last look at what is replaced is a few calls before it is unlinked, by name: if
\* the user edits, it may be something else that goes.  Where there was nothing, nothing goes.
Replaceable(k, expected) == Now(k) = expected \/ (expected # "absent" /\ edits.count > 0)
\* To create or to remove is one call; to replace, what is there is unlinked, then what
\* is to be there is linked.
OneCall(k) == "absent" \in {Before(k), After(k)}
Apply ==
  /\ writer.phase = "apply" /\ writer.next <= Last
  /\ LET k == writer.next
     IN \/ /\ Now(k) = Before(k) /\ Before(k) = After(k)
           /\ Moves("apply", k + 1) /\ UNCHANGED world
        \/ /\ Replaceable(k, Before(k)) /\ Before(k) # After(k) /\ UNCHANGED journal
           /\ IF OneCall(k) THEN Put(k, After(k)) /\ Moves("apply", k + 1)
              ELSE Put(k, "absent") /\ Moves("place", k)
        \/ Now(k) # Before(k) /\ Moves("undo", k) /\ UNCHANGED world
  /\ Writes
\* Nothing that has come to be there is replaced.
Place ==
  /\ writer.phase = "place"
  /\ LET k == writer.next
     IN \/ /\ Now(k) = "absent"
           /\ Put(k, After(k)) /\ Moves("apply", k + 1) /\ UNCHANGED journal
        \/ Now(k) # "absent" /\ Moves("undo", k) /\ UNCHANGED world
  /\ Writes
Applied ==
  /\ writer.phase = "apply" /\ writer.next = Last + 1
  /\ Moves("seal", 1) /\ UNCHANGED world /\ Writes

\* The last operation is undone first.  A file the user has changed is not: then the
\* transaction goes on with the others and keeps its journals, a recovery stops.
Halts(next, more) ==
  writer' = [writer EXCEPT !.phase = IF writer.recovers THEN "dead" ELSE "undo",
                           !.next = next, !.stuck = ~writer.recovers, !.mishaps = @ + more]
Undo ==
  /\ writer.phase = "undo" /\ writer.next > 0
  /\ LET k == writer.next
     IN \/ Now(k) = Before(k) /\ Moves("undo", k - 1) /\ UNCHANGED world
        \/ /\ Replaceable(k, After(k)) /\ Before(k) # After(k) /\ UNCHANGED journal
           /\ IF OneCall(k) THEN Put(k, Before(k)) /\ Moves("undo", k - 1)
              ELSE Put(k, "absent") /\ Moves("restore", k)
        \/ Now(k) \notin {Before(k), After(k)} /\ Halts(k - 1, 0) /\ UNCHANGED world
  /\ Writes
Restore ==
  /\ writer.phase = "restore"
  /\ LET k == writer.next
     IN \/ /\ Now(k) = "absent"
           /\ Put(k, Before(k)) /\ Moves("undo", k - 1) /\ UNCHANGED journal
        \/ Now(k) # "absent" /\ Halts(k - 1, 0) /\ UNCHANGED world
  /\ Writes
Undone ==
  /\ writer.phase = "undo" /\ writer.next = 0
  /\ IF writer.stuck THEN Moves("dead", 0) ELSE Moves("seal", 1)
  /\ UNCHANGED world /\ Writes

\* An operation fails, or the write of its status; what has been unlinked is put back.
PutBack(k, value) ==
  /\ IF Now(k) = "absent" THEN Put(k, value) ELSE UNCHANGED <<file, manifest>>
  /\ UNCHANGED journal
Fail ==
  /\ LET k == writer.next
     IN \/ writer.phase = "journal" /\ Moves("clean", 1) /\ UNCHANGED world
        \/ /\ writer.phase = "apply" /\ UNCHANGED world
           /\ \E last \in {k - 1, k} : last <= Last /\ Moves("undo", last)
        \/ writer.phase = "place" /\ PutBack(k, Before(k)) /\ Moves("undo", k)
        \/ /\ writer.phase = "undo" /\ UNCHANGED world
           /\ \E last \in {k - 1, k} : last >= 0 /\ Mishap /\ Halts(last, 1)
        \/ writer.phase = "restore" /\ Mishap /\ PutBack(k, After(k)) /\ Halts(k - 1, 1)
  /\ Writes
Seal ==
  /\ writer.phase = "seal" /\ away = writer.next /\ away' = 0
  /\ journal' = [journal EXCEPT ![writer.next].sealed = TRUE]
  /\ IF writer.next = Targets THEN Moves("clean", 1) ELSE Moves("seal", writer.next + 1)
  /\ UNCHANGED <<file, manifest, litter>> /\ Beside
Clean ==
  /\ writer.phase = "clean"
  /\ journal' = [journal EXCEPT ![writer.next] = NoJournal]
  /\ IF writer.next = Targets THEN Moves("idle", 1) ELSE Moves("clean", writer.next + 1)
  /\ UNCHANGED <<file, manifest>> /\ Writes
\* Killed at any point, also in a replacement: the name of the copy stays, and if
\* the journal was between its names there is none.
Crash ==
  /\ writer.phase \notin {"idle", "dead"} 
  /\ Mishap
  /\ writer' = [writer EXCEPT !.phase = "dead", !.mishaps = @ + 1]
  /\ IF away = 0 THEN litter' \in {0} \cup T ELSE litter' = away
  /\ UNCHANGED <<file, manifest, journal, away>> /\ Beside
\* The next invocation: what is decided is cleaned up; the rest is undone if nobody else
\* has changed it.  With a journal missing or a name it does not know, or after a
\* rollback that could not undo everything, it refuses, and someone has to look.
Resumes(phase, next) ==
  writer' = [writer EXCEPT !.phase = phase, !.next = next, !.recovers = TRUE]
Recover ==
  /\ writer.phase = "dead" /\ ~writer.stuck /\ litter = 0 /\ ~Torn(journal)
  /\ IF \A t \in Pending(journal) : journal[t].sealed THEN Resumes("clean", 1)
     ELSE IF \E t \in T : journal[t].sealed THEN Resumes("seal", 1)
     ELSE /\ \A k \in 1 .. Last : Now(k) \in {Before(k), After(k)}
          /\ Resumes("undo", Last)
  /\ UNCHANGED world /\ Writes

\* The user edits a managed file.
Edit ==
  /\ at.round # 3 /\ Mishap
  /\ \E t \in T, f \in Edited :
       /\ f # file[t] /\ file' = [file EXCEPT ![t] = f]
       /\ edits' = [edits EXCEPT !.count = @ + 1, !.files = @ \cup {t},
                                 !.twice = @ \/ t \in edits.files]
  /\ UNCHANGED <<manifest, journal, away, litter, writer, reader>> /\ Watch

Proceed == Read \/ CloseCheck \/ CloseGroups \/ ClosePlan \/ OpenState
           \/ CloseFirst \/ CloseSecond \/ Raise \/ Return
Others == \/ (\E operation \in {"install", "uninstall"} : Plan(operation))
          \/ Journal \/ Detach \/ Attach \/ Apply \/ Place \/ Applied
          \/ Undo \/ Restore \/ Undone \/ Fail \/ Seal \/ Clean
          \/ Crash \/ Recover \/ Edit
Next == (\E operation \in Operations : Begin(operation)) \/ Proceed \/ Others

Spec == Init /\ [][Next]_vars

-----------------------------------------------------------------------------
\* What no comparison of reads can tell: a file that is edited twice during a
\* collection may be as it was at every read; so may one that two transactions have
\* changed and changed back, or two edits between which one transaction did so.  What is
\* under way when the collection begins is one of them, what was before is not.  And
\* a journal that was between its names when it was looked for is one that is not there.
Concealed ==
  \/ edits.twice
  \/ writer.tx > edits.first
  \/ writer.tx = edits.first /\ \E t, u \in edits.files : t # u
  \/ edits.missed

\* What is printed was true of the homes, all at once, at a moment of the last
\* collection: for all that is rendered, of the one after rendering.
ReportIsOfOneMoment == printed # Nothing /\ ~Concealed => printed \in moments

\* A transaction that is half way is not taken for a conflict as long as the user keeps
\* his hands off the managed files and no look at a journal has fallen between its names:
\* each of the four plans would have to meet another transaction, which is undone before
\* the next look at the journals.
NoPhantomConflict ==
  edits.count = 0 /\ ~edits.missed /\ ~edits.earlier /\ exit = 4 => writer.tx >= 4
=============================================================================
