---------------------------- MODULE Transaction ----------------------------
(***************************************************************************)
(* The journaled multi-home transaction of the installer                   *)
(* (src/subagents_configs/transaction.py and recovery.py).                 *)
(*                                                                         *)
(* One transaction replaces, creates or removes files in several homes.    *)
(* Each home holds its own journal; a write-ahead "progress root" in one   *)
(* of two alternating anchor slots precedes every journal rewrite.  The    *)
(* process that applies the transaction may raise at any system call, may  *)
(* be killed between any two of them, and is then followed by processes    *)
(* that recover.  The user may edit or delete a managed file at any time.  *)
(* Homes are locked, so there is one process at a time (TargetLocks).      *)
(*                                                                         *)
(* Files and journals are modelled by identity (inode and content), which  *)
(* is what the code compares; the bytes are abstracted.                    *)
(***************************************************************************)
EXTENDS Naturals, FiniteSets

CONSTANTS
  NumHomes,    \* homes 1..NumHomes, in the registry order of the targets
  NumOps,      \* operations 1..NumOps, in the order they are applied
  HomeOf,      \* the home each operation belongs to
  Kind,        \* whether it creates, replaces or removes its file
  Listed,      \* operations in directories every command inventories (manifests)
  MaxCrashes, MaxFaults, MaxEdits   \* bounds on what goes wrong

Homes == 1..NumHomes
Ops == 1..NumOps
Kinds == {"create", "replace", "remove"}

ASSUME TransactionAssumption ==
  /\ NumHomes \in Nat \ {0} /\ NumOps \in Nat \ {0}
  /\ HomeOf \in [Ops -> Homes] /\ Kind \in [Ops -> Kinds] /\ Listed \subseteq Ops
  /\ \A h \in Homes : \E o \in Ops : HomeOf[o] = h
  /\ \A o, p \in Ops : o <= p => HomeOf[o] <= HomeOf[p]
  /\ MaxCrashes \in Nat /\ MaxFaults \in Nat /\ MaxEdits \in Nat

OpsOf(h) == {o \in Ops : HomeOf[o] = h}

(***************************************************************************)
(* What a path may hold.  "linked" is a file with a second hard link: the  *)
(* quarantine or the temporary of a compare-and-swap under way, whose      *)
(* identity (nlink) equals no recorded evidence.                           *)
(***************************************************************************)
FileIds == {"absent", "orig", "new", "restored", "foreign", "linked"}
Before(o) == IF Kind[o] = "create" THEN "absent" ELSE "orig"
After(o) == IF Kind[o] = "remove" THEN "absent" ELSE "new"
HasBackup(o) == Kind[o] # "create"
LooksBefore(o, f) == IF Kind[o] = "create" THEN f = "absent"
                                           ELSE f \in {"orig", "restored"}
LooksAfter(o, f) == f = After(o)

\* Identities a journal may record: never the user's, never a mutation half done.
Evidence == FileIds \ {"foreign", "linked"}

Statuses == {"planned", "applying", "applied", "rolled-back", "ambiguous"}
\* A journal entry: status, expected_before_evidence, expected_after_evidence.
Entry == [status : Statuses, before : Evidence, after : Evidence]
Planned(o) == [status |-> "planned", before |-> Before(o), after |-> "absent"]

Digest(h, ent) == [o \in OpsOf(h) |-> ent[o]]
Progress(n, d) == [kind |-> "progress", seq |-> n, digest |-> d]
CleanupRoot(final) == [kind |-> "cleanup", final |-> final]
Torn == [kind |-> "torn"]
NoAnchor == [kind |-> "absent"]
Anchors(h) == [kind : {"progress"}, seq : Nat, digest : [OpsOf(h) -> Entry]]
              \cup [kind : {"cleanup"}, final : {"applied", "rolled-back"}]
              \cup [kind : {"torn", "absent"}]
Slots == {1, 2}

VARIABLES
  \* --- on disk
  file,     \* file[o]: what the operation's path holds
  backup,   \* backup[o]: its transaction backup exists
  jrb,      \* jrb[h]: rollback_status of the home's journal, "none": no journal
  jent,     \* jent[o]: the operation's entry in its home's journal
  jslot,    \* jslot[h][g]: the evidence h's journal stores of g's two slots
  slot,     \* slot[h]: the two progress slots of the home
  \* --- memory of the running process
  pc,       \* the next system call that matters
  mode,     \* "apply" and its "rollback"; "recover" and "seal" of a recovery
  task,     \* what is being written or mutated, for the steps that share a pc
  op, home, \* the operation and the home the loops have reached
  goal,     \* the identity the current mutation leaves, or has left, at the path
  ment,     \* the operations of the in-memory journals
  mslot,    \* the anchor evidence of the in-memory journals, as jslot
  fresh,    \* fresh[h]: the held identity of h's journal is that of the file
  err,      \* rollback_error is set
  \* --- outcome and bookkeeping
  exit,     \* the exit status of the last process to end
  crashes, faults, edits,
  touched,  \* operations whose path the user edited
  windows,  \* unrecoverable windows in which a process was killed
  debris    \* what was left that recovery refuses for good: the "name" of a
            \* temporary or quarantine in an inventoried directory, or a second
            \* "link" to a backup

disk == <<file, backup, jrb, jent, jslot, slot>>
ctl == <<pc, task, op, home>>
mem == <<mode, goal, ment, mslot, fresh, err>>
bounds == <<crashes, faults, edits, touched, windows, debris>>
vars == <<disk, ctl, mem, exit, bounds>>

-----------------------------------------------------------------------------
(***************************************************************************)
(* Anchors.  A journal is backed by the slots whose content is exactly the *)
(* evidence it stores (ev) and a progress root over its own entries (ent). *)
(***************************************************************************)
IsProgress(a) == a.kind = "progress"
RootsOf(h, ent) ==
  {i \in Slots : IsProgress(slot[h][i]) /\ slot[h][i].digest = Digest(h, ent)}
Backing(h, ent, ev) == {i \in RootsOf(h, ent) : slot[h][i] = ev[i]}

\* The slot of S with the highest sequence, and the one the next root goes to:
\* never the slot the current journal rests on (slot 1 first, while both do).
Newest(h, S) == IF 1 \in S /\ (2 \in S => slot[h][1].seq > slot[h][2].seq) THEN 1 ELSE 2
LastSeq(h, S) == slot[h][Newest(h, S)].seq
\* Mutant: the root goes to the slot the journal rests on.
NextSlotInUse(h, S) == Newest(h, S)
NextSlot(h, S) == 3 - Newest(h, S)

\* Entries one progress step after ent, as the files at hand can prove them.
NextEntries(h, ent) ==
  LET Step(o, e) == [Digest(h, ent) EXCEPT ![o] = e] IN
  UNION {
    {Step(o, [ent[o] EXCEPT !.status = "applying"])
       : o \in {o \in OpsOf(h) : ent[o].status = "planned"}},
    {Step(o, [ent[o] EXCEPT !.status = "applied", !.after = file[o]])
       : o \in {o \in OpsOf(h) : ent[o].status = "applying"
                                 /\ LooksAfter(o, file[o])}},
    {Step(o, [ent[o] EXCEPT !.status = "rolled-back", !.before = file[o]])
       : o \in {o \in OpsOf(h) : ent[o].status \in {"applying", "applied"}
                                 /\ LooksBefore(o, file[o])}},
    {Step(o, [ent[o] EXCEPT !.status = "ambiguous"])
       : o \in {o \in OpsOf(h) : ent[o].status \in {"applying", "applied"}}},
    IF /\ \A o \in OpsOf(h) : ent[o].status \in {"planned", "rolled-back"}
       /\ \E o \in OpsOf(h) : ent[o].status = "planned"
      THEN {[o \in OpsOf(h) |-> [ent[o] EXCEPT !.status = "rolled-back"]]}
      ELSE {}}

\* Slots whose root is not the one the journal recorded: a root ahead of it.
AheadOf(h, ev) == {i \in Slots : slot[h][i] # ev[i] /\ IsProgress(slot[h][i])}

\* Mutant: a root ahead of the journal is not tolerated.
AnchorsExact(h, ent, ev) == Backing(h, ent, ev) # {} /\ AheadOf(h, ev) = {}

AnchorsOk(h, ent, ev) ==
  LET back == Backing(h, ent, ev) IN
  /\ back # {}
  /\ Cardinality(AheadOf(h, ev)) <= 1
  /\ \A i \in AheadOf(h, ev) :
        /\ slot[h][i].seq = LastSeq(h, back) + 1
        /\ slot[h][i].digest \in NextEntries(h, ent)

\* require_cleanup_root: one cleanup and one progress root, exactly as recorded.
CleanupAnchorsOk(h, ent, ev, final) ==
  /\ slot[h] = ev
  /\ Cardinality({i \in Slots : slot[h][i] = CleanupRoot(final)}) = 1
  /\ Cardinality(Backing(h, ent, ev)) = 1

-----------------------------------------------------------------------------
(***************************************************************************)
(* Control flow of the process.                                            *)
(***************************************************************************)
Goto(p, t, o, h) == pc' = p /\ task' = t /\ op' = o /\ home' = h

NoMemory ==
  /\ mode' = "none" /\ goal' = "absent" /\ err' = FALSE
  /\ ment' = [o \in Ops |-> Planned(o)]
  /\ mslot' = [h \in Homes |-> [g \in Homes |-> [i \in Slots |-> NoAnchor]]]
  /\ fresh' = [h \in Homes |-> FALSE]

\* The process ends with the given status and its memory is gone.
End(status) ==
  /\ Goto("down", "none", 1, 1) /\ NoMemory
  /\ exit' = status

\* The expectation and the entry point of the compare-and-swap on op's path.
Want == IF task = "apply" THEN ment[op].before ELSE ment[op].after
CasEntry(want) == IF want = "absent" THEN "cas-install" ELSE "cas-link"

\* Bulk transition of the next home that needs it, or the end of the rollback.
ToBulk(from, ent) ==
  LET due == {h \in from..NumHomes :
                /\ \A o \in OpsOf(h) : ent[o].status # "ambiguous"
                /\ \E o \in OpsOf(h) : ent[o].status # "rolled-back"}
  IN  \/ \E h \in due : (\A g \in due : h <= g) /\ Goto("root", "bulk", op, h)
      \/ due = {} /\ Goto("stage", "seal", op, 1)

\* Mutants: the loop starts one short; reverses oldest first; never gives up.
ToReverseShort(last, ent) ==
  LET open == {o \in 1..(last - 1) : ent[o].status \in {"applying", "applied"}}
  IN  \/ \E o \in open : /\ \A p \in open : p <= o
                         /\ Goto("reverse", "reverse", o, HomeOf[o])
      \/ open = {} /\ ToBulk(1, ent)
ToReverseForward(last, ent) ==
  LET open == {o \in Ops : ent[o].status \in {"applying", "applied"}}
  IN  \/ \E o \in open : /\ \A p \in open : o <= p
                         /\ Goto("reverse", "reverse", o, HomeOf[o])
      \/ open = {} /\ ToBulk(1, ent)
ToReverseRetry(last, ent) ==
  LET open == {o \in Ops : ent[o].status \in {"applying", "applied"}}
  IN  \/ \E o \in open : /\ \A p \in open : p <= o
                         /\ Goto("reverse", "reverse", o, HomeOf[o])
      \/ open = {} /\ ToBulk(1, ent)
\* The next operation to reverse, at or below last, in reverse order.
ToReverse(last, ent) ==
  LET open == {o \in 1..last : ent[o].status \in {"applying", "applied"}}
  IN  \/ \E o \in open : /\ \A p \in open : p <= o
                         /\ Goto("reverse", "reverse", o, HomeOf[o])
      \/ open = {} /\ ToBulk(1, ent)

\* Mutant: a file is changed before its journal says so.
ToApplyUnjournaled(o) == Goto(CasEntry(ment[o].before), "apply", o, HomeOf[o])
ToApply(o) == Goto("root", "applying", o, HomeOf[o])

\* What follows once the journal for the current task is durable.
AfterJournal(ent) ==
  \/ /\ task = "applying"
     /\ Goto(CasEntry(ent[op].before), "apply", op, home)
  \/ task = "applied" /\ op < NumOps /\ ToApply(op + 1)
  \/ task = "applied" /\ op = NumOps /\ Goto("stage", "seal", op, 1)
  \/ /\ task = "in-progress"
     /\ IF home < NumHomes THEN Goto("detach", "in-progress", op, home + 1)
                           ELSE ToReverse(NumOps, ent)
  \/ task \in {"rolled-back", "ambiguous"} /\ ToReverse(op - 1, ent)
  \/ task = "bulk" /\ ToBulk(home + 1, ent)
  \/ /\ task = "cleanup"
     /\ IF home < NumHomes THEN Goto("detach", "cleanup", op, home + 1)
                           ELSE Goto("remove", "remove", op, 1)

\* The outcome is decided and the journals are being staged for removal.
\* Mutant: the decision counts only when the journals start to go.
SettlingLate == task = "remove"
Settling == task \in {"seal", "cleanup", "remove"}

(***************************************************************************)
(* The step at hand raises.  In apply the transaction is rolled back; a    *)
(* rollback records the error and goes on; recovery ends.  f is what is    *)
(* known of the journals' identities afterwards.                           *)
(***************************************************************************)
Raise(f) ==
  \/ /\ pc = "create"                      \* _prepare: undo, newest first
     /\ Goto("unprepare", "prepare", op, home)
     /\ fresh' = f /\ UNCHANGED <<mode, goal, ment, mslot, err, exit>>
  \/ /\ mode = "apply" /\ pc # "create" /\ ~Settling
     /\ mode' = "rollback" /\ Goto("detach", "in-progress", op, 1)
     /\ fresh' = f /\ UNCHANGED <<goal, ment, mslot, err, exit>>
  \/ /\ mode = "apply" /\ Settling
     /\ End("uncleaned")  \* "transaction committed but journal cleanup ... failed"
  \/ /\ mode = "rollback" /\ ~Settling
     /\ err' = TRUE
     /\ \/ /\ task = "in-progress"
           /\ IF home < NumHomes THEN Goto("detach", task, op, home + 1)
                                 ELSE ToReverse(NumOps, ment)
        \/ task \in {"reverse", "rolled-back"} /\ Goto("root", "ambiguous", op, home)
        \/ task = "ambiguous" /\ ToReverse(op - 1, ment)
        \/ task = "bulk" /\ ToBulk(home + 1, ment)
     /\ fresh' = f /\ UNCHANGED <<mode, goal, ment, mslot, exit>>
  \/ /\ mode = "rollback" /\ Settling
     /\ End("incomplete")
  \/ mode = "recover" /\ End("incomplete")
  \/ mode = "seal" /\ End(IF task = "remove" THEN "blocked" ELSE "incomplete")

-----------------------------------------------------------------------------
(***************************************************************************)
(* Preparation: evidence, backups and anchors, then a journal per home.    *)
(***************************************************************************)
Prepare ==
  /\ pc = "start"
  /\ IF \A o \in Ops : file[o] = Before(o)
       THEN /\ backup' = [o \in Ops |-> HasBackup(o)]
            /\ slot' = [h \in Homes |-> [i \in Slots |->
                          Progress(0, Digest(h, [o \in Ops |-> Planned(o)]))]]
            /\ mslot' = [h \in Homes |-> slot']
            /\ mode' = "apply" /\ Goto("create", "prepare", 1, 1)
            /\ UNCHANGED <<goal, ment, fresh, err, exit>>
       ELSE End("rolled-back") /\ UNCHANGED <<backup, slot>>
  /\ UNCHANGED <<file, jrb, jent, jslot, bounds>>

\* The journals are created one home after the other, never replaced here.
LinkJournal ==
  /\ jrb' = [jrb EXCEPT ![home] = "not-started"]
  /\ jent' = [o \in Ops |-> IF HomeOf[o] = home THEN ment[o] ELSE jent[o]]
  /\ jslot' = [jslot EXCEPT ![home] = mslot[home]]

CreateJournal ==
  /\ pc = "create"
  /\ LinkJournal
  /\ fresh' = [fresh EXCEPT ![home] = TRUE]
  /\ IF home < NumHomes THEN Goto("create", "prepare", op, home + 1) ELSE ToApply(1)
  /\ UNCHANGED <<file, backup, slot, mode, goal, ment, mslot, err, exit, bounds>>

\* _cleanup_preparation: owned journals newest first, then anchors and backups.
\* A journal whose creation raised after the link was never owned: it stays.
Unprepare ==
  /\ pc = "unprepare"
  /\ LET owned == {h \in Homes : fresh[h]} IN
     \/ \E h \in owned :
          /\ \A g \in owned : g <= h
          /\ jrb' = [jrb EXCEPT ![h] = "none"] /\ fresh' = [fresh EXCEPT ![h] = FALSE]
          /\ UNCHANGED <<ctl, mode, goal, ment, mslot, err, exit, backup, slot>>
     \/ /\ owned = {}
        /\ backup' = [o \in Ops |-> FALSE]
        /\ slot' = [h \in Homes |-> [i \in Slots |-> NoAnchor]]
        /\ End("rolled-back")
        /\ UNCHANGED jrb
  /\ UNCHANGED <<file, jent, jslot, bounds>>

-----------------------------------------------------------------------------
(***************************************************************************)
(* Writing: a root into the free slot, in place, then the journal.  The    *)
(* tasks "in-progress" and "cleanup" rewrite the journal only; the task    *)
(* "seal" writes the cleanup root of each home only.                       *)
(***************************************************************************)
\* The in-memory entries the current task persists.
Pending ==
  CASE task = "applying" -> [ment EXCEPT ![op].status = "applying"]
    [] task = "applied" -> [ment EXCEPT ![op].status = "applied", ![op].after = goal]
    [] task = "rolled-back" ->
         [ment EXCEPT ![op].status = "rolled-back", ![op].before = goal]
    [] task = "ambiguous" -> [ment EXCEPT ![op].status = "ambiguous"]
    [] task = "bulk" -> [o \in Ops |->
         IF HomeOf[o] = home THEN [ment[o] EXCEPT !.status = "rolled-back"] ELSE ment[o]]
    [] OTHER -> ment

Final(ent) == IF \A o \in Ops : ent[o].status = "applied" THEN "applied" ELSE "rolled-back"

\* The content the root of this task has, and the slot that receives it.
RootSlot ==
  NextSlot(home, IF task = "seal" THEN RootsOf(home, ment)
                                  ELSE Backing(home, ment, mslot[home][home]))
RootContent ==
  IF task = "seal" THEN CleanupRoot(Final(ment))
  ELSE Progress(LastSeq(home, Backing(home, ment, mslot[home][home])) + 1,
                Digest(home, Pending))

\* All cleanup roots are durable: adopt their evidence, then write the journals.
AfterSeal(anchors) ==
  IF home < NumHomes
    THEN Goto("root", "seal", op, home + 1) /\ UNCHANGED mslot
    ELSE Goto("detach", "cleanup", op, 1) /\ mslot' = [h \in Homes |-> anchors]

RootReady == IF task = "seal" THEN RootsOf(home, ment) # {}
             ELSE AnchorsOk(home, ment, mslot[home][home])

\* The in-place write starts: until it ends the slot holds neither content.
\* A cleanup root that is already there is not written again.
RootOpen ==
  /\ pc = "root" /\ RootReady
  /\ IF task = "seal" /\ RootContent = slot[home][RootSlot]
       THEN AfterSeal(slot) /\ UNCHANGED slot
       ELSE /\ Goto("rewrite", task, op, home) /\ UNCHANGED mslot
            /\ slot' = [slot EXCEPT ![home][RootSlot] = Torn]
  /\ UNCHANGED <<file, backup, jrb, jent, jslot, mode, goal, ment, fresh, err,
                 exit, bounds>>

RootRefused ==
  /\ pc = "root" /\ ~RootReady
  /\ Raise(fresh) /\ UNCHANGED <<disk, bounds>>

RootWrite ==
  /\ pc = "rewrite"
  /\ slot' = [slot EXCEPT ![home][CHOOSE i \in Slots : slot[home][i] = Torn]
                = RootContent]
  /\ IF task = "seal" THEN AfterSeal(slot')
                      ELSE Goto("detach", task, op, home) /\ UNCHANGED mslot
  /\ UNCHANGED <<file, backup, jrb, jent, jslot, mode, goal, ment, fresh, err,
                 exit, bounds>>

\* The journal is replaced by compare-and-swap: its name is unlinked first.
JournalDetach ==
  /\ pc = "detach"
  /\ IF fresh[home] THEN pc' = "install" /\ UNCHANGED <<task, op, home, mem, exit>>
                    ELSE Raise(fresh)
  /\ UNCHANGED <<disk, bounds>>

\* The journal to be installed, and the anchor evidence it stores.
\* Mutant: the outcome of the rollback is persisted as its status.
NewStatusOutcome == IF task = "cleanup" THEN "cleanup"
                    ELSE IF mode = "apply" THEN "not-started" ELSE "incomplete"
NewStatus ==
  IF task = "cleanup" THEN "cleanup"
  ELSE IF mode = "apply" THEN "not-started" ELSE "in-progress"
NewSlots ==
  IF task \in {"in-progress", "cleanup"} THEN mslot[home]
  ELSE [mslot[home] EXCEPT ![home] = slot[home]]

InstallJournal ==
  /\ jrb' = [jrb EXCEPT ![home] = NewStatus]
  /\ jent' = [o \in Ops |-> IF HomeOf[o] = home THEN Pending[o] ELSE jent[o]]
  /\ jslot' = [jslot EXCEPT ![home] = NewSlots]

\* ... and then linked to the new content; memory follows the durable journal.
JournalInstall ==
  /\ pc = "install"
  /\ InstallJournal
  /\ ment' = Pending /\ mslot' = [mslot EXCEPT ![home] = NewSlots]
  /\ goal' = "absent"
  /\ AfterJournal(Pending)
  /\ UNCHANGED <<file, backup, slot, mode, fresh, err, exit, bounds>>

-----------------------------------------------------------------------------
(***************************************************************************)
(* Mutating a path: compare_and_swap.  The expected file gets a quarantine *)
(* link, its name is unlinked, the new content is linked into place        *)
(* without overwriting, and the temporary's own link is removed.           *)
(***************************************************************************)
CasGoal == IF task = "apply" THEN After(op)
           ELSE IF Kind[op] = "create" THEN "absent" ELSE "restored"
CasPcs == {"cas-link", "cas-look", "cas-unlink", "cas-install", "cas-settle"}
\* What an exception out of the current step may leave at the path.  The clean-up
\* does not put back a quarantine the user wrote to; it unlinks an installed file
\* by name.
CasLeft ==
  LET edited == IF op \in touched THEN {"absent"} ELSE {} IN
  CASE pc = "cas-link" /\ file[op] = Want -> {Want, "linked"}
    [] pc = "cas-look" /\ file[op] = "linked" -> {Want}
    [] pc = "cas-unlink" /\ file[op] = "linked" ->
         {Want} \cup (IF CasGoal = "absent" THEN {"absent"} ELSE {})
    [] pc = "cas-unlink" /\ file[op] = "foreign" -> {"foreign", "absent"}
    [] pc = "cas-install" /\ file[op] = "absent" -> {Want} \cup edited
    [] pc = "cas-settle" /\ file[op] = "linked" -> {Want, CasGoal, "linked"} \cup edited
    [] pc = "cas-settle" /\ file[op] = "foreign" -> {"foreign", Want, "absent"}
    [] OTHER -> {file[op]}

\* The step at hand has, or may have, a temporary or a quarantine in a directory
\* every command inventories.
BackupsLeft(h) == {o \in OpsOf(h) : backup[o]}
Naming ==
  \/ pc \in {"create", "unprepare", "detach", "install"}
  \/ pc = "remove" /\ BackupsLeft(home) = {}
  \/ pc \in CasPcs /\ op \in Listed /\ (pc = "cas-link" => CasGoal # "absent")
MayLeaveName ==
  /\ debris' \in IF Naming THEN {debris, "name"} ELSE {debris}
  /\ UNCHANGED <<crashes, edits, touched, windows>>

\* The last step of a removal is the unlink, of anything else the clean-up.
CasLast(from) == from = "cas-settle" \/ (from = "cas-unlink" /\ CasGoal = "absent")
CasNext(from) == CASE from = "cas-link" -> "cas-look"
                   [] from = "cas-look" -> "cas-unlink"
                   [] from = "cas-unlink" -> "cas-install"
                   [] from = "cas-install" -> "cas-settle"

\* Mutant: the expected identity is not compared.
CasStepBlind(from, expected, leaves) ==
  /\ pc = from
  /\ file' = [file EXCEPT ![op] = leaves]
  /\ IF CasLast(from)
       THEN /\ Goto("root", IF task = "apply" THEN "applied" ELSE "rolled-back", op, home)
            /\ goal' = CasGoal
       ELSE Goto(CasNext(from), task, op, home) /\ UNCHANGED goal
  /\ UNCHANGED <<mode, ment, mslot, fresh, err, exit,
                 backup, jrb, jent, jslot, slot, bounds>>

CasStep(from, expected, leaves) ==
  /\ pc = from
  /\ \/ /\ file[op] \in expected
        /\ file' = [file EXCEPT ![op] = leaves]
        /\ IF CasLast(from)
             THEN /\ Goto("root", IF task = "apply" THEN "applied" ELSE "rolled-back",
                          op, home)
                  /\ goal' = CasGoal
             ELSE Goto(CasNext(from), task, op, home) /\ UNCHANGED goal
        /\ UNCHANGED <<mode, ment, mslot, fresh, err, exit, bounds>>
     \/ /\ file[op] \notin expected        \* the user got in between
        /\ UNCHANGED <<file, faults>> /\ Raise(fresh)
        /\ MayLeaveName /\ (from = "cas-link" => debris' = debris)
  /\ UNCHANGED <<backup, jrb, jent, jslot, slot>>

\* The look at the path and the unlink of its name are two calls: what the user
\* puts there in between is unlinked.
CasLink == CasStep("cas-link", {Want}, "linked")
CasLook == CasStep("cas-look", {"linked"}, "linked")
CasUnlink == CasStep("cas-unlink", FileIds \ {"absent"}, "absent")
CasInstall == CasStep("cas-install", {"absent"}, "linked")
CasSettle == CasStep("cas-settle", {"linked"}, CasGoal)
Cas == CasLink \/ CasLook \/ CasUnlink \/ CasInstall \/ CasSettle

\* _reverse_operation: nothing to do, restore, or an ambiguous state.
Reverse ==
  /\ pc = "reverse"
  /\ LET isBefore == LooksBefore(op, file[op]) /\ file[op] = ment[op].before
         isAfter == LooksAfter(op, file[op]) /\ file[op] = ment[op].after
     IN  \/ /\ isBefore
            /\ Goto("root", "rolled-back", op, home) /\ goal' = file[op]
            /\ UNCHANGED <<mode, ment, mslot, fresh, err, exit>>
         \/ /\ ~isBefore /\ isAfter /\ (HasBackup(op) => backup[op])
            /\ Goto(CasEntry(ment[op].after), "reverse", op, home)
            /\ UNCHANGED <<mem, exit>>
         \/ /\ ~isBefore /\ ~(isAfter /\ (HasBackup(op) => backup[op]))
            /\ Raise(fresh)
  /\ UNCHANGED <<disk, bounds>>

-----------------------------------------------------------------------------
(***************************************************************************)
(* Cleanup: seal every home, then remove backups and journals home by home.*)
(***************************************************************************)
\* Mutants: an incomplete rollback is staged too; nothing is sealed.
StageAnyway ==
  /\ pc = "stage"
  /\ IF \A h \in Homes : fresh[h] /\ AnchorsOk(h, ment, mslot[h][h])
       THEN Goto("root", "seal", op, 1) /\ UNCHANGED <<mem, exit>>
       ELSE Raise(fresh)
  /\ UNCHANGED <<disk, bounds>>
StageUnsealed ==
  /\ pc = "stage" /\ ~err
  /\ Goto("remove", "remove", op, 1) /\ UNCHANGED <<mem, exit, disk, bounds>>

\* _stage_cleanup_group, for journals none of which is a cleanup journal yet.
Stage ==
  /\ pc = "stage"
  /\ \/ /\ mode = "rollback" /\ err
        /\ End("incomplete")
     \/ /\ ~err
        /\ IF \A h \in Homes :
                /\ fresh[h] /\ AnchorsOk(h, ment, mslot[h][h])
                /\ \A o \in OpsOf(h) : HasBackup(o) => backup[o]
             THEN Goto("root", "seal", op, 1) /\ UNCHANGED <<mem, exit>>
             ELSE Raise(fresh)
  /\ UNCHANGED <<disk, bounds>>

\* _sync_and_remove_journal: the home's transaction backups, then its journal.  A
\* backup gets its quarantine link, which recovery refuses, before it is unlinked.
LinkBackup ==
  /\ pc = "remove" /\ BackupsLeft(home) # {}
  /\ Goto("unlink", "remove", op, home)
  /\ UNCHANGED <<disk, mem, exit, bounds>>

RemoveBackup ==
  /\ pc = "unlink"
  /\ \E o \in BackupsLeft(home) :
       /\ \A p \in BackupsLeft(home) : o <= p
       /\ backup' = [backup EXCEPT ![o] = FALSE]
  /\ Goto("remove", "remove", op, home)
  /\ UNCHANGED <<file, jrb, jent, jslot, slot, mem, exit, bounds>>

RemoveJournal ==
  /\ pc = "remove" /\ BackupsLeft(home) = {}
  /\ jrb' = [jrb EXCEPT ![home] = "none"]
  /\ LET left == {h \in Homes : h > home /\ jrb[h] # "none"} IN
     \/ \E h \in left : (\A g \in left : h <= g) /\ Goto("remove", "remove", op, h)
     \/ left = {} /\ Goto("marks", "remove", op, home)
  /\ UNCHANGED <<file, backup, jent, jslot, slot, mem, exit, bounds>>

\* Best-effort removal of the anchors once no journal is left.
RemoveMarks ==
  /\ pc = "marks"
  /\ slot' = [h \in Homes |-> [i \in Slots |-> NoAnchor]]
  /\ End(CASE mode = "apply" -> "success"
           [] mode = "rollback" -> "rolled-back"
           [] OTHER -> "recovered")
  /\ UNCHANGED <<file, backup, jrb, jent, jslot, bounds>>

-----------------------------------------------------------------------------
(***************************************************************************)
(* Recovery by the next invocation: orchestrator._journal_groups and       *)
(* recovery.recover_participants_impl up to its first write.               *)
(***************************************************************************)
Present == {h \in Homes : jrb[h] # "none"}
Sealed(h) == jrb[h] = "cleanup"
OpsPresent == {o \in Ops : HomeOf[o] \in Present}

\* A root ahead of its journal stands for the journal that was to follow it.
Loaded ==
  [o \in Ops |->
     LET h == HomeOf[o]
         ahead == AheadOf(h, jslot[h][h]) IN
     IF h \in Present /\ ~Sealed(h) /\ ahead # {}
       THEN slot[h][CHOOSE i \in ahead : TRUE].digest[o] ELSE jent[o]]
LoadedSlots(h) ==
  IF Sealed(h) THEN jslot[h] ELSE [jslot[h] EXCEPT ![h] = slot[h]]

Uniform(ent, final) == \A o \in OpsPresent : ent[o].status = final
Finals == {"applied", "rolled-back"}

\* Evidence every cleanup journal shares.
GroupSlots == jslot[CHOOSE h \in Present : Sealed(h)]
FinalOf(h) == IF \A o \in OpsOf(h) : jent[o].status = "applied" THEN "applied" ELSE "rolled-back"

\* _validate_cleanup_survivors: journals may be missing only while cleaning up.
SurvivorsOk ==
  /\ \A h \in Present : Sealed(h) /\ jslot[h] = GroupSlots
  /\ \E f \in Finals :
       /\ Uniform(jent, f)
       /\ \A h \in Homes :
            IF h \in Present THEN CleanupAnchorsOk(h, jent, GroupSlots[h], f)
            ELSE /\ slot[h] = GroupSlots[h]
                 /\ Cardinality({i \in Slots : slot[h][i] = CleanupRoot(f)}) = 1

\* _validate_transaction_commitment over the complete participant set.
GroupOk ==
  \A h \in Homes :
    IF Sealed(h) THEN CleanupAnchorsOk(h, jent, jslot[h][h], FinalOf(h))
                 ELSE AnchorsOk(h, jent, jslot[h][h])

BackupsOk == \A o \in OpsPresent : ~Sealed(HomeOf[o]) /\ HasBackup(o) => backup[o]

\* Cleanup has begun and every operation shares one final status.
Decided(f) == (\E h \in Present : Sealed(h)) /\ Uniform(Loaded, f)
FilesMatch(f) ==
  \A o \in OpsPresent :
    file[o] = IF f = "applied" THEN Loaded[o].after ELSE Loaded[o].before
\* A retry of the staging adopts the roots only if all match exactly.
RetryOk(f) ==
  \A h \in Homes : /\ CleanupAnchorsOk(h, Loaded, GroupSlots[h], f)
                   /\ Sealed(h) => jslot[h] = GroupSlots

\* The zero-write check of one operation before a rollback.
Verdict(o) ==
  LET e == Loaded[o] IN
  CASE e.status \in {"applying", "applied"} ->
         IF \/ LooksBefore(o, file[o]) /\ file[o] = e.before
            \/ LooksAfter(o, file[o]) /\ file[o] = e.after
         THEN "ok" ELSE "incomplete"
    [] e.status \in {"planned", "rolled-back"} ->
         IF file[o] = e.before THEN "ok" ELSE "blocked"
    [] OTHER -> "incomplete"

Resume(p, t, h, m) ==
  /\ Goto(p, t, 1, h) /\ mode' = m /\ goal' = "absent" /\ err' = FALSE
  /\ ment' = Loaded
  /\ mslot' = [g \in Homes |-> IF m = "seal" THEN GroupSlots ELSE LoadedSlots(g)]
  /\ fresh' = [g \in Homes |-> g \in Present]
  /\ UNCHANGED <<exit>>

Recover ==
  /\ pc = "down" /\ (Present # {} \/ debris = "name")
  /\ LET partial == Present # Homes
         loads == /\ debris # "name" /\ BackupsOk
                  /\ IF partial THEN SurvivorsOk ELSE GroupOk
         valid == loads /\ debris # "link"
         bad == {o \in Ops : Verdict(o) # "ok"}
     IN
     \/ ~loads /\ End("blocked")
     \/ loads /\ ~valid /\ End("incomplete")
     \/ \E f \in Finals :
          /\ valid /\ Decided(f)
          /\ IF FilesMatch(f) /\ (partial \/ RetryOk(f))
               THEN IF partial
                      THEN \E h \in Present : /\ \A g \in Present : h <= g
                                              /\ Resume("remove", "remove", h, "seal")
                      ELSE Resume("detach", "cleanup", 1, "seal")
               ELSE End("incomplete")
     \/ /\ valid /\ ~\E f \in Finals : Decided(f)
        /\ IF \E h \in Present : Sealed(h) THEN End("blocked")
           ELSE \/ \E o \in bad : (\A p \in bad : o <= p) /\ End(Verdict(o))
                \/ bad = {} /\ Resume("detach", "in-progress", 1, "recover")
  /\ UNCHANGED <<disk, bounds>>

-----------------------------------------------------------------------------
(***************************************************************************)
(* What goes wrong.                                                        *)
(***************************************************************************)
Running == pc \notin {"start", "down"}

\* A system call raises with its effect undone, or half done for an anchor.
FaultBefore ==
  /\ faults < MaxFaults /\ faults' = faults + 1
  /\ pc \in {"create", "root", "rewrite", "detach", "install", "stage", "remove",
             "unlink", "reverse"} \cup CasPcs
  /\ \E left \in IF pc \in CasPcs THEN CasLeft ELSE {file[op]} :
       file' = [file EXCEPT ![op] = left]
  /\ Raise(fresh) /\ MayLeaveName
  /\ UNCHANGED <<backup, jrb, jent, jslot, slot>>

\* A journal write raises after the journal was linked: its identity is unknown.
\* (A journal created this way was not recorded as owned, and is not removed.)
FaultAfter ==
  /\ faults < MaxFaults /\ faults' = faults + 1
  /\ pc \in {"create", "install"}
  /\ IF pc = "install" THEN InstallJournal ELSE LinkJournal
  /\ Raise([fresh EXCEPT ![home] = FALSE]) /\ MayLeaveName
  /\ UNCHANGED <<file, backup, slot>>

\* Between the first step of a mutation and the durable root that records the
\* identity it left, unless that identity is the one already recorded.
InFileWindow ==
  \/ pc \in {"cas-look", "cas-unlink", "cas-settle"}
  \/ pc = "cas-install" /\ Want # "absent"
  \/ /\ pc \in {"root", "rewrite"}
     /\ \/ task = "applied" /\ goal # ment[op].after
        \/ task = "rolled-back" /\ goal # ment[op].before

Window ==
  CASE InFileWindow -> {"file"}
    [] (pc = "create" /\ home > 1) \/ pc = "unprepare" -> {"prepare"}
    [] pc = "unlink" -> {"backup"}
    [] OTHER -> {}

\* A journal that is being created, replaced or removed when the process is killed:
\* as before the step, without a name in mid-replacement, or, while the other name
\* of the compare-and-swap is still there, as after it.
KilledJournal(named) ==
  \/ /\ jrb' = IF pc = "install" THEN [jrb EXCEPT ![home] = "none"] ELSE jrb
     /\ UNCHANGED <<jent, jslot>>
  \/ named /\ pc = "create" /\ LinkJournal
  \/ named /\ pc = "install" /\ InstallJournal
  \/ /\ named /\ pc = "remove"
     /\ jrb' = [jrb EXCEPT ![home] = "none"] /\ UNCHANGED <<jent, jslot>>

\* The process is killed, with or without a second name in a listed directory: in
\* mid-replacement the name is certain, in any other step it may not be there yet.
Crash ==
  /\ Running /\ crashes < MaxCrashes /\ crashes' = crashes + 1
  /\ \E named \in {n \in BOOLEAN : (n => Naming) /\ (pc = "install" => n)} :
       /\ KilledJournal(named)
       /\ windows' = windows \cup Window \cup (IF named THEN {"name"} ELSE {})
                       \cup (IF pc = "install" /\ jrb'[home] = "none" THEN {"journal"} ELSE {})
       /\ debris' = IF named THEN "name" ELSE IF pc = "unlink" THEN "link" ELSE debris
  /\ End("killed")
  /\ UNCHANGED <<file, backup, slot, faults, edits, touched>>

\* The user rewrites or deletes a managed file.
UserEdit ==
  /\ edits < MaxEdits /\ edits' = edits + 1
  /\ \E o \in Ops, f \in {"foreign", "absent"} :
       /\ file[o] # f /\ file' = [file EXCEPT ![o] = f]
       /\ touched' = touched \cup {o}
  /\ UNCHANGED <<backup, jrb, jent, jslot, slot, ctl, mem, exit,
                 crashes, faults, windows, debris>>

-----------------------------------------------------------------------------
Init ==
  /\ file = [o \in Ops |-> Before(o)]
  /\ backup = [o \in Ops |-> FALSE]
  /\ jrb = [h \in Homes |-> "none"]
  /\ jent = [o \in Ops |-> Planned(o)]
  /\ jslot = [h \in Homes |-> [g \in Homes |-> [i \in Slots |-> NoAnchor]]]
  /\ slot = [h \in Homes |-> [i \in Slots |-> NoAnchor]]
  /\ pc = "start" /\ task = "none" /\ op = 1 /\ home = 1
  /\ mode = "none" /\ goal = "absent" /\ err = FALSE
  /\ ment = jent /\ mslot = jslot /\ fresh = [h \in Homes |-> FALSE]
  /\ exit = "none"
  /\ crashes = 0 /\ faults = 0 /\ edits = 0 /\ touched = {} /\ windows = {}
  /\ debris = "none"

Process ==
  \/ Prepare \/ CreateJournal \/ Unprepare
  \/ RootOpen \/ RootRefused \/ RootWrite \/ JournalDetach \/ JournalInstall
  \/ Cas \/ Reverse
  \/ Stage \/ LinkBackup \/ RemoveBackup \/ RemoveJournal \/ RemoveMarks
Next == Process \/ Recover \/ FaultBefore \/ FaultAfter \/ Crash \/ UserEdit

Spec == Init /\ [][Next]_vars
\* The process runs on and the user re-runs the installer; nothing makes
\* crashes, faults or edits happen.
FairSpec == Spec /\ WF_vars(Process) /\ WF_vars(Recover)

-----------------------------------------------------------------------------
(***************************************************************************)
(* Properties.                                                             *)
(***************************************************************************)
Pairs(h) == [Slots -> Anchors(h)]
\* The slots of every home, as found on disk or recorded in a journal.
IsSlotMap(m) == m = [h \in Homes |-> m[h]] /\ \A h \in Homes : m[h] \in Pairs(h)
AreSlotMaps(m) == m = [h \in Homes |-> m[h]] /\ \A h \in Homes : IsSlotMap(m[h])
Pcs == {"start", "create", "unprepare", "root", "rewrite", "detach", "install",
        "reverse", "stage", "remove", "unlink", "marks", "down"} \cup CasPcs
Tasks == {"none", "prepare", "applying", "apply", "applied", "in-progress", "reverse",
          "rolled-back", "ambiguous", "bulk", "seal", "cleanup", "remove"}
Exits == {"none", "success", "rolled-back", "uncleaned", "incomplete", "blocked",
          "recovered", "killed"}

DiskOK ==
  /\ file \in [Ops -> FileIds] /\ backup \in [Ops -> BOOLEAN]
  /\ jrb \in [Homes -> {"none", "not-started", "in-progress", "cleanup"}]
  /\ jent \in [Ops -> Entry] /\ AreSlotMaps(jslot) /\ IsSlotMap(slot)
CtlOK == pc \in Pcs /\ task \in Tasks /\ op \in Ops /\ home \in Homes
MemOK ==
  /\ mode \in {"none", "apply", "rollback", "recover", "seal"} /\ goal \in Evidence
  /\ ment \in [Ops -> Entry] /\ AreSlotMaps(mslot)
  /\ fresh \in [Homes -> BOOLEAN] /\ err \in BOOLEAN
OutcomeOK == exit \in Exits
BoundsOK ==
  /\ crashes \in Nat /\ faults \in Nat /\ edits \in Nat
  /\ touched \subseteq Ops /\ debris \in {"none", "name", "link"}
  /\ windows \subseteq {"file", "journal", "prepare", "backup", "name"}

\* The shape of the disk, of the process's memory and of the outcome.  No journal,
\* in memory, on disk or in a root, records a user's file as evidence; a journal's
\* rollback_status is one of the three that are ever written ("incomplete" is a
\* value of the schema that no journal on disk has).
TypeOK == DiskOK /\ CtlOK /\ MemOK /\ OutcomeOK /\ BoundsOK

Untouched == Ops \ touched
AllBefore == \A o \in Untouched : LooksBefore(o, file[o])
AllAfter == \A o \in Untouched : LooksAfter(o, file[o])
Dirty(o) == o \in Untouched /\ file[o] # Before(o)

\* Once no journal is left and nobody runs, the files the user left alone are
\* all as before the transaction or all as after it, across the homes, whatever
\* was killed or raised, unless a process died while a journal had no name.
SettledAtomic ==
  pc = "down" /\ Present = {} /\ "journal" \notin windows => AllBefore \/ AllAfter

\* A cleanup journal is the decision: from the first one on, every home's files
\* are those of that decision, also the files of homes not yet sealed.
DecisionUniform ==
  \A h \in Present : Sealed(h) =>
    IF FinalOf(h) = "applied" THEN AllAfter ELSE AllBefore

\* As long as one journal could still be rolled back, the backup of every file
\* that no longer is the original one exists.
BackupKept ==
  (\E h \in Present : ~Sealed(h)) => \A o \in Ops : Dirty(o) /\ HasBackup(o) => backup[o]

\* A file is changed only after its journal says so; a home whose journal is
\* gone has changed files only when no other journal can be rolled back.
WriteAhead ==
  \A o \in Ops : Dirty(o) =>
    \/ HomeOf[o] \in Present /\ jent[o].status # "planned"
    \/ HomeOf[o] \notin Present /\ \A h \in Present : Sealed(h)
    \/ "journal" \in windows

\* Whenever the process may die, each journal on disk rests on an intact root,
\* in spite of roots being overwritten in place.
JournalBacked ==
  faults = 0 => \A h \in Present : Backing(h, jent, jslot[h][h]) # {}

\* Changed files form a prefix of the operation order at every moment, so a
\* manifest (last in its home) never lists a file that is not installed yet.
PrefixApplied ==
  faults = 0 => \A o, p \in Untouched :
    o < p /\ ~LooksBefore(p, file[p]) => ~LooksBefore(o, file[o])

\* Recovery gives up only when the user edited a managed file, a system call
\* raised, or a process was killed in one of five windows: a managed file between its
\* mutation and the durable evidence of it, a journal between its names, the journals
\* being created or withdrawn, a backup being unlinked, and a compare-and-swap with a
\* second name in a directory that every command inventories.
RefusalJustified ==
  exit \in {"incomplete", "blocked"} => touched # {} \/ faults > 0 \/ windows # {}

\* Success is reported only with every file installed and every journal gone.
SuccessMeansInstalled == exit = "success" => AllAfter /\ Present = {}

\* After the decision no step of the installer changes a managed file: only the
\* user does.
SealedFreezesFiles ==
  [][(\E h \in Present : Sealed(h)) => file' = file \/ edits' # edits]_vars

\* Every step of the installer, its rollback and its recovery looks before it
\* replaces or deletes: what the user put at a managed path is lost to the next edit
\* of the user, to the unlink by name that follows the last look (an edit between
\* the two), or to the unlink in the clean-up of a replacement that raised.
EditsSurvive ==
  [][\A o \in Ops : file[o] = "foreign" =>
       \/ file'[o] = "foreign" \/ edits' # edits
       \/ op = o /\ pc = "cas-unlink"
       \/ op = o /\ pc = "cas-settle" /\ faults' # faults]_vars

\* Once processes stop being killed, either the journals go away or recovery
\* keeps refusing.
EventuallySettled ==
  <>[](pc = "down" /\ (Present = {} \/ exit \in {"incomplete", "blocked"}))

(***************************************************************************)
(* A claim of the documentation the code does not keep (see README).       *)
(***************************************************************************)
\* README.md:383, "If rollback is interrupted, the journal and unresolved
\* evidence remain for a later validated recovery": killing a process never takes
\* away the journal of a home while the group is neither all before nor all after.
InterruptionKeepsJournal ==
  pc = "down" /\ exit = "killed" =>
    \A h \in Homes : (\E o \in OpsOf(h) : Dirty(o)) => AllAfter \/ h \in Present
=============================================================================
