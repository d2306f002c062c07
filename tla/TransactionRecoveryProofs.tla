--------------------- MODULE TransactionRecoveryProofs ----------------------
(***************************************************************************)
(* What a recovery finds, for every number of homes and operations and     *)
(* every bound on crashes and edits, as long as no system call raises:     *)
(* journals that rest on intact roots, files that changed in order, and,   *)
(* unless the user edited a file or a process died in a window the README  *)
(* names, a group of journals that it accepts.                             *)
(***************************************************************************)
EXTENDS TransactionProofs, FiniteSetTheorems

\* The tasks that write a root and then the journal it announces.
WriteTasks == {"applying", "applied", "rolled-back", "ambiguous", "bulk"}
\* A journal is being replaced, from the torn root to the new journal.
Recording == pc \in {"rewrite", "detach", "install"} /\ task \in WriteTasks
\* The cleanup roots are being written.
Sealing == pc \in {"root", "rewrite"} /\ task = "seal"

-----------------------------------------------------------------------------
(* The inductive invariant while no system call raises, part by part. *)

\* The process holds the journal of every home.
FreshHeld ==
  /\ pc \in ActivePcs => \A h \in Homes : fresh[h]
  /\ pc = "create" => \A h \in Homes : h < home => fresh[h]
  /\ pc # "unprepare"

\* Slot i of home h holds its newest root, and that is over the entries ent.
Rests(h, ent, i) ==
  /\ i \in RootsOf(h, ent)
  /\ \A k \in Slots : IsProgress(slot[h][k]) => slot[h][k].seq <= slot[h][i].seq

\* The journal of h on disk rests on slot i; what else it recorded is not newer.
Backs(h, i) ==
  /\ i \in Backing(h, jent, jslot[h][h])
  /\ \A k \in Slots : IsProgress(slot[h][k]) /\ slot[h][k] = jslot[h][h][k]
                        => slot[h][k].seq <= slot[h][i].seq
Backed(h) == \E i \in Slots : Backs(h, i)
DiskBacked == \A h \in Present : Backed(h)

\* What memory holds of home h is on disk: the slots, and the root of the journal.
Held(h) == mslot[h][h] = slot[h]
Rooted(h) == \E i \in Slots : Rests(h, ment, i) /\ slot[h][i] = mslot[h][h][i]

\* Home h's journal on disk is the one in memory.
InStep(h) == jslot[h][h] = mslot[h][h] /\ \A o \in OpsOf(h) : jent[o] = ment[o]

\* Preparation: planned entries, a root over them in both slots.
Preparing ==
  /\ pc = "start" => ment = [o \in Ops |-> Planned(o)]
  /\ pc = "create" => \A h \in Homes :
       /\ Held(h) /\ \A i \in Slots : Rests(h, ment, i)
       /\ h < home => InStep(h)

\* Memory and roots agree, but for the home whose root is being written.
Memory ==
  pc \in ActivePcs => \A h \in Homes : (Recording => h # home) =>
    /\ ~Sealing \/ h > home \/ (h = home /\ pc = "root") => Held(h)
    /\ Rooted(h)

\* There the old root is intact while the other slot is torn or has the new one.
Announced(i) ==
  /\ i \in Backing(home, ment, mslot[home][home])
  /\ IsProgress(mslot[home][home][3 - i]) =>
       mslot[home][home][3 - i].seq <= slot[home][i].seq
  /\ slot[home][3 - i] =
       IF pc = "rewrite" THEN Torn
       ELSE Progress(slot[home][i].seq + 1, Digest(home, Pending))
Writing ==
  /\ Recording => \E i \in Slots : Announced(i)
  /\ pc = "rewrite" => \E k \in Slots : slot[home][k] = Torn

\* The journals on disk are those in memory; a recovery first rewrites them.
Synced ==
  pc \in ActivePcs => \A h \in Homes :
    task # "cleanup" /\ (task = "in-progress" => h < home) => InStep(h)

SlotInv == DiskBacked /\ Preparing /\ Memory /\ Writing /\ Synced

-----------------------------------------------------------------------------
(* Slots and roots. *)

\* The two slots of a home, and what a root in one of them is.
LEMMA SlotTyped ==
  ASSUME DiskOK, NEW h \in Homes, NEW i \in Slots
  PROVE  /\ slot[h] = [k \in Slots |-> slot[h][k]]
         /\ slot[h][i] \in Anchors(h)
         /\ IsProgress(slot[h][i]) => slot[h][i].seq \in Nat
         /\ IsProgress(slot[h][i]) => slot[h][i].digest \in [OpsOf(h) -> Entry]
<1>1. slot[h] \in [Slots -> Anchors(h)]
  BY DEF DiskOK, IsSlotMap, Pairs
<1>2. slot[h][i] \in Anchors(h)
  BY <1>1
<1> QED
  BY <1>1, <1>2 DEF Anchors, IsProgress

LEMMA DigestSame ==
  ASSUME NEW h, NEW e, NEW f, \A o \in OpsOf(h) : e[o] = f[o]
  PROVE  Digest(h, e) = Digest(h, f)
BY DEF Digest

\* The root the next one does not overwrite is the newest there is.
LEMMA NewestRests ==
  ASSUME DiskOK, NEW h \in Homes, NEW ent, NEW i \in Slots, Rests(h, ent, i)
  PROVE  /\ Rests(h, ent, Newest(h, RootsOf(h, ent)))
         /\ Newest(h, RootsOf(h, ent)) \in Slots
<1> DEFINE S == RootsOf(h, ent)
           n == Newest(h, S)
<1>1. S \in SUBSET Slots /\ i \in S
  BY DEF RootsOf, Rests
<1>2. n \in S /\ n \in Slots
  BY <1>1, NewestIn
<1>3. \A k \in S : IsProgress(slot[h][k]) /\ slot[h][k].seq \in Nat
  BY SlotTyped DEF RootsOf
<1>4. n = IF 1 \in S /\ (2 \in S => slot[h][1].seq > slot[h][2].seq) THEN 1 ELSE 2
  BY Zenon DEF Newest
<1>5. slot[h][i].seq <= slot[h][n].seq
  <2>1. CASE i = n
    BY <1>2, <1>3, <2>1
  <2>2. CASE n = 1 /\ i = 2
    <3>1. slot[h][1].seq > slot[h][2].seq
      BY <1>1, <1>4, <2>2
    <3> QED
      BY <1>1, <1>2, <1>3, <2>2, <3>1
  <2>3. CASE n = 2 /\ i = 1
    <3>1. ~(slot[h][1].seq > slot[h][2].seq)
      BY <1>1, <1>4, <2>3
    <3> QED
      BY <1>1, <1>2, <1>3, <2>3, <3>1
  <2> QED
    BY <1>1, <1>2, <2>1, <2>2, <2>3 DEF Slots
<1>6. ASSUME NEW k \in Slots, IsProgress(slot[h][k])
      PROVE  slot[h][k].seq <= slot[h][n].seq
  <2>1. slot[h][k].seq <= slot[h][i].seq /\ slot[h][k].seq \in Nat
    BY <1>6, SlotTyped DEF Rests
  <2> QED
    BY <1>1, <1>2, <1>3, <1>5, <2>1
<1> QED
  BY <1>2, <1>6 DEF Rests

\* A home that holds what is on disk is ready for the next root.
LEMMA HeldReady ==
  ASSUME DiskOK, NEW h \in Homes, Held(h), Rooted(h)
  PROVE  /\ Backing(h, ment, mslot[h][h]) = RootsOf(h, ment)
         /\ AheadOf(h, mslot[h][h]) = {}
         /\ AnchorsOk(h, ment, mslot[h][h])
<1>1. Backing(h, ment, mslot[h][h]) = RootsOf(h, ment)
  BY DEF Held, Backing, RootsOf
<1>2. AheadOf(h, mslot[h][h]) = {}
  BY DEF Held, AheadOf
<1>3. RootsOf(h, ment) # {}
  BY DEF Rooted, Rests
<1>4. Cardinality({}) <= 1
  BY FS_EmptySet
<1> QED
  BY <1>1, <1>2, <1>3, <1>4 DEF AnchorsOk

\* Nothing changes for a home whose slots and entries stay.
LEMMA HomeStays ==
  ASSUME NEW h \in Homes, slot'[h] = slot[h]
  PROVE  /\ (\A o \in OpsOf(h) : ment'[o] = ment[o]) =>
              /\ \A i \in Slots : Rests(h, ment, i) => Rests(h, ment, i)'
              /\ mslot'[h] = mslot[h] => (Held(h) => Held(h)') /\ (Rooted(h) => Rooted(h)')
         /\ jslot'[h] = jslot[h] /\ (\A o \in OpsOf(h) : jent'[o] = jent[o]) =>
              /\ Backed(h) => Backed(h)'
              /\ mslot'[h] = mslot[h] /\ (\A o \in OpsOf(h) : ment'[o] = ment[o])
                   => (InStep(h) => InStep(h)')
<1>1. ASSUME \A o \in OpsOf(h) : ment'[o] = ment[o]
      PROVE  /\ \A i \in Slots : Rests(h, ment, i) => Rests(h, ment, i)'
             /\ mslot'[h] = mslot[h] => (Held(h) => Held(h)') /\ (Rooted(h) => Rooted(h)')
  <2>1. Digest(h, ment') = Digest(h, ment)
    BY <1>1, DigestSame
  <2> QED
    BY <2>1 DEF Rests, RootsOf, Held, Rooted, IsProgress
<1>2. ASSUME jslot'[h] = jslot[h], \A o \in OpsOf(h) : jent'[o] = jent[o]
      PROVE  Backed(h) => Backed(h)'
  <2>1. Digest(h, jent') = Digest(h, jent)
    BY <1>2, DigestSame
  <2> QED
    BY <1>2, <2>1 DEF Backed, Backs, Backing, RootsOf, IsProgress
<1> QED
  BY <1>1, <1>2 DEF InStep

-----------------------------------------------------------------------------
(* Steps in which no system call raises. *)

LEMMA NoFaults ==
  ASSUME TypeOK, [Next]_vars, faults' = 0
  PROVE  faults = 0 /\ ~FaultBefore /\ ~FaultAfter
<1>1. FaultBefore \/ FaultAfter => faults' = faults + 1
  BY DEF FaultBefore, FaultAfter
<1>2. FaultBefore \/ FaultAfter \/ UNCHANGED faults
  BY DEF Next, Process, Prepare, CreateJournal, Unprepare, RootOpen, RootRefused, RootWrite,
       JournalDetach, JournalInstall, Cas, CasLink, CasLook, CasUnlink, CasInstall, CasSettle, CasStep,
       Reverse, Stage, LinkBackup, RemoveBackup, RemoveJournal, RemoveMarks, Recover, Crash, UserEdit,
       vars, bounds
<1> QED
  BY <1>1, <1>2 DEF TypeOK, BoundsOK

\* The next root can always be written.
LEMMA RootIsReady == TypeOK /\ Memory /\ pc = "root" => RootReady
<1> SUFFICES ASSUME TypeOK, Memory, pc = "root" PROVE RootReady
  OBVIOUS
<1>1. home \in Homes /\ DiskOK
  BY DEF TypeOK, CtlOK
<1>2. Held(home) /\ Rooted(home)
  BY <1>1 DEF Memory, Recording, ActivePcs, WritePcs
<1> QED
  BY <1>1, <1>2, HeldReady DEF RootReady, AnchorsOk

\* The journals can always be staged.
LEMMA StageIsReady ==
  ASSUME TypeOK, AtomicInv, FreshHeld, Memory, pc = "stage"
  PROVE  \A h \in Homes : /\ fresh[h] /\ AnchorsOk(h, ment, mslot[h][h])
                          /\ \A o \in OpsOf(h) : HasBackup(o) => backup[o]
<1> SUFFICES ASSUME NEW h \in Homes
             PROVE  /\ fresh[h] /\ AnchorsOk(h, ment, mslot[h][h])
                    /\ \A o \in OpsOf(h) : HasBackup(o) => backup[o]
  OBVIOUS
<1> USE DEF ActivePcs
<1>1. Held(h) /\ Rooted(h)
  BY DEF Memory, Recording, Sealing
<1>2. AnchorsOk(h, ment, mslot[h][h])
  BY <1>1, HeldReady DEF TypeOK
<1>3. \A o \in OpsOf(h) : HasBackup(o) => backup[o]
  BY DEF AtomicInv, Consistent, BackupsHeld, Flow, OpsOf
<1> QED
  BY <1>2, <1>3 DEF FreshHeld

\* Only a mutation whose file is not what it expects raises, and a stage that
\* has nothing left to do ends.
LEMMA RaisesAt ==
  ASSUME TypeOK, AtomicInv, FreshHeld, Memory
  PROVE  /\ ~RootRefused
         /\ JournalDetach => pc' = "install" /\ UNCHANGED <<task, op, home, mem, exit>>
         /\ Stage => \/ End("incomplete")
                     \/ Goto("root", "seal", op, 1) /\ UNCHANGED <<mem, exit>>
<1>1. ~RootRefused
  BY RootIsReady DEF RootRefused
<1>2. JournalDetach => pc' = "install" /\ UNCHANGED <<task, op, home, mem, exit>>
  BY DEF JournalDetach, FreshHeld, ActivePcs, WritePcs, TypeOK, CtlOK
<1>3. Stage => \/ End("incomplete")
               \/ Goto("root", "seal", op, 1) /\ UNCHANGED <<mem, exit>>
  BY StageIsReady DEF Stage
<1> QED
  BY <1>1, <1>2, <1>3

LEMMA FreshStep ==
  ASSUME TypeOK, AtomicInv, FreshHeld, Memory, [Next]_vars, faults' = 0
  PROVE  FreshHeld'
<1> USE DEF Goto, FreshHeld, CasPcs, WritePcs, ActivePcs, mem, ctl
<1>1. fresh \in [Homes -> BOOLEAN] /\ home \in 1..NumHomes /\ NumHomes \in Nat
  BY TransactionAssumption DEF TypeOK, MemOK, CtlOK, Homes
<1>2. ASSUME \E status : End(status)
      PROVE  FreshHeld'
  BY <1>2 DEF End
<1>3. ASSUME Raise(fresh), pc \in ActivePcs, pc # "create"
      PROVE  FreshHeld'
  <2>1. (\E status : End(status)) \/ (fresh' = fresh /\ pc' \in ActivePcs)
    BY <1>3, RaiseGoes DEF Raise, AtomicInv, Consistent
  <2> QED
    BY <1>2, <1>3, <2>1
<1>4. CASE Prepare
  BY <1>1, <1>2, <1>4 DEF Prepare, Homes
<1>5. CASE CreateJournal
  <2>1. \A h \in Homes : h <= home => fresh'[h]
    BY <1>1, <1>5 DEF CreateJournal, Homes
  <2> QED
    BY <1>1, <1>5, <2>1 DEF CreateJournal, ToApply, Homes
<1>6. CASE RootOpen \/ RootWrite
  BY <1>6 DEF RootOpen, RootWrite, AfterSeal
<1>7. CASE JournalDetach \/ RootRefused \/ Stage
  BY <1>2, <1>7, RaisesAt DEF JournalDetach, Stage
<1>8. CASE JournalInstall
  BY <1>8, JournalGoes DEF JournalInstall
<1>9. ASSUME NEW from \in CasPcs, NEW expected, NEW leaves, CasStep(from, expected, leaves)
      PROVE  FreshHeld'
  BY <1>3, <1>9, CasGoes DEF CasStep
<1>10. CASE Cas
  BY <1>9, <1>10 DEF Cas, CasLink, CasLook, CasUnlink, CasInstall, CasSettle
<1>11. CASE Reverse
  BY <1>3, <1>11 DEF Reverse, CasEntry
<1>12. CASE LinkBackup \/ RemoveBackup \/ RemoveJournal \/ UserEdit \/ UNCHANGED vars
  BY <1>12 DEF LinkBackup, RemoveBackup, RemoveJournal, UserEdit, vars
<1>13. CASE RemoveMarks \/ Crash
  BY <1>2, <1>13 DEF RemoveMarks, Crash
<1>14. CASE Recover
  <2>1. ASSUME Present # Homes, \A h \in Present : ~Sealed(h)
        PROVE  ~SurvivorsOk \/ Present = {}
    BY <2>1 DEF SurvivorsOk
  <2> QED
    BY <1>2, <1>14, <2>1 DEF Recover, Resume
<1> QED
  BY <1>4, <1>5, <1>6, <1>7, <1>8, <1>10, <1>11, <1>12, <1>13, <1>14, NoFaults
     DEF Next, Process, Unprepare

\* Between two writes: all homes are rooted, and memory and disk agree.
LEMMA AllHeld ==
  ASSUME DiskBacked', \A h \in Homes : Held(h)' /\ Rooted(h)' /\ InStep(h)',
         pc' \notin {"start", "create", "rewrite", "install"},
         pc' = "detach" => task' \notin WriteTasks
  PROVE  SlotInv'
BY DEF SlotInv, Preparing, Memory, Writing, Synced, Recording, Sealing

\* The process does not write journals any more: the disk counts.
LEMMA DiskStays ==
  ASSUME DiskBacked, TypeOK, Present' \subseteq Present, UNCHANGED <<slot, jent, jslot>>
  PROVE  DiskBacked'
<1>1. \A h \in Present : Backed(h)'
  BY HomeStays DEF DiskBacked, Present
<1> QED
  BY <1>1 DEF DiskBacked

LEMMA SlotLeave ==
  ASSUME SlotInv, TypeOK, Present' \subseteq Present, UNCHANGED <<slot, jent, jslot>>,
         pc' \notin ActivePcs \cup {"start", "create"}
  PROVE  SlotInv'
<1>1. DiskBacked'
  BY DiskStays DEF SlotInv
<1> QED
  BY <1>1 DEF SlotInv, Preparing, Memory, Writing, Synced, Recording, ActivePcs, WritePcs

\* A step that leaves slots, journals and what memory holds of them.
LEMMA SlotQuiet ==
  ASSUME SlotInv, TypeOK, UNCHANGED <<slot, jrb, jent, jslot, ment, mslot>>,
         \/ UNCHANGED <<pc, task, op, home, goal>>
         \/ pc = "detach" /\ pc' = "install" /\ UNCHANGED <<task, op, home, goal>>
         \/ /\ pc \in CasPcs \cup {"reverse", "stage"} /\ pc' \in ActivePcs \ {"rewrite", "install"}
            /\ task \notin {"in-progress", "cleanup"}
            /\ pc' = "detach" => task' \notin WriteTasks
  PROVE  SlotInv'
<1> USE DEF SlotInv
<1>1. DiskBacked'
  BY DiskStays DEF Present
<1>2. UNCHANGED <<slot, jrb, jent, jslot, ment, mslot>>
  OBVIOUS
<1>3. CASE \/ UNCHANGED <<pc, task, op, home, goal>>
           \/ pc = "detach" /\ pc' = "install" /\ UNCHANGED <<task, op, home, goal>>
  <2> USE DEF ActivePcs, WritePcs
  <2>1. Pending' = Pending /\ (Recording <=> Recording') /\ (Sealing <=> Sealing')
    BY <1>3 DEF Pending, Recording, Sealing
  <2>2. \A i : Announced(i) => Announced(i)'
    BY <1>3, <2>1 DEF Announced, Backing, RootsOf, IsProgress
  <2>3. Writing'
    BY <1>3, <2>1, <2>2 DEF Writing
  <2>4. Memory' /\ Synced'
    BY <1>2, <1>3, <2>1, HomeStays DEF Memory, Synced
  <2>5. Preparing'
    BY <1>2, <1>3, HomeStays DEF Preparing
  <2> QED
    BY <1>1, <2>3, <2>4, <2>5
<1>4. CASE /\ pc \in CasPcs \cup {"reverse", "stage"} /\ pc' \in ActivePcs \ {"rewrite", "install"}
           /\ task \notin {"in-progress", "cleanup"}
           /\ pc' = "detach" => task' \notin WriteTasks
  <2> USE DEF ActivePcs, WritePcs, CasPcs
  <2>1. \A h \in Homes : Held(h) /\ Rooted(h) /\ InStep(h)
    BY <1>4 DEF Memory, Synced, Recording, Sealing
  <2>2. \A h \in Homes : Held(h)' /\ Rooted(h)' /\ InStep(h)'
    BY <1>2, <2>1, HomeStays
  <2> QED
    BY <1>1, <1>4, <2>2, AllHeld
<1> QED
  BY <1>3, <1>4

-----------------------------------------------------------------------------
(* Roots are written in place. *)

\* The slot that is opened is not the newest root's.
LEMMA OpenSlot ==
  ASSUME TypeOK, Memory, pc = "root"
  PROVE  \E n \in Slots : /\ Rests(home, ment, n) /\ slot[home][n] = mslot[home][home][n]
                          /\ RootSlot = 3 - n /\ 3 - n \in Slots /\ 3 - n # n /\ Held(home)
<1>1. home \in Homes /\ DiskOK
  BY DEF TypeOK, CtlOK
<1>2. Held(home) /\ Rooted(home)
  BY <1>1 DEF Memory, Recording, ActivePcs, WritePcs
<1>3. PICK i \in Slots : Rests(home, ment, i)
  BY <1>2 DEF Rooted
<1> DEFINE n == Newest(home, RootsOf(home, ment))
<1>4. Rests(home, ment, n) /\ n \in Slots
  BY <1>1, <1>3, NewestRests
<1>5. RootSlot = 3 - n
  BY <1>1, <1>2, HeldReady DEF RootSlot, NextSlot
<1> QED
  BY <1>2, <1>4, <1>5 DEF Slots, Held

LEMMA RootOpenSlots == TypeOK /\ AtomicInv /\ SlotInv /\ RootOpen => SlotInv'
<1> SUFFICES ASSUME TypeOK, AtomicInv, SlotInv, RootOpen PROVE SlotInv'
  OBVIOUS
<1> USE DEF SlotInv
<1>1. pc = "root" /\ home \in Homes /\ DiskOK /\ UNCHANGED <<jrb, jent, jslot, ment>>
  BY DEF RootOpen, TypeOK, CtlOK
<1>2. PICK n \in Slots : /\ Rests(home, ment, n) /\ slot[home][n] = mslot[home][home][n]
                         /\ RootSlot = 3 - n /\ 3 - n \in Slots /\ 3 - n # n /\ Held(home)
  BY <1>1, OpenSlot
<1>3. task \in WriteTasks \cup {"seal"}
  BY <1>1 DEF AtomicInv, Consistent, Flow, WriteTasks
<1>4. \A h \in Homes : InStep(h)
  BY <1>1, <1>3 DEF Synced, ActivePcs, WritePcs, WriteTasks
<1>5. CASE task = "seal" /\ AfterSeal(slot) /\ UNCHANGED slot
  <2>1. DiskBacked'
    BY <1>1, <1>5, DiskStays DEF Present
  <2>2. \A h \in Homes : Rooted(h) /\ (h >= home => Held(h))
    BY <1>1 DEF Memory, Recording, ActivePcs, WritePcs, Homes
  <2>3. CASE home < NumHomes /\ Goto("root", "seal", op, home + 1) /\ UNCHANGED mslot
    <3>1. \A h \in Homes : Rooted(h)' /\ InStep(h)' /\ (h >= home + 1 => Held(h)')
      BY <1>1, <1>4, <1>5, <2>2, <2>3, HomeStays DEF Homes
    <3> QED
      BY <2>1, <2>3, <3>1 DEF Goto, Preparing, Memory, Writing, Synced, Recording, Sealing, Homes
  <2>4. CASE Goto("detach", "cleanup", op, 1) /\ mslot' = [h \in Homes |-> slot]
    <3>1. \A h \in Homes : Held(h)' /\ \A i \in Slots : Rests(h, ment, i) => Rests(h, ment, i)'
      BY <1>1, <1>5, <2>4, HomeStays DEF Held
    <3>2. \A h \in Homes : Rooted(h)'
      BY <2>2, <3>1 DEF Rooted, Held
    <3> QED
      BY <2>1, <2>4, <3>1, <3>2
         DEF Goto, Preparing, Memory, Writing, Synced, Recording, Sealing, WriteTasks
  <2> QED
    BY <1>5, <2>3, <2>4 DEF AfterSeal
<1>6. CASE Goto("rewrite", task, op, home) /\ slot' = [slot EXCEPT ![home][3 - n] = Torn]
           /\ UNCHANGED <<mslot, goal>>
  <2>0. home' = home
    BY <1>6 DEF Goto
  <2>1. /\ slot'[home][n] = slot[home][n] /\ slot'[home][3 - n] = Torn /\ ~IsProgress(Torn)
        /\ \A h \in Homes : h # home => slot'[h] = slot[h]
    BY <1>1, <1>2, <1>6, SlotTyped DEF DiskOK, IsSlotMap, Torn, IsProgress
  <2>2. \A k \in Slots : k = n \/ k = 3 - n
    BY <1>2 DEF Slots
  <2>3. Rests(home, ment, n)'
    BY <1>1, <1>2, <2>0, <2>1, <2>2 DEF Rests, RootsOf, IsProgress
  <2>4. Backed(home)'
    <3>1. Digest(home, jent) = Digest(home, ment)
      BY <1>1, <1>4, DigestSame DEF InStep
    <3> QED
      BY <1>1, <1>2, <1>4, <2>0, <2>1, <2>2, <3>1
         DEF Backed, Backs, Backing, RootsOf, Rests, IsProgress, InStep
  <2>5. DiskBacked'
    BY <1>1, <2>0, <2>1, <2>4, HomeStays DEF DiskBacked, Present
  <2>6. \A h \in Homes : /\ InStep(h)' /\ (h # home => Rooted(h)')
                         /\ h > home /\ Sealing => Held(h)'
                         /\ h # home /\ ~Sealing => Held(h)'
    <3>1. \A h \in Homes : InStep(h)'
      BY <1>1, <1>4, <1>6 DEF InStep
    <3>2. \A h \in Homes : h # home => Rooted(h) /\ (~Sealing \/ h > home => Held(h))
      BY <1>1 DEF Memory, Recording, ActivePcs, WritePcs
    <3>3. \A h \in Homes : h > home => h # home
      BY <1>1 DEF Homes
    <3> QED
      BY <1>1, <1>6, <2>1, <3>1, <3>2, <3>3, HomeStays
  <2>7. Rooted(home)'
    BY <1>1, <1>2, <1>6, <2>1, <2>3 DEF Rooted, Goto
  <2>8. Sealing <=> Sealing'
    BY <1>1, <1>6 DEF Goto, Sealing
  <2>9. Memory'
    BY <1>1, <1>3, <1>6, <2>6, <2>7, <2>8 DEF Memory, Goto, Recording, Homes, Sealing
  <2>10. Writing'
    <3>1. Recording' => Announced(n)'
      BY <1>1, <1>2, <1>6, <2>1, <2>3
         DEF Announced, Goto, Backing, Rests, RootsOf, IsProgress, Held
    <3> QED
      BY <1>1, <1>2, <1>6, <2>1, <3>1 DEF Writing, Goto
  <2> QED
    BY <1>6, <2>5, <2>6, <2>9, <2>10 DEF Goto, Preparing, Synced
<1> QED
  BY <1>2, <1>5, <1>6 DEF RootOpen

LEMMA RootWriteSlots == TypeOK /\ AtomicInv /\ SlotInv /\ RootWrite => SlotInv'
<1> SUFFICES ASSUME TypeOK, AtomicInv, SlotInv, RootWrite PROVE SlotInv'
  OBVIOUS
<1> USE DEF SlotInv
<1> DEFINE c == CHOOSE i \in Slots : slot[home][i] = Torn
<1>1. pc = "rewrite" /\ home \in Homes /\ DiskOK /\ UNCHANGED <<jrb, jent, jslot, ment, goal>>
  BY DEF RootWrite, TypeOK, CtlOK
<1>2. c \in Slots /\ slot[home][c] = Torn
  BY <1>1 DEF Writing
<1>3. task \in WriteTasks \cup {"seal"}
  BY <1>1 DEF AtomicInv, Consistent, Flow, WriteTasks
<1>4. \A h \in Homes : InStep(h)
  BY <1>1, <1>3 DEF Synced, ActivePcs, WritePcs, WriteTasks
<1>5. slot' = [slot EXCEPT ![home][c] = RootContent]
  BY DEF RootWrite
<1> HIDE DEF c
<1>6. /\ slot'[home][c] = RootContent
      /\ \A k \in Slots : k # c => slot'[home][k] = slot[home][k]
      /\ \A h \in Homes : h # home => slot'[h] = slot[h]
  BY <1>1, <1>2, <1>5, SlotTyped DEF DiskOK, IsSlotMap
<1>7. Digest(home, jent) = Digest(home, ment)
  BY <1>1, <1>4, DigestSame DEF InStep
<1>8. CASE task \in WriteTasks
  <2>1. Recording /\ UNCHANGED <<task, op, home, mslot>> /\ pc' = "detach"
    BY <1>1, <1>8 DEF Recording, RootWrite, Goto, WriteTasks
  <2>2. PICK i \in Slots : Announced(i)
    BY <2>1 DEF Writing
  <2>3. IsProgress(slot[home][i]) /\ slot[home][i].seq \in Nat /\ slot[home][3 - i] = Torn
    BY <1>1, <2>2, SlotTyped DEF Announced, Backing, RootsOf
  <2>4. c = 3 - i /\ c # i
    BY <1>2, <2>3 DEF Slots, IsProgress, Torn
  <2>5. RootContent = Progress(slot[home][i].seq + 1, Digest(home, Pending))
    <3> DEFINE B == Backing(home, ment, mslot[home][home])
    <3>1. i \in B /\ B \subseteq {i}
      BY <1>1, <1>2, <2>2, <2>4 DEF Announced, Backing, RootsOf, Slots, IsProgress, Torn
    <3>2. Newest(home, B) = i
      BY <3>1, NewestIn
    <3> QED
      BY <1>8, <3>2 DEF RootContent, LastSeq, WriteTasks
  <2>6. slot'[home][i] = slot[home][i] /\ slot'[home][3 - i] = RootContent
    BY <1>6, <2>4
  <2>7. RootContent.seq = slot[home][i].seq + 1
    BY <2>5 DEF Progress
  <2>8. Backed(home)'
    <3>1. i \in Backing(home, jent, jslot[home][home])'
      BY <1>1, <1>4, <1>7, <2>1, <2>2, <2>6
         DEF Announced, Backing, RootsOf, IsProgress, InStep
    <3>2. \A k \in Slots : k = i \/ k = 3 - i
      BY <1>2, <2>4 DEF Slots
    <3>3. \A k \in Slots : IsProgress(slot'[home][k]) /\ slot'[home][k] = jslot'[home][home][k]
                             => slot'[home][k].seq <= slot'[home][i].seq
      <4>1. ASSUME IsProgress(RootContent), RootContent = jslot[home][home][3 - i]
            PROVE  FALSE
        BY <1>1, <1>4, <2>2, <2>3, <2>7, <4>1 DEF Announced, InStep
      <4> QED
        BY <1>1, <2>3, <2>6, <3>2, <4>1 DEF IsProgress
    <3> QED
      BY <2>1, <3>1, <3>3 DEF Backed, Backs, IsProgress
  <2>9. DiskBacked'
    BY <1>1, <1>6, <2>1, <2>8, HomeStays DEF DiskBacked, Present
  <2>10. Announced(i)'
    <3>1. Pending' = Pending
      BY <1>1, <2>1 DEF Pending
    <3> QED
      BY <1>1, <2>1, <2>2, <2>5, <2>6, <3>1 DEF Announced, Backing, RootsOf, IsProgress
  <2>11. \A h \in Homes : InStep(h)' /\ (h # home => Held(h)' /\ Rooted(h)')
    <3>1. \A h \in Homes : InStep(h)'
      BY <1>1, <1>4, <2>1 DEF InStep
    <3>2. \A h \in Homes : h # home => Held(h) /\ Rooted(h)
      BY <1>1, <1>8 DEF Memory, Recording, Sealing, ActivePcs, WritePcs, WriteTasks
    <3> QED
      BY <1>1, <1>6, <2>1, <3>1, <3>2, HomeStays
  <2> QED
    BY <1>8, <2>1, <2>9, <2>10, <2>11 DEF Preparing, Memory, Writing, Synced, Recording, Sealing
<1>9. CASE task = "seal"
  <2>1. ~IsProgress(RootContent)
    BY <1>9 DEF RootContent, CleanupRoot, IsProgress
  <2>2. \A h \in Homes : Rooted(h) /\ (h > home => Held(h))
    BY <1>1, <1>9 DEF Memory, Recording, ActivePcs, WritePcs, WriteTasks
  <2>3. PICK i \in Slots : Rests(home, ment, i) /\ slot[home][i] = mslot[home][home][i]
    BY <1>1, <2>2 DEF Rooted
  <2>4. i # c
    BY <1>2, <2>3 DEF Rests, RootsOf, IsProgress, Torn
  <2>5. \A k \in Slots : k = i \/ k = c
    BY <1>2, <2>4 DEF Slots
  <2>6. slot'[home][i] = slot[home][i] /\ slot'[home][c] = RootContent
    BY <1>6, <2>4
  <2>7. /\ IsProgress(slot'[home][i]) /\ slot'[home][i].digest = Digest(home, ment')
        /\ \A k \in Slots : IsProgress(slot'[home][k]) => slot'[home][k].seq <= slot'[home][i].seq
    <3>1. slot[home][i].seq <= slot[home][i].seq
      BY <2>3 DEF Rests, RootsOf
    <3> QED
      BY <1>1, <2>1, <2>3, <2>5, <2>6, <3>1 DEF Rests, RootsOf
  <2>8. DiskBacked'
    <3>1. \A h \in Homes : h # home => (Backed(h) => Backed(h)')
      BY <1>1, <1>6, HomeStays
    <3>2. \A h \in {home} : Backed(h)'
      BY <1>1, <1>4, <1>7, <2>3, <2>6, <2>7
         DEF Backed, Backs, Backing, RootsOf, InStep, IsProgress
    <3> QED
      BY <1>1, <3>1, <3>2 DEF DiskBacked, Present
  <2>9. CASE home < NumHomes /\ Goto("root", "seal", op, home + 1) /\ UNCHANGED mslot
    <3>1. \A h \in Homes : h # home => Rooted(h)' /\ (h > home => Held(h)')
      BY <1>1, <1>6, <2>2, <2>9, HomeStays
    <3>2. \A h \in {home} : Rooted(h)'
      BY <1>1, <2>3, <2>6, <2>7, <2>9 DEF Rooted, Rests, RootsOf, IsProgress
    <3>3. \A h \in Homes : InStep(h)'
      BY <1>1, <1>4, <2>9 DEF InStep
    <3>4. \A h \in Homes : h >= home + 1 => h > home /\ h # home
      BY <1>1 DEF Homes
    <3> QED
      BY <1>1, <2>8, <2>9, <3>1, <3>2, <3>3, <3>4
         DEF Goto, Preparing, Memory, Writing, Synced, Recording, Sealing, Homes
  <2>10. CASE Goto("detach", "cleanup", op, 1) /\ mslot' = [h \in Homes |-> slot']
    <3>1. \A h \in Homes : Held(h)'
      BY <1>1, <2>10 DEF Held
    <3>2. \A h \in Homes : h # home => \A k \in Slots : Rests(h, ment, k) => Rests(h, ment, k)'
      BY <1>1, <1>6, HomeStays
    <3>3. \A h \in Homes : h # home => Rooted(h)'
      BY <2>2, <3>1, <3>2 DEF Rooted, Held
    <3>4. \A h \in {home} : Rooted(h)'
      BY <1>1, <2>3, <2>6, <2>7, <3>1 DEF Rooted, Rests, RootsOf, IsProgress, Held
    <3> QED
      BY <2>8, <2>10, <3>1, <3>3, <3>4
         DEF Goto, Preparing, Memory, Writing, Synced, Recording, Sealing, WriteTasks
  <2> QED
    BY <1>9, <2>9, <2>10 DEF RootWrite, AfterSeal
<1> QED
  BY <1>3, <1>8, <1>9

-----------------------------------------------------------------------------
(* Journals are stored. *)

\* What a task persists is about the home at hand.
LEMMA PendingElsewhere ==
  ASSUME TypeOK, Flow, NEW h \in Homes, h # home, NEW o \in OpsOf(h)
  PROVE  Pending[o] = ment[o]
<1>1. o \in Ops /\ HomeOf[o] = h /\ ment \in [Ops -> Entry] /\ op \in Ops
  BY DEF OpsOf, TypeOK, MemOK, CtlOK
<1>2. task \in OpTasks => o # op
  BY <1>1 DEF Flow
<1>3. task \in {"applying", "applied", "rolled-back", "ambiguous"} => task \in OpTasks
  BY DEF OpTasks, ApplyTasks
<1> QED
  BY <1>1, <1>2, <1>3 DEF Pending

\* Where a stored journal leads, by its task.
LEMMA JournalLeads ==
  ASSUME NEW ent, AfterJournal(ent)
  PROVE  \/ /\ task = "in-progress" /\ home < NumHomes
            /\ pc' = "detach" /\ task' = task /\ home' = home + 1
         \/ /\ task = "cleanup" /\ home < NumHomes
            /\ pc' = "detach" /\ task' = task /\ home' = home + 1
         \/ task = "cleanup" /\ pc' = "remove"
         \/ /\ task # "cleanup" /\ (task = "in-progress" => ~(home < NumHomes))
            /\ \/ pc' \in {"stage", "reverse", "cas-link", "cas-install"}
               \/ pc' = "root" /\ task' \in {"applying", "bulk"}
<1> USE DEF Goto
<1>1. \A n : ToReverse(n, ent) \/ ToBulk(n, ent)
               => pc' \in {"stage", "reverse"} \/ (pc' = "root" /\ task' = "bulk")
  BY DEF ToReverse, ToBulk
<1> QED
  BY <1>1 DEF AfterJournal, ToApply, CasEntry

\* When the journal of a task is installed, its root is there: the newest one.
LEMMA NewRoot ==
  ASSUME TypeOK, AtomicInv, SlotInv, pc = "install"
  PROVE  /\ NewSlots[home] = slot[home]
         /\ \E i \in Slots : /\ IsProgress(slot[home][i])
                             /\ slot[home][i].digest = Digest(home, Pending)
                             /\ \A k \in Slots : IsProgress(slot[home][k])
                                                   => slot[home][k].seq <= slot[home][i].seq
<1> USE DEF SlotInv
<1>1. pc = "install" /\ home \in Homes /\ DiskOK /\ Flow
  BY DEF TypeOK, CtlOK, AtomicInv, Consistent
<1>2. AreSlotMaps(mslot)
  BY DEF TypeOK, MemOK
<1>8. NewSlots[home] = slot[home]
  <2>1. CASE task \in {"in-progress", "cleanup"}
    <3>1. Held(home)
      BY <1>1, <2>1 DEF Memory, Recording, Sealing, WriteTasks, ActivePcs, WritePcs
    <3> QED
      BY <2>1, <3>1 DEF NewSlots, Held
  <2>2. CASE task \notin {"in-progress", "cleanup"}
    <3>1. IsSlotMap(mslot[home])
      BY <1>1, <1>2 DEF AreSlotMaps
    <3> QED
      BY <1>1, <2>2, <3>1 DEF NewSlots, IsSlotMap
  <2> QED
    BY <2>1, <2>2
<1>9. \E i \in Slots : /\ IsProgress(slot[home][i])
                       /\ slot[home][i].digest = Digest(home, Pending)
                       /\ \A k \in Slots : IsProgress(slot[home][k])
                                             => slot[home][k].seq <= slot[home][i].seq
  <2>1. CASE task \in WriteTasks
    <3>1. PICK i \in Slots : Announced(i)
      BY <1>1, <2>1 DEF Writing, Recording
    <3>2. /\ 3 - i \in Slots /\ \A k \in Slots : k = i \/ k = 3 - i
          /\ slot[home][i].seq \in Nat
          /\ slot[home][3 - i] = Progress(slot[home][i].seq + 1, Digest(home, Pending))
      <4>1. 3 - i \in Slots /\ \A k \in Slots : k = i \/ k = 3 - i
        BY DEF Slots
      <4>2. IsProgress(slot[home][i])
        BY <3>1 DEF Announced, Backing, RootsOf
      <4>3. slot[home][i].seq \in Nat
        BY <1>1, <4>2, SlotTyped
      <4> QED
        BY <1>1, <3>1, <4>1, <4>3 DEF Announced
    <3>3. /\ slot[home][3 - i].seq = slot[home][i].seq + 1 /\ IsProgress(slot[home][3 - i])
          /\ slot[home][3 - i].digest = Digest(home, Pending)
      BY <3>2 DEF Progress, IsProgress
    <3>4. \A k \in Slots : slot[home][k].seq <= slot[home][3 - i].seq
      BY <3>2, <3>3
    <3> QED
      BY <3>2, <3>3, <3>4
  <2>2. CASE task \notin WriteTasks
    <3>1. Rooted(home)
      BY <1>1, <2>2 DEF Memory, Recording, ActivePcs, WritePcs
    <3>2. Pending = ment
      BY <2>2 DEF Pending, WriteTasks
    <3> QED
      BY <3>1, <3>2 DEF Rooted, Rests, RootsOf
  <2> QED
    BY <2>1, <2>2
<1> QED
  BY <1>8, <1>9

\* So the journals on disk stay backed, whatever becomes of the process.
LEMMA InstallBacked ==
  ASSUME TypeOK, AtomicInv, SlotInv, pc = "install", InstallJournal, UNCHANGED slot
  PROVE  DiskBacked'
<1> USE DEF SlotInv
<1>1. /\ home \in Homes /\ Flow /\ AreSlotMaps(jslot)
      /\ jslot' = [jslot EXCEPT ![home] = NewSlots]
      /\ \A o \in Ops : jent'[o] = IF HomeOf[o] = home THEN Pending[o] ELSE jent[o]
      /\ Present' \subseteq Homes
  BY DEF InstallJournal, Present, TypeOK, CtlOK, DiskOK, AtomicInv, Consistent
<1>2. /\ jslot'[home] = NewSlots
      /\ \A h \in Homes : h # home => jslot'[h] = jslot[h]
  BY <1>1 DEF AreSlotMaps
<1>3. ASSUME NEW h \in Homes, h # home
      PROVE  Backed(h) => Backed(h)'
  <2>1. \A o \in OpsOf(h) : jent'[o] = jent[o]
    BY <1>1, <1>3 DEF OpsOf
  <2> QED
    BY <1>2, <1>3, <2>1, HomeStays
<1>4. \A h \in {home} : Backed(h)'
  <2>1. Digest(home, jent') = Digest(home, Pending)
    BY <1>1, DigestSame DEF OpsOf
  <2> QED
    BY <1>2, <2>1, NewRoot DEF Backed, Backs, Backing, RootsOf, IsProgress
<1>5. \A h \in Homes : h # home => h \in Present
  BY DEF AtomicInv, Consistent, Standing, ActivePcs, WritePcs
<1> QED
  BY <1>1, <1>3, <1>4, <1>5 DEF DiskBacked

LEMMA InstallSlots == TypeOK /\ AtomicInv /\ SlotInv /\ JournalInstall => SlotInv'
<1> SUFFICES ASSUME TypeOK, AtomicInv, SlotInv, JournalInstall PROVE SlotInv'
  OBVIOUS
<1> USE DEF SlotInv
<1>1. /\ pc = "install" /\ home \in Homes /\ DiskOK /\ UNCHANGED slot /\ Flow
      /\ home \in 1..NumHomes /\ NumHomes \in Nat
      /\ ment' = Pending /\ mslot' = [mslot EXCEPT ![home] = NewSlots] /\ AfterJournal(Pending)
  BY TransactionAssumption DEF JournalInstall, TypeOK, CtlOK, AtomicInv, Consistent, Homes
<1>2. /\ AreSlotMaps(mslot) /\ AreSlotMaps(jslot) /\ jent \in [Ops -> Entry]
      /\ jrb \in [Homes -> {"none", "not-started", "in-progress", "cleanup"}]
      /\ ment \in [Ops -> Entry] /\ Pending \in [Ops -> Entry]
  BY PendingTyped DEF TypeOK, DiskOK, MemOK
<1>3. /\ jslot' = [jslot EXCEPT ![home] = NewSlots]
      /\ \A o \in Ops : jent'[o] = IF HomeOf[o] = home THEN Pending[o] ELSE jent[o]
      /\ Present' \subseteq Homes
  BY DEF JournalInstall, InstallJournal, Present
<1>4. /\ mslot'[home] = NewSlots /\ jslot'[home] = NewSlots
      /\ \A h \in Homes : h # home => mslot'[h] = mslot[h] /\ jslot'[h] = jslot[h]
  BY <1>1, <1>2, <1>3 DEF AreSlotMaps
<1>5. \A o \in OpsOf(home) : jent'[o] = ment'[o]
  BY <1>1, <1>3 DEF OpsOf
<1>6. ASSUME NEW h \in Homes, h # home
      PROVE  \A o \in OpsOf(h) : ment'[o] = ment[o] /\ jent'[o] = jent[o]
  BY <1>1, <1>3, <1>6, PendingElsewhere DEF OpsOf
<1>7. ASSUME NEW h \in Homes, h # home
      PROVE  /\ (Held(h) => Held(h)') /\ (Rooted(h) => Rooted(h)')
             /\ (InStep(h) => InStep(h)') /\ (Backed(h) => Backed(h)')
  BY <1>1, <1>4, <1>6, <1>7, HomeStays
<1>8. NewSlots[home] = slot[home]
  BY <1>1, NewRoot
<1>9. \E i \in Slots : /\ IsProgress(slot[home][i])
                       /\ slot[home][i].digest = Digest(home, Pending)
                       /\ \A k \in Slots : IsProgress(slot[home][k])
                                             => slot[home][k].seq <= slot[home][i].seq
  BY <1>1, NewRoot
<1>10. \A h \in {home} : Held(h)' /\ Rooted(h)' /\ InStep(h)'
  BY <1>1, <1>4, <1>5, <1>8, <1>9 DEF Held, Rooted, Rests, RootsOf, InStep, IsProgress
<1>11. DiskBacked'
  BY <1>1, InstallBacked DEF JournalInstall
<1>12. \A h \in Homes : Held(h)' /\ Rooted(h)'
  <2>1. \A h \in Homes : h # home => Held(h) /\ Rooted(h)
    BY <1>1 DEF Memory, Sealing, ActivePcs, WritePcs
  <2> QED
    BY <1>7, <1>10, <2>1
<1>13. \A h \in Homes : task # "cleanup" /\ (task = "in-progress" => h <= home) => InStep(h)'
  <2>1. \A h \in Homes : h # home /\ h <= home => h < home
    BY <1>1 DEF Homes
  <2>2. \A h \in Homes : h # home /\ task # "cleanup" /\ (task = "in-progress" => h <= home)
                           => InStep(h)
    BY <1>1, <2>1 DEF Synced, ActivePcs, WritePcs
  <2> QED
    BY <1>7, <1>10, <2>2
<1>14. CASE /\ task \in {"in-progress", "cleanup"} /\ home < NumHomes
            /\ pc' = "detach" /\ task' = task /\ home' = home + 1
  <2>1. \A h \in Homes : h < home + 1 => h <= home
    BY <1>1 DEF Homes
  <2> QED
    BY <1>11, <1>12, <1>13, <1>14, <2>1
       DEF Preparing, Memory, Writing, Synced, Recording, Sealing, WriteTasks
<1>15. CASE task = "cleanup" /\ pc' = "remove"
  BY <1>11, <1>15
     DEF Preparing, Memory, Writing, Synced, Recording, ActivePcs, WritePcs, CasPcs
<1>16. CASE /\ task # "cleanup" /\ (task = "in-progress" => ~(home < NumHomes))
            /\ \/ pc' \in {"stage", "reverse", "cas-link", "cas-install"}
               \/ pc' = "root" /\ task' \in {"applying", "bulk"}
  <2>1. \A h \in Homes : ~(home < NumHomes) => h <= home
    BY <1>1 DEF Homes
  <2>2. \A h \in Homes : InStep(h)'
    BY <1>13, <1>16, <2>1
  <2> QED
    BY <1>11, <1>12, <1>16, <2>2, AllHeld
<1> QED
  BY <1>1, <1>14, <1>15, <1>16, JournalLeads

LEMMA PrepareSlots == TypeOK /\ AtomicInv /\ SlotInv /\ Prepare => SlotInv'
<1> SUFFICES ASSUME TypeOK, AtomicInv, SlotInv, Prepare PROVE SlotInv'
  OBVIOUS
<1> USE DEF SlotInv
<1>1. pc = "start" /\ Present = {} /\ UNCHANGED <<jrb, jent, jslot>>
  BY DEF Prepare, AtomicInv, Consistent, Standing
<1>2. Present' = {}
  BY <1>1 DEF Present
<1>3. CASE UNCHANGED slot /\ End("rolled-back")
  BY <1>1, <1>2, <1>3, SlotLeave DEF End, Goto, ActivePcs, WritePcs, CasPcs
<1>4. CASE /\ slot' = [h \in Homes |-> [i \in Slots |->
                          Progress(0, Digest(h, [o \in Ops |-> Planned(o)]))]]
           /\ mslot' = [h \in Homes |-> slot'] /\ ment' = ment
           /\ Goto("create", "prepare", 1, 1)
  <2>1. ment' = [o \in Ops |-> Planned(o)]
    BY <1>1, <1>4 DEF Preparing
  <2>2. \A h \in Homes, i \in Slots : slot'[h][i] = Progress(0, Digest(h, ment'))
    BY <1>4, <2>1
  <2>3. \A h \in Homes, i \in Slots : /\ IsProgress(slot'[h][i]) /\ slot'[h][i].seq = 0
                                      /\ slot'[h][i].digest = Digest(h, ment')
    <3>1. \A n, d : /\ IsProgress(Progress(n, d)) /\ Progress(n, d).seq = n
                    /\ Progress(n, d).digest = d
      BY DEF Progress, IsProgress
    <3> QED
      BY <2>2, <3>1 DEF IsProgress
  <2>4. \A h \in Homes, i \in Slots : Rests(h, ment, i)'
    BY <2>3 DEF Rests, RootsOf, IsProgress
  <2>5. \A h \in Homes : Held(h)' /\ ~(h < 1)
    BY <1>4 DEF Held, Homes
  <2> QED
    BY <1>2, <1>4, <2>4, <2>5
       DEF Goto, DiskBacked, Preparing, Memory, Writing, Synced, Recording, ActivePcs, WritePcs,
           CasPcs
<1> QED
  BY <1>3, <1>4 DEF Prepare

\* A journal that is created rests on the root of the preparation.
LEMMA LinkBacked ==
  ASSUME TypeOK, SlotInv, pc = "create", LinkJournal, UNCHANGED slot
  PROVE  DiskBacked'
<1> USE DEF SlotInv
<1>1. /\ home \in Homes /\ AreSlotMaps(jslot) /\ 1 \in Slots
      /\ jrb \in [Homes -> {"none", "not-started", "in-progress", "cleanup"}]
      /\ jrb' = [jrb EXCEPT ![home] = "not-started"]
      /\ jslot' = [jslot EXCEPT ![home] = mslot[home]]
      /\ \A o \in Ops : jent'[o] = IF HomeOf[o] = home THEN ment[o] ELSE jent[o]
  BY DEF LinkJournal, TypeOK, CtlOK, DiskOK, Slots
<1>2. /\ jslot'[home] = mslot[home]
      /\ \A h \in Homes : h # home => jslot'[h] = jslot[h]
  BY <1>1 DEF AreSlotMaps
<1>3. \A h \in {home} : Backed(h)'
  <2>1. Digest(home, jent') = Digest(home, ment)
    BY <1>1, DigestSame DEF OpsOf
  <2>2. mslot[home][home] = slot[home] /\ Rests(home, ment, 1)
    BY <1>1 DEF Held, Preparing
  <2> QED
    BY <1>1, <1>2, <2>1, <2>2 DEF Backed, Backs, Backing, RootsOf, Rests, IsProgress
<1>4. ASSUME NEW h \in Homes, h # home
      PROVE  Backed(h) => Backed(h)'
  <2>1. \A o \in OpsOf(h) : jent'[o] = jent[o]
    BY <1>1, <1>4 DEF OpsOf
  <2> QED
    BY <1>2, <1>4, <2>1, HomeStays
<1> QED
  BY <1>1, <1>3, <1>4 DEF DiskBacked, Present

LEMMA CreateSlots == TypeOK /\ AtomicInv /\ SlotInv /\ CreateJournal => SlotInv'
<1> SUFFICES ASSUME TypeOK, AtomicInv, SlotInv, CreateJournal PROVE SlotInv'
  OBVIOUS
<1> USE DEF SlotInv
<1>1. /\ pc = "create" /\ home \in Homes /\ UNCHANGED <<slot, ment, mslot>>
      /\ home \in 1..NumHomes /\ NumHomes \in Nat
      /\ jrb' = [jrb EXCEPT ![home] = "not-started"]
      /\ jslot' = [jslot EXCEPT ![home] = mslot[home]]
      /\ \A o \in Ops : jent'[o] = IF HomeOf[o] = home THEN ment[o] ELSE jent[o]
  BY TransactionAssumption DEF CreateJournal, LinkJournal, TypeOK, CtlOK, Homes
<1>2. \A h \in Homes : Held(h) /\ \A i \in Slots : Rests(h, ment, i)
  BY <1>1 DEF Preparing
<1>3. /\ AreSlotMaps(jslot) /\ 1 \in Slots
      /\ jrb \in [Homes -> {"none", "not-started", "in-progress", "cleanup"}]
  BY DEF TypeOK, DiskOK, Slots
<1>4. /\ jslot'[home] = mslot[home]
      /\ \A h \in Homes : h # home => jslot'[h] = jslot[h]
  BY <1>1, <1>3 DEF AreSlotMaps
<1>5. \A h \in Homes : /\ h # home => \A o \in OpsOf(h) : jent'[o] = jent[o]
                       /\ h = home => \A o \in OpsOf(h) : jent'[o] = ment'[o]
  BY <1>1 DEF OpsOf
<1>6. \A h \in Homes : Held(h)' /\ \A i \in Slots : Rests(h, ment, i)'
  BY <1>1, <1>2, HomeStays
<1>7. \A h \in {home} : InStep(h)'
  BY <1>1, <1>4, <1>5 DEF InStep
<1>8. \A h \in Homes : h # home => (InStep(h) => InStep(h)')
  BY <1>1, <1>4, <1>5, HomeStays
<1>9. DiskBacked'
  BY <1>1, LinkBacked DEF CreateJournal
<1>10. \A h \in Homes : h <= home => InStep(h)'
  <2>1. \A h \in Homes : h <= home => h = home \/ h < home
    BY <1>1 DEF Homes
  <2> QED
    BY <1>1, <1>7, <1>8, <2>1 DEF Preparing
<1>11. CASE home < NumHomes /\ Goto("create", "prepare", op, home + 1)
  <2>1. \A h \in Homes : h < home + 1 => h <= home
    BY <1>1 DEF Homes
  <2> QED
    BY <1>6, <1>9, <1>10, <1>11, <2>1
       DEF Goto, Preparing, Memory, Writing, Synced, Recording, ActivePcs, WritePcs, CasPcs
<1>12. CASE ~(home < NumHomes) /\ ToApply(1)
  <2>1. \A h \in Homes : h <= home
    BY <1>1, <1>12 DEF Homes
  <2>2. \A h \in Homes : Rooted(h)'
    BY <1>3, <1>6 DEF Rooted, Held
  <2> QED
    BY <1>6, <1>9, <1>10, <1>12, <2>1, <2>2, AllHeld DEF Goto, ToApply
<1> QED
  BY <1>11, <1>12 DEF CreateJournal

-----------------------------------------------------------------------------
(* Recovery reads the disk. *)

\* A root ahead of its journal is the newest root, over what is loaded.
LEMMA LoadedRests ==
  ASSUME DiskOK, NEW h \in Present, ~Sealed(h), AnchorsOk(h, jent, jslot[h][h]), Backed(h)
  PROVE  \E i \in Slots : Rests(h, Loaded, i)
<1> DEFINE ahead == AheadOf(h, jslot[h][h])
           back == Backing(h, jent, jslot[h][h])
<1>1. h \in Homes /\ \A o \in OpsOf(h) : o \in Ops /\ HomeOf[o] = h
  BY DEF Present, OpsOf
<1>2. CASE ahead = {}
  <2>1. \A o \in OpsOf(h) : Loaded[o] = jent[o]
    BY <1>1, <1>2, Zenon DEF Loaded
  <2>2. Digest(h, Loaded) = Digest(h, jent)
    BY <2>1, DigestSame
  <2>3. \A k \in Slots : IsProgress(slot[h][k]) => slot[h][k] = jslot[h][h][k]
    BY <1>2 DEF AheadOf
  <2> QED
    BY <2>2, <2>3 DEF Backed, Backs, Backing, Rests, RootsOf
<1>3. CASE ahead # {}
  <2> DEFINE a == CHOOSE i \in ahead : TRUE
  <2>1. a \in ahead
    BY <1>3
  <2>2. \A o \in OpsOf(h) : Loaded[o] = slot[h][a].digest[o]
    BY <1>1, <1>3, Zenon DEF Loaded
  <2> HIDE DEF a
  <2>3. a \in Slots /\ slot[h][a] # jslot[h][h][a] /\ IsProgress(slot[h][a])
    BY <2>1 DEF AheadOf
  <2>4. slot[h][a].digest \in [OpsOf(h) -> Entry]
    BY <1>1, <2>3, SlotTyped
  <2>5. Digest(h, Loaded) = slot[h][a].digest
    BY <2>2, <2>4 DEF Digest
  <2>6. back # {} /\ slot[h][a].seq = LastSeq(h, back) + 1
    BY <2>1 DEF AnchorsOk
  <2> DEFINE n == Newest(h, back)
  <2>7. n \in back /\ slot[h][a].seq = slot[h][n].seq + 1
    BY <2>6, NewestIn DEF Backing, RootsOf, LastSeq
  <2> HIDE DEF n
  <2>8. n \in Slots /\ slot[h][n] = jslot[h][h][n] /\ IsProgress(slot[h][n])
    BY <2>7 DEF Backing, RootsOf
  <2>9. \A k \in Slots : k = n \/ k = a
    BY <2>3, <2>8 DEF Slots
  <2>10. slot[h][n].seq \in Nat /\ slot[h][a].seq \in Nat
    BY <1>1, <2>3, <2>8, SlotTyped
  <2> QED
    BY <2>3, <2>5, <2>7, <2>9, <2>10 DEF Rests, RootsOf
<1> QED
  BY <1>2, <1>3

\* So is the one root beside the cleanup root of a group that is sealed.
LEMMA CleanupRests ==
  ASSUME DiskOK, NEW h \in Homes, NEW ent, NEW ev, NEW f, CleanupAnchorsOk(h, ent, ev, f)
  PROVE  /\ slot[h] = ev
         /\ \E i \in Slots : /\ Rests(h, ent, i) /\ 3 - i \in Slots
                             /\ slot[h][3 - i] = CleanupRoot(f)
<1>1. {i \in Slots : slot[h][i] = CleanupRoot(f)} # {} /\ Backing(h, ent, ev) # {}
  <2>1. Cardinality({}) # 1
    BY FS_EmptySet
  <2> QED
    BY <2>1 DEF CleanupAnchorsOk
<1>2. PICK k \in Slots : slot[h][k] = CleanupRoot(f)
  BY <1>1
<1>3. PICK i \in Slots : i \in Backing(h, ent, ev)
  BY <1>1 DEF Backing, RootsOf
<1>4. ~IsProgress(slot[h][k]) /\ IsProgress(slot[h][i])
  BY <1>2, <1>3 DEF IsProgress, CleanupRoot, Backing, RootsOf
<1>5. k = 3 - i /\ \A l \in Slots : l = i \/ l = k
  BY <1>4 DEF Slots
<1>6. slot[h][i].seq \in Nat
  BY <1>4, SlotTyped
<1> QED
  BY <1>2, <1>3, <1>4, <1>5, <1>6 DEF Rests, Backing, RootsOf, CleanupAnchorsOk

LEMMA RecoverSlots == TypeOK /\ AtomicInv /\ SlotInv /\ Recover => SlotInv'
<1> SUFFICES ASSUME TypeOK, AtomicInv, SlotInv, Recover PROVE SlotInv'
  OBVIOUS
<1> USE DEF SlotInv
<1>1. UNCHANGED <<slot, jrb, jent, jslot>> /\ Present' = Present /\ DiskOK
  BY DEF Recover, disk, Present, TypeOK
<1>2. CASE \/ \E status : End(status)
           \/ \E h : Resume("remove", "remove", h, "seal")
  BY <1>1, <1>2, SlotLeave DEF End, Resume, Goto, ActivePcs, WritePcs, CasPcs
<1>3. ASSUME \A h \in Homes : Held(h)' /\ Rooted(h)', pc' = "detach", home' = 1,
             task' \in {"in-progress", "cleanup"}
      PROVE  SlotInv'
  <2>1. DiskBacked'
    BY <1>1, DiskStays
  <2>2. \A h \in Homes : ~(h < 1)
    BY DEF Homes
  <2> QED
    BY <1>3, <2>1, <2>2
       DEF Preparing, Memory, Writing, Synced, Recording, Sealing, WriteTasks
<1>4. CASE /\ Present = Homes /\ GroupOk /\ ~\E h \in Present : Sealed(h)
           /\ Resume("detach", "in-progress", 1, "recover")
  <2>1. \A h \in Homes : Held(h)'
    <3>1. \A h \in Homes : IsSlotMap(jslot[h])
      BY <1>1 DEF DiskOK, AreSlotMaps
    <3>2. \A h \in Homes : mslot'[h] = [jslot[h] EXCEPT ![h] = slot[h]]
      BY <1>4 DEF Resume, LoadedSlots
    <3>3. \A h \in Homes : mslot'[h][h] = slot[h]
      BY <3>1, <3>2 DEF IsSlotMap
    <3> QED
      BY <1>1, <3>3 DEF Held
  <2>2. ASSUME NEW h \in Homes
        PROVE  Rooted(h)'
    <3>1. ~Sealed(h) /\ AnchorsOk(h, jent, jslot[h][h]) /\ Backed(h) /\ h \in Present
      BY <1>4 DEF GroupOk, DiskBacked
    <3>2. PICK i \in Slots : Rests(h, Loaded, i)
      BY <1>1, <3>1, LoadedRests
    <3>3. ment' = Loaded
      BY <1>4 DEF Resume
    <3> QED
      BY <1>1, <2>1, <3>2, <3>3 DEF Rooted, Rests, RootsOf, IsProgress, Held
  <2> QED
    BY <1>3, <1>4, <2>1, <2>2 DEF Resume, Goto
<1>5. ASSUME NEW f \in Finals, RetryOk(f), Resume("detach", "cleanup", 1, "seal")
      PROVE  SlotInv'
  <2>1. ment' = Loaded /\ mslot' = [g \in Homes |-> GroupSlots]
    BY <1>5 DEF Resume
  <2>2. ASSUME NEW h \in Homes
        PROVE  Held(h)' /\ Rooted(h)'
    <3>1. CleanupAnchorsOk(h, Loaded, GroupSlots[h], f)
      BY <1>5, <2>2 DEF RetryOk
    <3>2. slot[h] = GroupSlots[h] /\ \E i \in Slots : Rests(h, Loaded, i)
      BY <1>1, <3>1, CleanupRests
    <3> QED
      BY <1>1, <2>1, <3>2 DEF Rooted, Rests, RootsOf, IsProgress, Held
  <2> QED
    BY <1>3, <1>5, <2>2 DEF Resume, Goto
<1>6. Present # {} /\ SurvivorsOk => \E h \in Present : Sealed(h)
  BY DEF SurvivorsOk
<1>7. Present # {} \/ End("blocked")
  BY DEF Recover
<1> QED
  BY <1>2, <1>4, <1>5, <1>6, <1>7 DEF Recover

LEMMA SlotStep ==
  ASSUME TypeOK, AtomicInv, FreshHeld, SlotInv, [Next]_vars, faults' = 0
  PROVE  SlotInv'
<1> USE DEF Goto, mem, ctl, disk, CasPcs, WritePcs, ActivePcs
<1>1. Memory /\ Flow /\ AtomicInv
  BY DEF SlotInv, AtomicInv, Consistent
<1>2. ASSUME \E status : End(status), UNCHANGED <<slot, jent, jslot>>, Present' \subseteq Present
      PROVE  SlotInv'
  BY <1>2, SlotLeave DEF End
<1>3. ASSUME Raise(fresh), pc \in CasPcs \cup {"reverse"}, UNCHANGED <<slot, jrb, jent, jslot>>
      PROVE  SlotInv'
  <2>1. Present' = Present /\ task \in {"apply", "reverse"}
    BY <1>1, <1>3 DEF Present, Flow
  <2>2. CASE ~\E status : End(status)
    <3>1. /\ pc' \in {"root", "detach", "reverse", "stage"} /\ UNCHANGED <<ment, mslot>>
          /\ pc' = "detach" => task' = "in-progress"
      BY <1>1, <1>3, <2>1, <2>2, RaiseGoes DEF Raise, Settling
    <3> QED
      BY <1>3, <2>1, <3>1, SlotQuiet DEF WriteTasks
  <2> QED
    BY <1>2, <1>3, <2>1, <2>2
<1>4. ASSUME NEW from \in CasPcs, NEW expected, NEW leaves, CasStep(from, expected, leaves)
      PROVE  SlotInv'
  <2>1. pc = from /\ UNCHANGED <<slot, jrb, jent, jslot>> /\ task \in {"apply", "reverse"}
    BY <1>1, <1>4 DEF CasStep, Flow
  <2>2. CASE ~Raise(fresh)
    <3>1. pc' \in CasPcs \cup {"root"} /\ UNCHANGED <<ment, mslot>>
      BY <1>4, <2>2, CasGoes
    <3> QED
      BY <2>1, <3>1, SlotQuiet
  <2> QED
    BY <1>3, <2>1, <2>2
<1>5. CASE Cas
  BY <1>4, <1>5 DEF Cas, CasLink, CasLook, CasUnlink, CasInstall, CasSettle
<1>6. CASE Reverse
  <2>1. pc = "reverse" /\ task = "reverse" /\ UNCHANGED <<slot, jrb, jent, jslot>>
    BY <1>1, <1>6 DEF Reverse, Flow
  <2>2. CASE ~Raise(fresh)
    <3>1. pc' \in {"root", "cas-link", "cas-install"} /\ UNCHANGED <<ment, mslot>>
      BY <1>6, <2>2 DEF Reverse, CasEntry
    <3> QED
      BY <2>1, <3>1, SlotQuiet
  <2> QED
    BY <1>3, <2>1, <2>2
<1>7. CASE Stage
  <2>1. pc = "stage" /\ task = "seal" /\ UNCHANGED <<slot, jrb, jent, jslot>>
    BY <1>1, <1>7 DEF Stage, Flow
  <2> QED
    BY <1>1, <1>2, <1>7, <2>1, RaisesAt, SlotQuiet DEF Present
<1>8. CASE JournalDetach
  BY <1>1, <1>8, RaisesAt, SlotQuiet DEF JournalDetach
<1>9. CASE UserEdit \/ UNCHANGED vars
  BY <1>9, SlotQuiet DEF UserEdit, vars, SlotInv
<1>10. CASE RemoveJournal
  <2>1. Present' \subseteq Present /\ pc' \in {"remove", "unlink", "marks"}
    BY <1>10 DEF RemoveJournal, Present, TypeOK, DiskOK
  <2> QED
    BY <1>10, <2>1, SlotLeave DEF RemoveJournal
<1>14. CASE LinkBackup \/ RemoveBackup
  BY <1>14, SlotLeave DEF LinkBackup, RemoveBackup, Present, SlotInv
<1>11. CASE RemoveMarks
  <2>1. Present' = {}
    BY <1>1, <1>11 DEF RemoveMarks, Present, AtomicInv, Consistent, Clearing
  <2> QED
    BY <1>11, <2>1 DEF RemoveMarks, End, SlotInv, DiskBacked, Preparing, Memory, Writing, Synced,
       Recording
<1>12. CASE Crash
  <2>1. UNCHANGED slot /\ End("killed")
    BY <1>12, Killed
  <2>2. CASE pc = "create" /\ LinkJournal
    <3>1. DiskBacked'
      BY <2>1, <2>2, LinkBacked
    <3> QED
      BY <2>1, <3>1 DEF End, SlotInv, Preparing, Memory, Writing, Synced, Recording
  <2>3. CASE pc = "install" /\ InstallJournal
    <3>1. DiskBacked'
      BY <2>1, <2>3, InstallBacked
    <3> QED
      BY <2>1, <3>1 DEF End, SlotInv, Preparing, Memory, Writing, Synced, Recording
  <2>4. CASE UNCHANGED <<jent, jslot>> /\ (jrb' = jrb \/ jrb' = [jrb EXCEPT ![home] = "none"])
    <3>1. Present' \subseteq Present
      BY <2>4 DEF Present, TypeOK, DiskOK
    <3> QED
      BY <1>2, <2>1, <2>4, <3>1
  <2> QED
    BY <1>12, <2>2, <2>3, <2>4, Killed
<1>13. ~RootRefused /\ ~Unprepare
  BY <1>1, RaisesAt DEF Unprepare, FreshHeld
<1> QED
  BY <1>5, <1>6, <1>7, <1>8, <1>9, <1>10, <1>11, <1>12, <1>13, <1>14, NoFaults, RootOpenSlots,
     RootWriteSlots, InstallSlots, PrepareSlots, CreateSlots, RecoverSlots DEF Next, Process

-----------------------------------------------------------------------------
(* The journals rest on intact roots. *)

RecInv == faults = 0 => FreshHeld /\ SlotInv

LEMMA RecInit == Init => RecInv
<1> SUFFICES ASSUME Init PROVE RecInv
  OBVIOUS
<1> USE DEF Init, CasPcs, WritePcs, ActivePcs
<1>1. Present = {}
  BY DEF Present
<1>2. FreshHeld /\ DiskBacked /\ Memory /\ Writing /\ Synced
  BY <1>1 DEF FreshHeld, DiskBacked, Memory, Writing, Synced, Recording
<1> QED
  BY <1>2 DEF RecInv, SlotInv, Preparing

LEMMA RecStep == TypeOK /\ AtomicInv /\ RecInv /\ [Next]_vars => RecInv'
<1> SUFFICES ASSUME TypeOK, AtomicInv, RecInv, [Next]_vars, faults' = 0
             PROVE  FreshHeld' /\ SlotInv'
  BY DEF RecInv
<1>1. FreshHeld /\ SlotInv
  BY NoFaults DEF RecInv
<1> QED
  BY <1>1, FreshStep, SlotStep DEF SlotInv

\* While no system call raises, the slots and the journals are as SlotInv says.
THEOREM RootsOutliveTheirRewrite == Spec => []RecInv
BY RecInit, RecStep, TypeCorrect, JournalsTellTheFiles, PTL DEF Spec

\* Although the roots are overwritten in place, every journal on disk rests on an
\* intact one at every moment a process may be killed.
THEOREM JournalsAreBacked == Spec => []JournalBacked
<1>1. RecInv => JournalBacked
  BY DEF RecInv, SlotInv, DiskBacked, Backed, Backs, JournalBacked
<1> QED
  BY <1>1, RootsOutliveTheirRewrite, PTL

-----------------------------------------------------------------------------
(* What the files say of the journals while no system call raises. *)

\* The file of o is one that the entry e describes.
Fits(o, e) ==
  \/ /\ e.status \in {"applying", "applied"}
     /\ \/ LooksBefore(o, file[o]) /\ file[o] = e.before
        \/ LooksAfter(o, file[o]) /\ file[o] = e.after
  \/ e.status \in {"planned", "rolled-back"} /\ file[o] = e.before

\* The file of o is being changed, or its journal is about to follow it.
Busy(o) == o = op /\ \/ pc \in CasPcs
                     \/ pc \in WritePcs /\ task \in {"applied", "rolled-back"}
Accurate ==
  pc \in ActivePcs /\ task # "cleanup" => \A o \in Untouched : Busy(o) \/ Fits(o, ment[o])

\* In the course of a compare-and-swap the file is what its next step expects.
Mutating ==
  pc \in CasPcs /\ op \in Untouched =>
    /\ pc = "cas-link" => file[op] = Want
    /\ pc \in {"cas-look", "cas-unlink", "cas-settle"} => file[op] = "linked"
    /\ pc = "cas-install" => file[op] = "absent"
    /\ task = "reverse" => LooksAfter(op, Want)
    /\ task = "reverse" /\ pc \in {"cas-install", "cas-settle"} => Kind[op] # "create"

\* The identity a journal is about to record is that of the file; only the
\* user's edits make an operation ambiguous.
Following ==
  pc \in WritePcs /\ op \in Untouched =>
    /\ task \in {"applied", "rolled-back"} => file[op] = goal
    /\ task = "applied" => LooksAfter(op, goal)
    /\ task # "ambiguous"

\* The operations are undone from the last one on, whatever goes wrong with one.
Reversed ==
  pc \in ActivePcs =>
    /\ task \in {"reverse", "rolled-back", "ambiguous"} => \A o \in Ops : o > op => ~Open(o)
    /\ task = "bulk" => \A o \in Ops : ~Open(o)

\* PrefixApplied, without its proviso.
InOrder == \A o, p \in Untouched :
  o < p /\ ~LooksBefore(p, file[p]) => ~LooksBefore(o, file[o])

FileInv == Accurate /\ Mutating /\ Following /\ Reversed /\ InOrder

\* Steps after which no file is being changed.
LEMMA FilesLeave ==
  ASSUME FileInv, UNCHANGED <<file, touched>>,
         pc' \notin ActivePcs \/ (pc' \notin CasPcs /\ task' = "cleanup")
  PROVE  FileInv'
BY DEF FileInv, Accurate, Mutating, Following, Reversed, InOrder, Untouched, ActivePcs, CasPcs

\* Steps on the way from a root to its journal.
LEMMA FilesWait ==
  ASSUME FileInv, UNCHANGED <<file, touched, ment, goal, task, op>>,
         pc \in WritePcs \cup {"stage"}, pc = "stage" => task = "seal", pc' \in WritePcs
  PROVE  FileInv'
<1> USE DEF ActivePcs, CasPcs, WritePcs
<1>1. Untouched' = Untouched /\ \A o, e : Fits(o, e)' = Fits(o, e)
  BY DEF Untouched, Fits
<1>2. \A o : Busy(o) => Busy(o)'
  BY DEF Busy
<1>3. Accurate'
  BY <1>1, <1>2, Zenon DEF FileInv, Accurate
<1>4. Mutating' /\ Following' /\ Reversed' /\ InOrder'
  BY <1>1 DEF FileInv, Mutating, Following, Reversed, InOrder, Open
<1> QED
  BY <1>3, <1>4 DEF FileInv

\* Where the undoing goes next, once every operation after last is closed.
LEMMA UndoClosed ==
  ASSUME NEW last \in Int, NEW ent, ToReverse(last, ent), ment' = ent,
         \A o \in Ops : o > last => ent[o].status \notin {"applying", "applied"}
  PROVE  /\ Reversed'
         /\ pc' \in {"reverse", "root", "stage"} /\ task' \in {"reverse", "bulk", "seal"}
<1> DEFINE open == {o \in 1..last : ent[o].status \in {"applying", "applied"}}
<1>1. CASE \E o \in open : /\ \A p \in open : p <= o
                           /\ Goto("reverse", "reverse", o, HomeOf[o])
  <2>1. \A o \in Ops : o \in 1..last \/ o > last
    BY DEF Ops
  <2> QED
    BY <1>1, <2>1 DEF Goto, Reversed, Open, Ops
<1>2. CASE open = {} /\ ToBulk(1, ent)
  <2>1. \A o \in Ops : o \in 1..last \/ o > last
    BY DEF Ops
  <2>2. \A o \in Ops : ent[o].status \notin {"applying", "applied"}
    BY <1>2, <2>1
  <2>3. /\ pc' \in {"root", "stage"} /\ task' \in {"bulk", "seal"}
    BY <1>2 DEF ToBulk, Goto
  <2> QED
    BY <2>2, <2>3 DEF Reversed, Open
<1> QED
  BY <1>1, <1>2 DEF ToReverse

\* An exception out of a mutation, which the user's edit of its path causes.
LEMMA RaiseFiles ==
  ASSUME TypeOK, AtomicInv, FileInv, Raise(fresh), pc \in CasPcs \cup {"reverse"},
         op \notin Untouched, UNCHANGED <<file, touched>>
  PROVE  FileInv'
<1> USE DEF ActivePcs, CasPcs, WritePcs
<1>1. task \in {"apply", "reverse"} /\ (task = "apply" => mode = "apply")
  BY DEF AtomicInv, Consistent, Flow, ApplyTasks
<1>2. CASE \E status : End(status)
  BY <1>2, FilesLeave DEF End, Goto
<1>3. CASE ~\E status : End(status)
  <2>1. /\ UNCHANGED <<ment, op>>
        /\ \/ pc' = "detach" /\ task' = "in-progress"
           \/ pc' = "root" /\ task' = "ambiguous" /\ task = "reverse"
    BY <1>1, <1>3 DEF Raise, Goto, Settling
  <2>2. \A o \in Untouched : Fits(o, ment[o]) /\ Fits(o, ment[o])'
    <3>1. \A o \in Untouched : Fits(o, ment[o])
      BY <1>1 DEF FileInv, Accurate, Busy
    <3> QED
      BY <2>1, <3>1 DEF Fits
  <2>3. Accurate' /\ Mutating' /\ Following' /\ InOrder'
    BY <2>1, <2>2 DEF Accurate, Mutating, Following, InOrder, Untouched, FileInv
  <2>4. Reversed'
    BY <2>1 DEF Reversed, Open, FileInv
  <2> QED
    BY <2>3, <2>4 DEF FileInv
<1> QED
  BY <1>2, <1>3

\* While a file is being changed, those before it are changed and those after it
\* are not.
LEMMA AroundTheCas ==
  ASSUME TypeOK, AtomicInv, FileInv, pc \in CasPcs
  PROVE  /\ \A p \in Untouched : p > op => LooksBefore(p, file[p])
         /\ op \in Untouched =>
              \A o \in Untouched : o < op => ~LooksBefore(o, file[o])
<1>1. /\ task \in {"apply", "reverse"} /\ pc \in ActivePcs /\ op \in Ops
      /\ \A o \in Ops : EntryOK(o, ment[o])
  BY DEF AtomicInv, Consistent, Flow, ActivePcs, Entries, TypeOK, CtlOK
<1>2. ASSUME NEW p \in Untouched, p > op
      PROVE  LooksBefore(p, file[p])
  <2>1. p \in Ops /\ ~Open(p)
    <3>1. CASE task = "apply"
      BY <1>1, <1>2, <3>1
         DEF AtomicInv, Consistent, Applying, ApplyTasks, Open, Untouched
    <3>2. CASE task = "reverse"
      BY <1>1, <1>2, <3>2 DEF FileInv, Reversed, Untouched
    <3> QED
      BY <1>1, <3>1, <3>2
  <2>2. Fits(p, ment[p])
    <3>1. ~Busy(p)
      BY <1>1, <1>2 DEF Busy, Ops
    <3> QED
      BY <1>1, <3>1 DEF FileInv, Accurate
  <2> QED
    BY <1>1, <2>1, <2>2 DEF Fits, Open, EntryOK
<1>3. ASSUME op \in Untouched, NEW o \in Untouched, o < op
      PROVE  ~LooksBefore(o, file[o])
  <2>1. CASE task = "apply"
    <3>1. o \in Ops /\ LooksAfter(o, file[o])
      BY <1>1, <1>3, <2>1
         DEF AtomicInv, Consistent, Applying, ApplyTasks, Untouched, LooksAfter
    <3> QED
      BY <3>1, SidesApart
  <2>2. CASE task = "reverse"
    <3>1. ~LooksBefore(op, file[op])
      <4>1. Kind[op] \in Kinds
        BY <1>1, TransactionAssumption
      <4> QED
        BY <1>1, <1>3, <2>2, <4>1, SidesApart DEF FileInv, Mutating, CasPcs, LooksBefore, Kinds
    <3> QED
      BY <1>3, <3>1 DEF FileInv, InOrder
  <2> QED
    BY <1>1, <2>1, <2>2
<1> QED
  BY <1>2, <1>3

\* A step of the compare-and-swap that finds what it expects.
LEMMA CasMoves ==
  ASSUME TypeOK, AtomicInv, FileInv, NEW from \in CasPcs, NEW leaves, pc = from,
         file' = [file EXCEPT ![op] = leaves],
         UNCHANGED <<op, ment, touched>>,
         \/ pc' \in CasPcs /\ task' = task
         \/ pc' = "root" /\ task' = IF task = "apply" THEN "applied" ELSE "rolled-back",
         Mutating', Following'
  PROVE  FileInv'
<1> USE DEF ActivePcs, CasPcs, WritePcs
<1>1. /\ task \in {"apply", "reverse"} /\ op \in Ops
      /\ file \in [Ops -> FileIds] /\ Untouched' = Untouched
      /\ \A o \in Ops : o # op => file'[o] = file[o]
  BY DEF AtomicInv, Consistent, Flow, TypeOK, CtlOK, DiskOK, Untouched
<1>2. Accurate'
  <2>1. \A o \in Untouched : o # op => Fits(o, ment[o])
    BY <1>1 DEF FileInv, Accurate, Busy
  <2>2. \A o \in Untouched : o # op => Fits(o, ment[o])'
    BY <1>1, <2>1 DEF Fits, Untouched
  <2>3. Busy(op)'
    BY <1>1 DEF Busy
  <2>4. \A o \in Untouched : Busy(o)' \/ Fits(o, ment[o])'
    BY <2>2, <2>3
  <2> QED
    BY <1>1, <2>4 DEF Accurate
<1>3. Reversed'
  BY <1>1 DEF FileInv, Reversed, Open
<1>4. InOrder'
  <2> SUFFICES ASSUME NEW o \in Untouched, NEW p \in Untouched, o < p,
                      ~LooksBefore(p, file'[p])
               PROVE  ~LooksBefore(o, file'[o])
    BY <1>1 DEF InOrder, LooksBefore
  <2>1. o \in Ops /\ p \in Ops
    BY DEF Untouched
  <2>2. CASE o # op /\ p # op
    BY <1>1, <2>1, <2>2 DEF FileInv, InOrder
  <2>3. CASE o = op
    BY <1>1, <2>1, <2>3, AroundTheCas DEF Ops
  <2>4. CASE p = op
    BY <1>1, <2>1, <2>4, AroundTheCas DEF Ops
  <2> QED
    BY <2>2, <2>3, <2>4
<1> QED
  BY <1>2, <1>3, <1>4 DEF FileInv

LEMMA CasFiles == TypeOK /\ AtomicInv /\ FileInv /\ Cas => FileInv'
<1> SUFFICES ASSUME TypeOK, AtomicInv, FileInv, Cas PROVE FileInv'
  OBVIOUS
<1> USE DEF CasPcs, Goto
<1>1. /\ task \in {"apply", "reverse"} /\ op \in Ops /\ Kind[op] \in Kinds
      /\ file \in [Ops -> FileIds] /\ Mutating
  <2>1. pc \in CasPcs
    BY DEF Cas, CasLink, CasLook, CasUnlink, CasInstall, CasSettle, CasStep
  <2> QED
    BY <2>1, TransactionAssumption DEF AtomicInv, Consistent, Flow, TypeOK, CtlOK, DiskOK, FileInv
<1>2. ASSUME NEW from \in CasPcs, NEW expected, NEW leaves, CasStep(from, expected, leaves),
             op \in Untouched => file[op] \in expected
      PROVE  \/ FileInv'
             \/ /\ file' = [file EXCEPT ![op] = leaves]
                /\ UNCHANGED <<op, ment, touched>>
                /\ IF CasLast(from)
                     THEN /\ pc' = "root" /\ goal' = CasGoal
                          /\ task' = IF task = "apply" THEN "applied" ELSE "rolled-back"
                     ELSE pc' = CasNext(from) /\ task' = task
  <2>1. CASE file[op] \in expected
    BY <1>2, <2>1 DEF CasStep, bounds
  <2>2. CASE file[op] \notin expected
    BY <1>2, <2>2, RaiseFiles DEF CasStep, MayLeaveName
  <2> QED
    BY <2>1, <2>2
<1>3. CASE CasLink
  <2>1. \/ FileInv'
        \/ /\ file' = [file EXCEPT ![op] = "linked"] /\ UNCHANGED <<op, ment, touched, task>>
           /\ pc' = "cas-look"
    BY <1>1, <1>2, <1>3 DEF CasLink, CasStep, Mutating, CasLast, CasNext
  <2>2. file' = [file EXCEPT ![op] = "linked"] /\ UNCHANGED <<op, ment, touched, task>>
        /\ pc' = "cas-look" => Mutating' /\ Following'
    BY <1>1, <1>3 DEF Mutating, Following, Untouched, Want, WritePcs, CasLink, CasStep
  <2> QED
    BY <1>3, <2>1, <2>2, CasMoves DEF CasLink, CasStep
<1>7. CASE CasLook
  <2>1. \/ FileInv'
        \/ /\ file' = [file EXCEPT ![op] = "linked"] /\ UNCHANGED <<op, ment, touched, task>>
           /\ pc' = "cas-unlink"
    BY <1>1, <1>2, <1>7 DEF CasLook, CasStep, Mutating, CasLast, CasNext
  <2>2. file' = [file EXCEPT ![op] = "linked"] /\ UNCHANGED <<op, ment, touched, task>>
        /\ pc' = "cas-unlink" => Mutating' /\ Following'
    BY <1>1, <1>7 DEF Mutating, Following, Untouched, Want, WritePcs, CasLook, CasStep
  <2> QED
    BY <1>7, <2>1, <2>2, CasMoves DEF CasLook, CasStep
<1>4. CASE CasUnlink
  <2>1. \/ FileInv'
        \/ /\ file' = [file EXCEPT ![op] = "absent"] /\ UNCHANGED <<op, ment, touched>>
           /\ \/ /\ CasGoal = "absent" /\ pc' = "root" /\ goal' = CasGoal
                 /\ task' = IF task = "apply" THEN "applied" ELSE "rolled-back"
              \/ CasGoal # "absent" /\ pc' = "cas-install" /\ task' = task
    BY <1>1, <1>2, <1>4 DEF CasUnlink, CasStep, Mutating, CasLast, CasNext, FileIds
  <2>2. CASE /\ file' = [file EXCEPT ![op] = "absent"] /\ UNCHANGED <<op, ment, touched>>
             /\ CasGoal = "absent" /\ pc' = "root" /\ goal' = CasGoal
             /\ task' = IF task = "apply" THEN "applied" ELSE "rolled-back"
    <3>1. Mutating' /\ Following'
      BY <1>1, <2>2 DEF Mutating, Following, Untouched, CasGoal, WritePcs, LooksAfter
    <3> QED
      BY <1>4, <2>2, <3>1, CasMoves DEF CasUnlink, CasStep
  <2>3. CASE /\ file' = [file EXCEPT ![op] = "absent"] /\ UNCHANGED <<op, ment, touched>>
             /\ CasGoal # "absent" /\ pc' = "cas-install" /\ task' = task
    <3>1. Mutating' /\ Following'
      BY <1>1, <1>4, <2>3
         DEF Mutating, Following, Untouched, CasGoal, WritePcs, Want, LooksAfter, CasUnlink, CasStep
    <3> QED
      BY <1>4, <2>3, <3>1, CasMoves DEF CasUnlink, CasStep
  <2> QED
    BY <2>1, <2>2, <2>3
<1>5. CASE CasInstall
  <2>1. \/ FileInv'
        \/ /\ file' = [file EXCEPT ![op] = "linked"] /\ UNCHANGED <<op, ment, touched, task>>
           /\ pc' = "cas-settle"
    BY <1>1, <1>2, <1>5 DEF CasInstall, CasStep, Mutating, CasLast, CasNext
  <2>2. file' = [file EXCEPT ![op] = "linked"] /\ UNCHANGED <<op, ment, touched, task>>
        /\ pc' = "cas-settle" => Mutating' /\ Following'
    BY <1>1, <1>5
       DEF Mutating, Following, Untouched, Want, WritePcs, LooksAfter, CasInstall, CasStep
  <2> QED
    BY <1>5, <2>1, <2>2, CasMoves DEF CasInstall, CasStep
<1>6. CASE CasSettle
  <2>1. \/ FileInv'
        \/ /\ file' = [file EXCEPT ![op] = CasGoal] /\ UNCHANGED <<op, ment, touched>>
           /\ pc' = "root" /\ goal' = CasGoal
           /\ task' = IF task = "apply" THEN "applied" ELSE "rolled-back"
    BY <1>1, <1>2, <1>6 DEF CasSettle, CasStep, Mutating, CasLast
  <2>2. CASE /\ file' = [file EXCEPT ![op] = CasGoal] /\ UNCHANGED <<op, ment, touched>>
             /\ pc' = "root" /\ goal' = CasGoal
             /\ task' = IF task = "apply" THEN "applied" ELSE "rolled-back"
    <3>1. Mutating' /\ Following'
      BY <1>1, <2>2 DEF Mutating, Following, Untouched, CasGoal, WritePcs, LooksAfter
    <3> QED
      BY <1>6, <2>2, <3>1, CasMoves DEF CasSettle, CasStep
  <2> QED
    BY <2>1, <2>2
<1> QED
  BY <1>3, <1>4, <1>5, <1>6, <1>7 DEF Cas

LEMMA ReverseFiles == TypeOK /\ AtomicInv /\ FileInv /\ Reverse => FileInv'
<1> SUFFICES ASSUME TypeOK, AtomicInv, FileInv, Reverse PROVE FileInv'
  OBVIOUS
<1> USE DEF CasPcs, WritePcs, ActivePcs
<1>1. /\ pc = "reverse" /\ task = "reverse" /\ op \in Ops /\ UNCHANGED <<file, touched>>
      /\ Open(op) /\ (HasBackup(op) => backup[op])
  BY DEF Reverse, AtomicInv, Consistent, Flow, MemoryAhead, BackupsHeld, Open, TypeOK, CtlOK, disk,
         bounds
<1>2. \A o \in Untouched : Fits(o, ment[o])
  BY <1>1 DEF FileInv, Accurate, Busy
<1>3. CASE Raise(fresh) /\ op \notin Untouched
  BY <1>1, <1>3, RaiseFiles
<1>4. ASSUME UNCHANGED <<ment, op>>, Mutating', Following',
             \/ pc' = "root" /\ task' = "rolled-back"
             \/ pc' \in {"cas-link", "cas-install"} /\ task' = "reverse"
      PROVE  FileInv'
  <2>1. \A o \in Untouched : Fits(o, ment[o])'
    BY <1>1, <1>2, <1>4 DEF Fits
  <2>2. Accurate' /\ InOrder'
    BY <1>1, <2>1 DEF Accurate, InOrder, FileInv, Untouched
  <2>3. Reversed'
    BY <1>1, <1>4 DEF Reversed, FileInv, Open
  <2> QED
    BY <1>4, <2>2, <2>3 DEF FileInv
<1>5. CASE Goto("root", "rolled-back", op, home) /\ goal' = file[op] /\ ment' = ment
  <2>1. Mutating' /\ Following'
    BY <1>1, <1>5 DEF Goto, Mutating, Following
  <2> QED
    BY <1>4, <1>5, <2>1 DEF Goto
<1>6. CASE /\ Goto(CasEntry(ment[op].after), "reverse", op, home) /\ UNCHANGED mem
           /\ LooksAfter(op, file[op]) /\ file[op] = ment[op].after
  <2>1. pc' = CasEntry(ment[op].after) /\ task' = "reverse" /\ op' = op /\ ment' = ment
    BY <1>6 DEF Goto, mem
  <2>2. Mutating' /\ Following'
    BY <1>1, <1>6, <2>1 DEF CasEntry, Mutating, Following, Want, LooksAfter, After
  <2> QED
    BY <1>4, <2>1, <2>2 DEF CasEntry
<1>7. CASE ~(\/ LooksBefore(op, file[op]) /\ file[op] = ment[op].before
             \/ LooksAfter(op, file[op]) /\ file[op] = ment[op].after)
  BY <1>1, <1>2, <1>3, <1>7 DEF Reverse, Fits, Open
<1> QED
  BY <1>1, <1>5, <1>6, <1>7 DEF Reverse

\* The journal that is installed fits the files.
LEMMA PendingFits ==
  ASSUME TypeOK, AtomicInv, FileInv, pc \in {"detach", "install"}, task # "cleanup",
         NEW o \in Untouched
  PROVE  Fits(o, Pending[o])
<1> USE DEF ActivePcs, WritePcs, CasPcs
<1>1. /\ task \in {"applying", "applied", "in-progress", "rolled-back", "ambiguous", "bulk"}
      /\ o \in Ops /\ op \in Ops /\ ment \in [Ops -> Entry] /\ EntryOK(o, ment[o])
      /\ Busy(o) \/ Fits(o, ment[o])
  BY DEF AtomicInv, Consistent, Flow, FileInv, Accurate, Untouched, TypeOK, CtlOK, MemOK, Entries
<1>2. /\ DOMAIN ment = Ops
      /\ ment[o] = [status |-> ment[o].status, before |-> ment[o].before,
                    after |-> ment[o].after]
  BY <1>1 DEF Entry
<1>3. CASE task = "in-progress"
  BY <1>1, <1>3 DEF Pending, Busy
<1>4. CASE task = "applying"
  <2>1. Fits(o, ment[o]) /\ (o = op => ment[o].status = "planned")
    BY <1>1, <1>4 DEF Busy, AtomicInv, Consistent, Applying, ApplyTasks
  <2>2. Pending[o] = IF o = op THEN [ment[o] EXCEPT !.status = "applying"] ELSE ment[o]
    BY <1>1, <1>2, <1>4 DEF Pending
  <2> QED
    BY <1>1, <1>2, <2>1, <2>2 DEF Fits, EntryOK
<1>5. CASE task = "applied"
  <2>1. Pending[o] = IF o = op THEN [ment[o] EXCEPT !.status = "applied", !.after = goal]
                               ELSE ment[o]
    BY <1>1, <1>2, <1>5 DEF Pending
  <2>2. o # op => Fits(o, ment[o])
    BY <1>1 DEF Busy
  <2>3. o = op => file[o] = goal /\ LooksAfter(o, goal)
    BY <1>5 DEF FileInv, Following
  <2> QED
    BY <1>1, <1>2, <2>1, <2>2, <2>3 DEF Fits
<1>6. CASE task = "rolled-back"
  <2>1. Pending[o] = IF o = op THEN [ment[o] EXCEPT !.status = "rolled-back", !.before = goal]
                               ELSE ment[o]
    BY <1>1, <1>2, <1>6 DEF Pending
  <2>2. o # op => Fits(o, ment[o])
    BY <1>1 DEF Busy
  <2>3. o = op => file[o] = goal
    BY <1>6 DEF FileInv, Following
  <2> QED
    BY <1>1, <1>2, <2>1, <2>2, <2>3 DEF Fits
<1>7. CASE task = "ambiguous"
  <2>1. o # op /\ Fits(o, ment[o])
    BY <1>1, <1>7 DEF Busy, FileInv, Following
  <2>2. Pending[o] = ment[o]
    BY <1>1, <1>2, <1>7, <2>1 DEF Pending
  <2> QED
    BY <2>1, <2>2
<1>8. CASE task = "bulk"
  <2>1. Pending[o] = IF HomeOf[o] = home THEN [ment[o] EXCEPT !.status = "rolled-back"]
                                         ELSE ment[o]
    BY <1>1, <1>8 DEF Pending
  <2>2. Fits(o, ment[o]) /\ ~Open(o)
    BY <1>1, <1>8 DEF Busy, FileInv, Reversed
  <2> QED
    BY <1>1, <1>2, <2>1, <2>2 DEF Fits, Open
<1> QED
  BY <1>1, <1>3, <1>4, <1>5, <1>6, <1>7, <1>8

\* Which operations the journal that is installed leaves open.
LEMMA PendingOpen ==
  ASSUME TypeOK, AtomicInv, FileInv, pc = "install"
  PROVE  /\ task \in {"rolled-back", "ambiguous"} =>
              \A o \in Ops : o > op - 1 => Pending[o].status \notin {"applying", "applied"}
         /\ task = "bulk" => \A o \in Ops : Pending[o].status \notin {"applying", "applied"}
<1> USE DEF ActivePcs, WritePcs, CasPcs
<1>1. op \in Ops /\ ment \in [Ops -> Entry]
  BY DEF TypeOK, CtlOK, MemOK
<1>2. DOMAIN ment = Ops /\ \A o \in Ops : DOMAIN ment[o] = {"status", "before", "after"}
  BY <1>1 DEF Entry
<1>3. CASE task \in {"rolled-back", "ambiguous"}
  <2>1. \A o \in Ops : o # op => Pending[o] = ment[o]
    BY <1>1, <1>2, <1>3 DEF Pending
  <2>2. Pending[op].status \in {"rolled-back", "ambiguous"}
    BY <1>1, <1>2, <1>3 DEF Pending
  <2>3. \A o \in Ops : o > op - 1 => o = op \/ o > op
    BY <1>1 DEF Ops
  <2> QED
    BY <1>3, <2>1, <2>2, <2>3 DEF FileInv, Reversed, Open
<1>4. CASE task = "bulk"
  <2>1. \A o \in Ops : Pending[o].status = "rolled-back" \/ Pending[o] = ment[o]
    BY <1>1, <1>2, <1>4 DEF Pending
  <2> QED
    BY <1>4, <2>1 DEF FileInv, Reversed, Open
<1> QED
  BY <1>3, <1>4

LEMMA InstallFiles == TypeOK /\ AtomicInv /\ FileInv /\ JournalInstall => FileInv'
<1> SUFFICES ASSUME TypeOK, AtomicInv, FileInv, JournalInstall PROVE FileInv'
  OBVIOUS
<1> USE DEF ActivePcs, WritePcs, CasPcs, Goto
<1>1. /\ pc = "install" /\ ment' = Pending /\ UNCHANGED <<file, touched>>
      /\ AfterJournal(Pending) /\ op \in Ops /\ Untouched' = Untouched /\ InOrder'
      /\ task \in {"applying", "applied", "in-progress", "rolled-back", "ambiguous", "bulk",
                   "cleanup"}
  BY DEF JournalInstall, bounds, AtomicInv, Consistent, Flow, TypeOK, CtlOK, Untouched, FileInv,
         InOrder
<1>2. CASE task = "cleanup"
  <2>1. pc' \notin ActivePcs \/ (pc' \notin CasPcs /\ task' = "cleanup")
    BY <1>1, <1>2 DEF AfterJournal
  <2> QED
    BY <1>1, <2>1, FilesLeave
<1>3. task # "cleanup" => Accurate'
  <2>1. task # "cleanup" => \A o \in Untouched : Fits(o, ment[o])'
    BY <1>1, PendingFits DEF Fits
  <2> QED
    BY <1>1, <2>1 DEF Accurate
<1>4. CASE task = "applying"
  <2>1. pc' = CasEntry(ment'[op].before) /\ task' = "apply" /\ op' = op
    BY <1>1, <1>4 DEF AfterJournal
  <2>2. op \in Untouched => file[op] = ment'[op].before
    <3>1. ment[op].status = "planned" /\ DOMAIN ment = Ops
          /\ ment[op] \in Entry
      BY <1>1, <1>4 DEF AtomicInv, Consistent, Applying, ApplyTasks, TypeOK, MemOK
    <3>2. op \in Untouched => file[op] = ment[op].before
      BY <1>1, <1>4, <3>1 DEF FileInv, Accurate, Busy, Fits
    <3>3. ment'[op].before = ment[op].before
      BY <1>1, <1>4, <3>1 DEF Pending, Entry
    <3> QED
      BY <3>2, <3>3
  <2>3. Mutating'
    BY <1>1, <2>1, <2>2 DEF Mutating, Want, CasEntry
  <2>4. Following' /\ Reversed'
    BY <2>1 DEF Following, Reversed, CasEntry
  <2> QED
    BY <1>1, <1>3, <1>4, <2>3, <2>4 DEF FileInv
<1>5. ASSUME pc' \in {"root", "detach", "reverse", "stage"},
             task' \in {"applying", "in-progress", "reverse", "bulk", "seal"}, Reversed',
             task # "cleanup"
      PROVE  FileInv'
  BY <1>1, <1>3, <1>5 DEF FileInv, Mutating, Following
<1>6. CASE task = "applied"
  <2>1. pc' \in {"root", "stage"} /\ task' \in {"applying", "seal"}
    BY <1>1, <1>6 DEF AfterJournal, ToApply
  <2> QED
    BY <1>5, <1>6, <2>1 DEF Reversed
<1>7. CASE task = "in-progress"
  <2>1. CASE Goto("detach", "in-progress", op, home + 1)
    BY <1>5, <1>7, <2>1 DEF Reversed
  <2>2. CASE ToReverse(NumOps, Pending)
    <3>1. NumOps \in Int /\ \A o \in Ops : ~(o > NumOps)
      BY TransactionAssumption DEF Ops
    <3>2. /\ Reversed' /\ pc' \in {"reverse", "root", "stage"}
          /\ task' \in {"reverse", "bulk", "seal"}
      BY <1>1, <2>2, <3>1, UndoClosed
    <3> QED
      BY <1>5, <1>7, <3>2
  <2> QED
    BY <1>1, <1>7, <2>1, <2>2 DEF AfterJournal
<1>8. CASE task \in {"rolled-back", "ambiguous"}
  <2>1. ToReverse(op - 1, Pending) /\ op - 1 \in Int
    BY <1>1, <1>8 DEF AfterJournal, Ops
  <2>2. /\ Reversed' /\ pc' \in {"reverse", "root", "stage"}
        /\ task' \in {"reverse", "bulk", "seal"}
    BY <1>1, <1>8, <2>1, UndoClosed, PendingOpen
  <2> QED
    BY <1>5, <1>8, <2>2
<1>9. CASE task = "bulk"
  <2>1. pc' \in {"root", "stage"} /\ task' \in {"bulk", "seal"}
    BY <1>1, <1>9 DEF AfterJournal, ToBulk
  <2>2. Reversed'
    BY <1>1, <1>9, <2>1, PendingOpen DEF Reversed, Open
  <2> QED
    BY <1>5, <1>9, <2>1, <2>2
<1> QED
  BY <1>1, <1>2, <1>4, <1>6, <1>7, <1>8, <1>9

LEMMA RecoverFiles == TypeOK /\ FileInv /\ Recover => FileInv'
<1> SUFFICES ASSUME TypeOK, FileInv, Recover PROVE FileInv'
  OBVIOUS
<1> USE DEF ActivePcs, WritePcs, CasPcs
<1>1. UNCHANGED <<file, touched>> /\ Untouched' = Untouched /\ InOrder'
  BY DEF Recover, disk, bounds, Untouched, FileInv, InOrder
<1>2. CASE \/ \E status : End(status)
           \/ \E h : Resume("remove", "remove", h, "seal")
           \/ Resume("detach", "cleanup", 1, "seal")
  BY <1>1, <1>2, FilesLeave DEF End, Resume, Goto
<1>3. CASE /\ {o \in Ops : Verdict(o) # "ok"} = {}
           /\ Resume("detach", "in-progress", 1, "recover")
  <2>1. \A o \in Ops : Fits(o, Loaded[o])
    BY <1>3, Zenon DEF Verdict, Fits
  <2>2. ment' = Loaded /\ pc' = "detach" /\ task' = "in-progress"
    BY <1>3 DEF Resume, Goto
  <2>3. \A o \in Untouched : Fits(o, ment[o])'
    BY <1>1, <2>1, <2>2 DEF Fits, Untouched
  <2> QED
    BY <1>1, <2>2, <2>3 DEF FileInv, Accurate, Mutating, Following, Reversed
<1> QED
  BY <1>2, <1>3 DEF Recover

LEMMA CreateFiles == TypeOK /\ AtomicInv /\ FileInv /\ CreateJournal => FileInv'
<1> SUFFICES ASSUME TypeOK, AtomicInv, FileInv, CreateJournal PROVE FileInv'
  OBVIOUS
<1> USE DEF ActivePcs, WritePcs, CasPcs, Goto
<1>1. /\ pc = "create" /\ UNCHANGED <<file, touched, ment>> /\ Untouched' = Untouched /\ InOrder'
  BY DEF CreateJournal, bounds, Untouched, FileInv, InOrder
<1>2. CASE pc' = "create"
  BY <1>1, <1>2, FilesLeave
<1>3. CASE ToApply(1)
  <2>1. \A o \in Untouched : Fits(o, ment[o])
    BY <1>1 DEF AtomicInv, Consistent, StartClean, Entries, EntryOK, Dirty, Untouched, Fits
  <2>2. \A o \in Untouched : Fits(o, ment[o])'
    BY <1>1, <2>1 DEF Fits
  <2> QED
    BY <1>1, <1>3, <2>2 DEF ToApply, FileInv, Accurate, Mutating, Following, Reversed
<1> QED
  BY <1>2, <1>3 DEF CreateJournal

\* The user's edit concerns an operation of which nothing is claimed any more.
LEMMA EditFiles == TypeOK /\ FileInv /\ UserEdit => FileInv'
<1> SUFFICES ASSUME TypeOK, FileInv, UserEdit PROVE FileInv'
  OBVIOUS
<1>1. /\ UNCHANGED <<ctl, mem>>
      /\ \A o \in Untouched' : o \in Untouched /\ file'[o] = file[o]
  BY DEF UserEdit, Untouched, TypeOK, DiskOK
<1>2. \A o \in Untouched' : Fits(o, ment[o]) => Fits(o, ment[o])'
  BY <1>1 DEF Fits, mem
<1>3. \A o : Busy(o)' = Busy(o)
  BY <1>1 DEF Busy, ctl
<1>4. Accurate'
  BY <1>1, <1>2, <1>3 DEF FileInv, Accurate, ctl
<1>5. Mutating' /\ Following' /\ Reversed' /\ InOrder'
  BY <1>1 DEF FileInv, Mutating, Following, Reversed, InOrder, ctl, mem, Want, Open
<1> QED
  BY <1>4, <1>5 DEF FileInv

LEMMA FileStep ==
  ASSUME TypeOK, AtomicInv, FreshHeld, Memory, FileInv, [Next]_vars, faults' = 0
  PROVE  FileInv'
<1> USE DEF ActivePcs, WritePcs, CasPcs, Goto, mem, ctl, disk, bounds
<1>1. CASE (\E status : End(status)) /\ UNCHANGED <<file, touched>>
  BY <1>1, FilesLeave DEF End
<1>2. CASE Prepare \/ LinkBackup \/ RemoveBackup \/ RemoveJournal
  <2>1. pc' \notin ActivePcs /\ UNCHANGED <<file, touched>>
    BY <1>2 DEF Prepare, End, LinkBackup, RemoveBackup, RemoveJournal
  <2> QED
    BY <2>1, FilesLeave
<1>3. CASE RemoveMarks \/ Crash
  BY <1>1, <1>3 DEF RemoveMarks, Crash
<1>4. CASE RootOpen \/ RootWrite
  <2>1. /\ pc \in {"root", "rewrite"} /\ UNCHANGED <<file, touched, ment, goal>>
        /\ \/ task' = task /\ op' = op /\ pc' \in WritePcs
           \/ pc' = "detach" /\ task' = "cleanup"
    BY <1>4 DEF RootOpen, RootWrite, AfterSeal
  <2> QED
    BY <2>1, FilesWait, FilesLeave
<1>5. CASE JournalDetach
  <2>1. pc = "detach" /\ pc' = "install"
        /\ UNCHANGED <<file, touched, ment, goal, task, op>>
    BY <1>5, RaisesAt DEF JournalDetach
  <2> QED
    BY <2>1, FilesWait
<1>6. CASE Stage
  <2>1. pc = "stage" /\ task = "seal" /\ UNCHANGED <<file, touched>>
    BY <1>6 DEF Stage, AtomicInv, Consistent, Flow
  <2>2. CASE Goto("root", "seal", op, 1) /\ UNCHANGED mem
    BY <2>1, <2>2, FilesWait
  <2> QED
    BY <1>1, <1>6, <2>1, <2>2, RaisesAt
<1>7. CASE UNCHANGED vars
  <2>1. /\ UNCHANGED <<file, touched, pc, task, op, ment, goal>>
    BY <1>7 DEF vars
  <2>2. \A o : (Busy(o)' = Busy(o)) /\ (Fits(o, ment[o])' = Fits(o, ment[o]))
    BY <2>1 DEF Busy, Fits
  <2>3. Accurate'
    BY <2>1, <2>2, Zenon DEF FileInv, Accurate, Untouched
  <2>4. Mutating' /\ Following' /\ Reversed' /\ InOrder'
    BY <2>1 DEF FileInv, Mutating, Following, Reversed, InOrder, Want, Open, Untouched
  <2> QED
    BY <2>3, <2>4 DEF FileInv
<1>8. ~RootRefused /\ ~Unprepare
  BY RaisesAt DEF Unprepare, FreshHeld
<1> QED
  BY <1>2, <1>3, <1>4, <1>5, <1>6, <1>7, <1>8, NoFaults, CasFiles, ReverseFiles, InstallFiles,
     RecoverFiles, CreateFiles, EditFiles DEF Next, Process

OrderInv == faults = 0 => FileInv

LEMMA OrderInit == Init => OrderInv
<1> SUFFICES ASSUME Init PROVE FileInv
  BY DEF OrderInv
<1>1. \A o \in Ops : LooksBefore(o, file[o])
  BY DEF Init, LooksBefore, Before
<1> QED
  BY <1>1 DEF Init, FileInv, Accurate, Mutating, Following, Reversed, InOrder, Untouched, ActivePcs,
              CasPcs, WritePcs

LEMMA OrderStep == TypeOK /\ AtomicInv /\ RecInv /\ OrderInv /\ [Next]_vars => OrderInv'
<1> SUFFICES ASSUME TypeOK, AtomicInv, RecInv, OrderInv, [Next]_vars, faults' = 0
             PROVE  FileInv'
  BY DEF OrderInv
<1>1. faults = 0
  BY NoFaults
<1> QED
  BY <1>1, FileStep DEF RecInv, SlotInv, OrderInv

\* While no system call raises, the files are what the journals in memory say, but
\* for the one that is being changed, and those that changed are the first ones.
THEOREM FilesFollowTheJournals == Spec => []OrderInv
BY OrderInit, OrderStep, TypeCorrect, JournalsTellTheFiles, RootsOutliveTheirRewrite, PTL DEF Spec

\* The changed files are at every moment a prefix of the operations, through the
\* application, the rollback and every recovery.
THEOREM FilesChangeInOrder == Spec => []PrefixApplied
<1>1. OrderInv => PrefixApplied
  BY DEF OrderInv, FileInv, InOrder, PrefixApplied
<1> QED
  BY <1>1, FilesFollowTheJournals, PTL

-----------------------------------------------------------------------------
(* What recovery accepts. *)

\* Nothing went wrong, but that processes were killed in none of the windows.
Calm == faults = 0 /\ touched = {} /\ windows = {}

\* No process had to give up.
Accepted == ~err /\ exit \notin {"incomplete", "blocked"}

\* The journals are created one after the other.
Creating == pc = "create" => \A h \in Homes : h < home \/ h \notin Present

\* The entries about to be written are one step after those in memory.
Owed ==
  pc \in WritePcs =>
    /\ task = "rolled-back" => Open(op)
    /\ task = "bulk" => \E o \in OpsOf(home) : ment[o].status # "rolled-back"

\* The cleanup roots are written one after the other, for one outcome.
Sealings ==
  Sealing => \A h \in Homes : h < home => \E k \in Slots : slot[h][k] = CleanupRoot(Final(ment))

Anchored(h) == AnchorsOk(h, jent, jslot[h][h])

\* A recovery that finds this rolls the transaction back.
Sound ==
  /\ Present = Homes /\ \A h \in Homes : Anchored(h)
  /\ \A o \in Ops : (HasBackup(o) => backup[o]) /\ Fits(o, Loaded[o])
AtRest == pc = "down" /\ (\A h \in Present : ~Sealed(h)) => Present = {} \/ Sound

\* What a recovery has not rewritten yet is as it was found.
Resuming ==
  pc \in {"detach", "install"} /\ task = "in-progress" =>
    \A h \in Homes : h < home \/ (Anchored(h) /\ \A o \in OpsOf(h) : Loaded[o] = ment[o])

\* The journals rest on the roots that say the outcome f, with or without those
\* already removed, and the files are those of f.  A recovery that finds this,
\* and a cleanup journal, goes on cleaning up.
Cleanable(f) ==
  /\ \A h \in Homes : \E i \in Slots :
       /\ IsProgress(slot[h][i]) /\ slot[h][3 - i] = CleanupRoot(f)
       /\ h \in Present => i \in Backing(h, jent, jslot[h][h])
  /\ \A h \in Present : Sealed(h) => jslot[h] = slot
  /\ \A o \in OpsPresent :
       /\ jent[o].status = f
       /\ f = "applied" => file[o] = jent[o].after /\ LooksAfter(o, file[o])
       /\ f = "rolled-back" => file[o] = jent[o].before
  /\ Present = Homes \/ \A h \in Present : Sealed(h)
  /\ BackupsOk
Cleaning ==
  task \in {"cleanup", "remove"} \/ (\E h \in Present : Sealed(h))
    => \E f \in Finals : Cleanable(f)

\* The evidence of the cleanup roots is every journal's.
CleaningMemory ==
  task = "cleanup" => /\ \A h \in Homes : mslot[h] = slot
                      /\ \A o \in Ops : ment[o] = jent[o]

Refs == /\ Accepted /\ Creating /\ Owed /\ Sealings /\ AtRest /\ Resuming
        /\ Cleaning /\ CleaningMemory
\* What a killed process leaves behind for good it leaves in one of the windows.
RefInv == Calm => Refs /\ debris = "none"
\* The entries one step ahead depend on the home's own entries.
LEMMA NextSame ==
  ASSUME NEW h, NEW e, NEW f, \A o \in OpsOf(h) : e[o] = f[o]
  PROVE  NextEntries(h, e) = NextEntries(h, f)
<1>1. Digest(h, e) = Digest(h, f)
  BY DigestSame
<1> DEFINE Step(g, o, x) == [Digest(h, g) EXCEPT ![o] = x]
           A(g) == {Step(g, o, [g[o] EXCEPT !.status = "applying"])
                      : o \in {o \in OpsOf(h) : g[o].status = "planned"}}
           B(g) == {Step(g, o, [g[o] EXCEPT !.status = "applied", !.after = file[o]])
                      : o \in {o \in OpsOf(h) : g[o].status = "applying"
                                                /\ LooksAfter(o, file[o])}}
           C(g) == {Step(g, o, [g[o] EXCEPT !.status = "rolled-back", !.before = file[o]])
                      : o \in {o \in OpsOf(h) : g[o].status \in {"applying", "applied"}
                                                /\ LooksBefore(o, file[o])}}
           D(g) == {Step(g, o, [g[o] EXCEPT !.status = "ambiguous"])
                      : o \in {o \in OpsOf(h) : g[o].status \in {"applying", "applied"}}}
           E(g) == IF /\ \A o \in OpsOf(h) : g[o].status \in {"planned", "rolled-back"}
                      /\ \E o \in OpsOf(h) : g[o].status = "planned"
                     THEN {[o \in OpsOf(h) |-> [g[o] EXCEPT !.status = "rolled-back"]]}
                     ELSE {}
<1>2. A(e) = A(f)
  BY <1>1
<1>3. B(e) = B(f)
  BY <1>1
<1>4. C(e) = C(f)
  BY <1>1
<1>5. D(e) = D(f)
  BY <1>1
<1>6. E(e) = E(f)
  OBVIOUS
<1>7. \A g : NextEntries(h, g) = UNION {A(g), B(g), C(g), D(g), E(g)}
  BY DEF NextEntries
<1> HIDE DEF A, B, C, D, E
<1> QED
  BY <1>2, <1>3, <1>4, <1>5, <1>6, <1>7

\* A home whose slots, journal and files stay keeps its anchors.
LEMMA AnchorsStay ==
  ASSUME NEW h \in Homes, slot'[h] = slot[h], jslot'[h][h] = jslot[h][h], file' = file,
         \A o \in OpsOf(h) : jent'[o] = jent[o], Anchored(h)
  PROVE  Anchored(h)'
<1>1. Digest(h, jent') = Digest(h, jent)
  BY DigestSame
<1>2. NextEntries(h, jent') = NextEntries(h, jent)
  BY NextSame
<1>3. NextEntries(h, jent)' = NextEntries(h, jent')
  BY DEF NextEntries
<1>4. Backing(h, jent, jslot[h][h])' = Backing(h, jent, jslot[h][h])
  BY <1>1 DEF Backing, RootsOf, IsProgress
<1>5. AheadOf(h, jslot[h][h])' = AheadOf(h, jslot[h][h])
  BY DEF AheadOf, IsProgress
<1>6. \A S : LastSeq(h, S)' = LastSeq(h, S)
  BY DEF LastSeq, Newest
<1> QED
  BY <1>2, <1>3, <1>4, <1>5, <1>6 DEF Anchored, AnchorsOk

\* A home without a root ahead of its journal.
LEMMA QuietAnchors ==
  ASSUME NEW h \in Homes, Backing(h, jent, jslot[h][h]) # {}, AheadOf(h, jslot[h][h]) = {}
  PROVE  Anchored(h) /\ \A o \in OpsOf(h) : Loaded[o] = jent[o]
<1>1. Cardinality({}) <= 1
  BY FS_EmptySet
<1>2. \A o \in OpsOf(h) : o \in Ops /\ HomeOf[o] = h
  BY DEF OpsOf
<1>3. \A o \in OpsOf(h) : Loaded[o] = jent[o]
  BY <1>2, Zenon DEF Loaded
<1> QED
  BY <1>1, <1>3 DEF Anchored, AnchorsOk

LEMMA HeldAnchors ==
  ASSUME NEW h \in Homes, Rooted(h), InStep(h),
         \A k \in Slots : IsProgress(slot[h][k]) => slot[h][k] = mslot[h][h][k]
  PROVE  Anchored(h) /\ \A o \in OpsOf(h) : Loaded[o] = ment[o]
<1>1. Digest(h, jent) = Digest(h, ment)
  BY DigestSame DEF InStep
<1>2. Backing(h, jent, jslot[h][h]) # {}
  BY <1>1 DEF Rooted, Rests, InStep, Backing, RootsOf
<1>3. AheadOf(h, jslot[h][h]) = {}
  BY DEF AheadOf, InStep
<1> QED
  BY <1>2, <1>3, QuietAnchors DEF InStep

\* What the journals of a group that is being cleaned up rest on.
LEMMA CleanableSlots ==
  ASSUME DiskOK, NEW f \in Finals, Cleanable(f), NEW h \in Homes
  PROVE  /\ Cardinality({i \in Slots : slot[h][i] = CleanupRoot(f)}) = 1
         /\ h \in Present => /\ CleanupAnchorsOk(h, jent, slot[h], f)
                             /\ Backing(h, jent, jslot[h][h]) # {}
                             /\ AheadOf(h, jslot[h][h]) = {}
<1>1. PICK i \in Slots : /\ IsProgress(slot[h][i]) /\ slot[h][3 - i] = CleanupRoot(f)
                         /\ h \in Present => i \in Backing(h, jent, jslot[h][h])
  BY DEF Cleanable
<1>2. 3 - i \in Slots /\ \A k \in Slots : k = i \/ k = 3 - i
  BY DEF Slots
<1>3. ~IsProgress(slot[h][3 - i])
  BY <1>1 DEF IsProgress, CleanupRoot
<1>4. {k \in Slots : slot[h][k] = CleanupRoot(f)} = {3 - i}
  BY <1>1, <1>2, <1>3
<1>5. \A k : Cardinality({k}) = 1
  BY FS_Singleton
<1>6. ASSUME h \in Present
      PROVE  /\ Backing(h, jent, slot[h]) = {i} /\ Backing(h, jent, jslot[h][h]) # {}
             /\ AheadOf(h, jslot[h][h]) = {}
  BY <1>1, <1>2, <1>3, <1>6 DEF Backing, RootsOf, AheadOf
<1> QED
  BY <1>4, <1>5, <1>6 DEF CleanupAnchorsOk

\* What is loaded of such a group is what the journals say.
LEMMA CleanableLoads ==
  ASSUME DiskOK, NEW f \in Finals, Cleanable(f)
  PROVE  \A o \in Ops : Loaded[o] = jent[o]
<1> SUFFICES ASSUME NEW o \in Ops PROVE Loaded[o] = jent[o]
  OBVIOUS
<1>1. HomeOf[o] \in Homes
  BY HomeOfOp
<1>2. HomeOf[o] \in Present => AheadOf(HomeOf[o], jslot[HomeOf[o]][HomeOf[o]]) = {}
  BY <1>1, CleanableSlots
<1> QED
  BY <1>2, Zenon DEF Loaded

\* The root about to be durable is one step ahead of the journal in memory.
LEMMA PendingIsNext ==
  ASSUME TypeOK, AtomicInv, FileInv, Owed, ~err, touched = {}, pc \in WritePcs, task \in WriteTasks
  PROVE  Digest(home, Pending) \in NextEntries(home, ment)
<1> USE DEF ActivePcs, WritePcs, CasPcs
<1>1. /\ op \in Ops /\ ment \in [Ops -> Entry] /\ home \in Homes /\ Untouched = Ops
      /\ \A o \in OpsOf(home) : o \in Ops /\ HomeOf[o] = home
      /\ task \in OpTasks => op \in OpsOf(home)
  BY DEF TypeOK, CtlOK, MemOK, Untouched, OpsOf, AtomicInv, Consistent, Flow
<1>2. \A o \in Ops : DOMAIN ment[o] = {"status", "before", "after"}
  BY <1>1 DEF Entry
<1> DEFINE Step(o, x) == [Digest(home, ment) EXCEPT ![o] = x]
<1>3. CASE task = "applying"
  <2>1. op \in OpsOf(home) /\ ment[op].status = "planned"
    BY <1>1, <1>3 DEF AtomicInv, Consistent, Applying, ApplyTasks, OpTasks
  <2>2. Digest(home, Pending) = Step(op, [ment[op] EXCEPT !.status = "applying"])
    BY <1>1, <1>3, <2>1 DEF Pending, Digest
  <2> QED
    BY <2>1, <2>2 DEF NextEntries
<1>4. CASE task = "applied"
  <2>1. op \in OpsOf(home) /\ ment[op].status = "applying"
    BY <1>1, <1>4 DEF AtomicInv, Consistent, Applying, ApplyTasks, OpTasks
  <2>2. goal = file[op] /\ LooksAfter(op, file[op])
    BY <1>1, <1>4 DEF FileInv, Following
  <2>3. Digest(home, Pending) = Step(op, [ment[op] EXCEPT !.status = "applied", !.after = file[op]])
    BY <1>1, <1>4, <2>1, <2>2 DEF Pending, Digest
  <2> QED
    BY <2>1, <2>2, <2>3 DEF NextEntries
<1>5. CASE task = "rolled-back"
  <2>1. op \in OpsOf(home) /\ ment[op].status \in {"applying", "applied"}
    BY <1>1, <1>5 DEF Owed, Open, OpTasks
  <2>2. goal = file[op] /\ LooksBefore(op, file[op])
    BY <1>1, <1>5 DEF FileInv, Following, AtomicInv, Consistent, Entries
  <2>3. Digest(home, Pending)
          = Step(op, [ment[op] EXCEPT !.status = "rolled-back", !.before = file[op]])
    BY <1>1, <1>5, <2>1, <2>2 DEF Pending, Digest
  <2> QED
    BY <2>1, <2>2, <2>3 DEF NextEntries
<1>6. CASE task = "bulk"
  <2>1. \A o \in OpsOf(home) : ment[o].status \in {"planned", "rolled-back"}
    <3>1. \A o \in Ops : ~Open(o) /\ ment[o].status # "ambiguous"
      BY <1>6 DEF FileInv, Reversed, AtomicInv, Consistent, Undoing, UndoTasks
    <3>2. \A o \in Ops : ment[o].status \in Statuses
      BY <1>1 DEF Entry
    <3> QED
      BY <1>1, <3>1, <3>2 DEF Open, Statuses
  <2>2. \E o \in OpsOf(home) : ment[o].status = "planned"
    BY <1>6, <2>1 DEF Owed
  <2>3. Digest(home, Pending) = [o \in OpsOf(home) |-> [ment[o] EXCEPT !.status = "rolled-back"]]
    BY <1>1, <1>6 DEF Pending, Digest
  <2> QED
    BY <2>1, <2>2, <2>3 DEF NextEntries
<1>7. task # "ambiguous"
  BY <1>1 DEF FileInv, Following
<1> QED
  BY <1>3, <1>4, <1>5, <1>6, <1>7 DEF WriteTasks

\* Where a process may be killed between two journals, each home's journal has
\* at most one root ahead of it, and that stands for the journal to come.
LEMMA AnchorsMidway ==
  ASSUME TypeOK, AtomicInv, SlotInv, FileInv, Refs, touched = {},
         pc \in ActivePcs \ {"install"}, task # "cleanup", NEW h \in Homes
  PROVE  /\ Anchored(h)
         /\ \A o \in OpsOf(h) :
              Loaded[o] = IF Recording /\ pc = "detach" /\ h = home THEN Pending[o] ELSE ment[o]
<1> USE DEF SlotInv, ActivePcs, WritePcs
<1>1. h \in Present /\ DiskOK /\ ~Sealed(h)
  <2>1. h \in Present /\ DiskOK
    BY DEF AtomicInv, Consistent, Standing, TypeOK
  <2>2. SealInv /\ pc \notin {"down", "remove", "unlink", "marks"}
    BY DEF AtomicInv, Consistent, CasPcs
  <2> QED
    BY <2>1, <2>2 DEF SealInv
<1>2. CASE task = "in-progress" /\ ~(h < home)
  <2>1. pc = "detach" /\ ~Recording
    BY <1>2 DEF AtomicInv, Consistent, Flow, CasPcs, Recording, WriteTasks
  <2> QED
    BY <1>2, <2>1 DEF Refs, Resuming
<1>3. ~(task = "in-progress" /\ ~(h < home)) => InStep(h)
  BY DEF Synced
<1>4. CASE InStep(h) /\ ~(Recording /\ h = home) /\ (~Sealing \/ h > home \/ (h = home /\ pc = "root"))
  <2>1. Held(h) /\ Rooted(h)
    BY <1>4 DEF Memory
  <2> QED
    BY <1>4, <2>1, HeldAnchors DEF Held
<1>5. CASE InStep(h) /\ Sealing /\ ~(h > home) /\ ~(h = home /\ pc = "root")
  <2>1. Rooted(h) /\ ~Recording
    BY <1>5 DEF Memory, Sealing, Recording, WriteTasks
  <2>2. \E k \in Slots : ~IsProgress(slot[h][k])
    <3>1. CASE h = home
      BY <1>5, <3>1 DEF Writing, Sealing, Torn, IsProgress
    <3>2. CASE h < home
      BY <1>5, <3>2 DEF Refs, Sealings, CleanupRoot, IsProgress
    <3> QED
      BY <1>5, <3>1, <3>2 DEF Homes, TypeOK, CtlOK
  <2>3. \A k \in Slots : IsProgress(slot[h][k]) => slot[h][k] = mslot[h][h][k]
    BY <2>1, <2>2 DEF Rooted, Rests, RootsOf, Slots
  <2> QED
    BY <1>5, <2>1, <2>3, HeldAnchors
<1>6. CASE InStep(h) /\ Recording /\ h = home
  <2>1. PICK i \in Slots : Announced(i)
    BY <1>6 DEF Writing
  <2>2. /\ i \in Backing(h, jent, jslot[h][h])
        /\ 3 - i \in Slots /\ \A k \in Slots : k = i \/ k = 3 - i
        /\ IsProgress(slot[h][i]) /\ slot[h][i] = jslot[h][h][i] /\ slot[h][i].seq \in Nat
    <3>1. Digest(h, jent) = Digest(h, ment)
      BY <1>6, DigestSame DEF InStep
    <3>2. i \in Slots /\ slot[h][i] = jslot[h][h][i] /\ i \in RootsOf(h, jent)
      BY <1>6, <2>1, <3>1 DEF Announced, Backing, RootsOf, InStep
    <3>3. 3 - i \in Slots /\ \A k \in Slots : k = i \/ k = 3 - i
      BY <3>2 DEF Slots
    <3>4. IsProgress(slot[h][i]) /\ slot[h][i].seq \in Nat
      BY <1>1, <3>2, SlotTyped DEF RootsOf
    <3> QED
      BY <3>2, <3>3, <3>4 DEF Backing
  <2>3. CASE pc = "rewrite"
    <3>1. AheadOf(h, jslot[h][h]) = {}
      BY <1>6, <2>1, <2>2, <2>3 DEF Announced, AheadOf, Torn, IsProgress
    <3> QED
      BY <1>6, <2>2, <2>3, <3>1, QuietAnchors DEF InStep
  <2>4. CASE pc = "detach"
    <3>1. /\ slot[h][3 - i] = Progress(slot[h][i].seq + 1, Digest(h, Pending))
          /\ IsProgress(jslot[h][h][3 - i]) => jslot[h][h][3 - i].seq <= slot[h][i].seq
      BY <1>6, <2>1, <2>4 DEF Announced, InStep
    <3>2. /\ IsProgress(slot[h][3 - i]) /\ slot[h][3 - i].digest = Digest(h, Pending)
          /\ slot[h][3 - i].seq = slot[h][i].seq + 1
      BY <3>1 DEF Progress, IsProgress
    <3>3. slot[h][3 - i] # jslot[h][h][3 - i]
      <4>1. jslot[h][h] \in [Slots -> Anchors(h)]
        BY <1>1 DEF DiskOK, AreSlotMaps, IsSlotMap, Pairs
      <4>2. IsProgress(jslot[h][h][3 - i]) => jslot[h][h][3 - i].seq \in Nat
        BY <2>2, <4>1 DEF Anchors, IsProgress
      <4> QED
        BY <2>2, <3>1, <3>2, <4>2
    <3>4. AheadOf(h, jslot[h][h]) = {3 - i}
      BY <2>2, <3>2, <3>3 DEF AheadOf
    <3>5. Backing(h, jent, jslot[h][h]) = {i}
      BY <2>2, <3>3 DEF Backing, RootsOf
    <3>6. Newest(h, {i}) = i
      BY DEF Newest, Slots
    <3>7. Digest(h, Pending) \in NextEntries(h, jent)
      BY <1>6, PendingIsNext, NextSame DEF Recording, InStep, Refs, Accepted
    <3>8. Cardinality({3 - i}) <= 1
      <4>1. Cardinality({3 - i}) = 1
        BY FS_Singleton
      <4> QED
        BY <4>1
    <3>9. Anchored(h)
      BY <3>2, <3>4, <3>5, <3>6, <3>7, <3>8 DEF Anchored, AnchorsOk, LastSeq
    <3>10. \A o \in OpsOf(h) : Loaded[o] = Pending[o]
      <4>1. \A o \in OpsOf(h) : o \in Ops /\ HomeOf[o] = h
        BY DEF OpsOf
      <4>2. \A o \in OpsOf(h) : Loaded[o] = slot[h][CHOOSE k \in {3 - i} : TRUE].digest[o]
        BY <1>1, <3>4, <4>1, Zenon DEF Loaded
      <4>3. (CHOOSE k \in {3 - i} : TRUE) = 3 - i
        OBVIOUS
      <4> QED
        BY <3>2, <4>2, <4>3 DEF Digest
    <3> QED
      BY <1>6, <2>4, <3>9, <3>10
  <2> QED
    BY <1>6, <2>3, <2>4 DEF Recording
<1> QED
  BY <1>2, <1>3, <1>4, <1>5, <1>6

\* Outside the windows the file that is being changed still is as an entry says.
LEMMA BusyFits ==
  ASSUME TypeOK, AtomicInv, FileInv, ~err, touched = {}, ~InFileWindow,
         pc \in CasPcs \cup {"root", "rewrite"}, Busy(op)
  PROVE  Fits(op, ment[op])
<1> USE DEF ActivePcs, WritePcs, CasPcs
<1>1. /\ op \in Ops /\ op \in Untouched /\ EntryOK(op, ment[op])
      /\ ment[op].status \in Statuses
  BY DEF TypeOK, CtlOK, MemOK, Untouched, AtomicInv, Consistent, Entries, Entry
<1>2. CASE pc \in CasPcs
  <2>1. /\ task \in {"apply", "reverse"} /\ ment[op].status \in {"applying", "applied"}
        /\ file[op] = Want
    BY <1>1, <1>2 DEF AtomicInv, Consistent, Flow, MemoryAhead, FileInv, Mutating, InFileWindow
  <2>2. task = "reverse" => LooksAfter(op, Want)
    BY <1>1, <1>2 DEF FileInv, Mutating
  <2> QED
    BY <1>1, <2>1, <2>2 DEF Fits, Want, EntryOK
<1>3. CASE pc \in {"root", "rewrite"} /\ task = "applied"
  <2>1. file[op] = goal /\ goal = ment[op].after /\ LooksAfter(op, goal)
    BY <1>1, <1>3 DEF FileInv, Following, InFileWindow
  <2>2. ment[op].status = "applying"
    BY <1>3 DEF AtomicInv, Consistent, Applying, ApplyTasks
  <2> QED
    BY <2>1, <2>2 DEF Fits
<1>4. CASE pc \in {"root", "rewrite"} /\ task = "rolled-back"
  <2>1. file[op] = goal /\ goal = ment[op].before /\ LooksBefore(op, goal)
    BY <1>1, <1>4 DEF FileInv, Following, InFileWindow, EntryOK
  <2>2. ment[op].status # "ambiguous"
    BY <1>1, <1>4 DEF AtomicInv, Consistent, Undoing, UndoTasks
  <2> QED
    BY <1>1, <2>1, <2>2 DEF Fits, Statuses
<1> QED
  BY <1>2, <1>3, <1>4 DEF Busy

\* A process that is killed outside the windows, before a journal is sealed,
\* leaves a group that the next recovery rolls back.
LEMMA SoundMidway ==
  ASSUME TypeOK, AtomicInv, SlotInv, FileInv, Refs, touched = {},
         pc \in ActivePcs \ {"install"}, ~InFileWindow, \A h \in Present : ~Sealed(h)
  PROVE  Sound
<1> USE DEF ActivePcs, WritePcs, CasPcs
<1>1. Present = Homes /\ OpsPresent = Ops /\ DiskOK /\ Untouched = Ops /\ ~err
  BY HomeOfOp DEF AtomicInv, Consistent, Standing, OpsPresent, TypeOK, Untouched, Refs, Accepted
<1>2. CASE task = "cleanup"
  <2>1. PICK f \in Finals : Cleanable(f)
    BY <1>2 DEF Refs, Cleaning
  <2>2. \A h \in Homes : Anchored(h)
    BY <1>1, <2>1, CleanableSlots, QuietAnchors
  <2>3. \A o \in Ops : HasBackup(o) => backup[o]
    BY <1>1, <2>1, HomeOfOp DEF Cleanable, BackupsOk
  <2>4. \A o \in Ops : Fits(o, jent[o])
    BY <1>1, <2>1 DEF Cleanable, Fits, Finals
  <2>5. \A o \in Ops : Loaded[o] = jent[o]
    BY <1>1, <2>1, CleanableLoads
  <2> QED
    BY <1>1, <2>2, <2>3, <2>4, <2>5 DEF Sound
<1>3. CASE task # "cleanup"
  <2>1. ASSUME NEW o \in Ops
        PROVE  Fits(o, Loaded[o])
    <3>1. o \in OpsOf(HomeOf[o]) /\ HomeOf[o] \in Homes
      BY HomeOfOp DEF OpsOf
    <3>2. Loaded[o] = IF Recording /\ pc = "detach" /\ HomeOf[o] = home THEN Pending[o] ELSE ment[o]
      BY <1>3, <3>1, AnchorsMidway
    <3>3. CASE pc = "detach"
      <4>1. Fits(o, Pending[o])
        BY <1>1, <1>3, <3>3, PendingFits
      <4>2. ~(Recording /\ HomeOf[o] = home) => Pending[o] = ment[o]
        <5>1. ~Recording => Pending = ment
          BY <1>3, <3>3 DEF Pending, Recording, WriteTasks
        <5>2. HomeOf[o] # home => Pending[o] = ment[o]
          BY <3>1, PendingElsewhere DEF AtomicInv, Consistent
        <5> QED
          BY <5>1, <5>2
      <4> QED
        BY <3>2, <3>3, <4>1, <4>2
    <3>4. CASE pc # "detach"
      <4>1. Busy(o) \/ Fits(o, ment[o])
        BY <1>1, <1>3 DEF FileInv, Accurate
      <4>2. Busy(o) => o = op /\ pc \in CasPcs \cup {"root", "rewrite"}
        BY <3>4 DEF Busy
      <4> QED
        BY <1>1, <3>2, <3>4, <4>1, <4>2, BusyFits
    <3> QED
      BY <3>3, <3>4
  <2>2. \A h \in Homes : Anchored(h)
    BY <1>3, AnchorsMidway
  <2>3. \A o \in Ops : HasBackup(o) => backup[o]
    BY <1>3 DEF AtomicInv, Consistent, BackupsHeld
  <2> QED
    BY <1>1, <2>1, <2>2, <2>3 DEF Sound
<1> QED
  BY <1>2, <1>3

\* A recovery never refuses what such a process left behind.
LEMMA RecoverAccepts ==
  ASSUME TypeOK, AtomicInv, Refs, debris = "none", Recover
  PROVE  \/ /\ Sound /\ Resume("detach", "in-progress", 1, "recover")
         \/ \E f \in Finals : /\ Cleanable(f) /\ \E h \in Present : Sealed(h)
                              /\ GroupSlots = slot
                              /\ \/ Resume("detach", "cleanup", 1, "seal")
                                 \/ \E h \in Present : Resume("remove", "remove", h, "seal")
<1>1. pc = "down" /\ Present # {} /\ DiskOK
  BY DEF Recover, TypeOK
<1>2. CASE \A h \in Present : ~Sealed(h)
  <2>1. Sound
    BY <1>1, <1>2 DEF Refs, AtRest
  <2>2. BackupsOk /\ GroupOk /\ Present = Homes
    BY <1>2, <2>1 DEF Sound, BackupsOk, GroupOk, Anchored, OpsPresent
  <2>3. \A o \in Ops : Verdict(o) = "ok"
    BY <2>1, Zenon DEF Sound, Verdict, Fits
  <2>4. {o \in Ops : Verdict(o) # "ok"} = {}
    BY <2>3
  <2>5. \A f : ~Decided(f)
    BY <1>2 DEF Decided
  <2> QED
    BY <1>2, <2>1, <2>2, <2>4, <2>5 DEF Recover
<1>3. CASE \E h \in Present : Sealed(h)
  <2>1. PICK f \in Finals : Cleanable(f)
    BY <1>3 DEF Refs, Cleaning
  <2>2. GroupSlots = slot
    BY <1>3, <2>1 DEF GroupSlots, Cleanable
  <2>3. \A h \in Homes : /\ Cardinality({i \in Slots : slot[h][i] = CleanupRoot(f)}) = 1
                         /\ h \in Present => /\ CleanupAnchorsOk(h, jent, slot[h], f)
                                             /\ Backing(h, jent, jslot[h][h]) # {}
                                             /\ AheadOf(h, jslot[h][h]) = {}
    BY <1>1, <2>1, CleanableSlots
  <2>4. \A o \in Ops : Loaded[o] = jent[o]
    BY <1>1, <2>1, CleanableLoads
  <2>5. Uniform(jent, f) /\ Decided(f) /\ FilesMatch(f)
    BY <1>3, <2>1, <2>4 DEF Cleanable, Uniform, Decided, FilesMatch, OpsPresent, Finals
  <2>6. \A g \in Finals : Decided(g) => g = f
    <3>1. PICK h \in Present : Sealed(h)
      BY <1>3
    <3>2. PICK o \in Ops : HomeOf[o] = h
      BY <3>1, TransactionAssumption DEF Present
    <3> QED
      BY <2>5, <3>1, <3>2 DEF Decided, Uniform, OpsPresent
  <2>7. Present # Homes => SurvivorsOk
    BY <2>1, <2>2, <2>3, <2>5 DEF SurvivorsOk, Cleanable, Present
  <2>8. Present = Homes => GroupOk
    <3>1. ASSUME NEW h \in Homes, Present = Homes, Sealed(h)
          PROVE  CleanupAnchorsOk(h, jent, jslot[h][h], FinalOf(h))
      <4>1. FinalOf(h) = f
        BY <2>1, <3>1, SealedTells DEF Cleanable, OpsPresent, OpsOf
      <4> QED
        BY <2>1, <2>3, <3>1, <4>1 DEF Cleanable
    <3>2. ASSUME NEW h \in Homes, Present = Homes
          PROVE  AnchorsOk(h, jent, jslot[h][h])
      BY <2>3, <3>2, QuietAnchors DEF Anchored
    <3> QED
      BY <3>1, <3>2 DEF GroupOk
  <2>9. Present = Homes => RetryOk(f)
    <3>1. ASSUME NEW h \in Homes, Present = Homes
          PROVE  CleanupAnchorsOk(h, Loaded, GroupSlots[h], f)
      <4>1. Digest(h, Loaded) = Digest(h, jent)
        BY <2>4, DigestSame DEF OpsOf
      <4> QED
        BY <2>2, <2>3, <3>1, <4>1 DEF CleanupAnchorsOk, Backing, RootsOf
    <3> QED
      BY <2>1, <2>2, <3>1 DEF RetryOk, Cleanable
  <2>10. BackupsOk
    BY <2>1 DEF Cleanable
  <2> QED
    BY <1>3, <2>1, <2>2, <2>5, <2>6, <2>7, <2>8, <2>9, <2>10 DEF Recover
<1> QED
  BY <1>2, <1>3

\* Nothing that went wrong before the step can have been undone by it.
LEMMA CalmBefore == TypeOK /\ [Next]_vars /\ Calm' => Calm /\ ~UserEdit
<1> SUFFICES ASSUME TypeOK, [Next]_vars, Calm' PROVE Calm /\ ~UserEdit
  OBVIOUS
<1>1. faults = 0 /\ ~FaultBefore /\ ~FaultAfter
  BY NoFaults DEF Calm
<1>2. Crash => windows \subseteq windows' /\ UNCHANGED touched
  BY Killed
<1>3. UserEdit => touched' # {}
  BY DEF UserEdit
<1>4. \/ UNCHANGED <<touched, windows>> \/ Crash \/ UserEdit
  BY <1>1 DEF Next, Process, Prepare, CreateJournal, Unprepare, RootOpen, RootRefused, RootWrite,
       JournalDetach, JournalInstall, Cas, CasLink, CasLook, CasUnlink, CasInstall, CasSettle, CasStep,
       Reverse, Stage, LinkBackup, RemoveBackup, RemoveJournal, RemoveMarks, Recover,
       MayLeaveName, vars, bounds
<1> QED
  BY <1>1, <1>2, <1>3, <1>4 DEF Calm

\* A mutation finds what it expects.
LEMMA CasCalm ==
  ASSUME TypeOK, AtomicInv, FileInv, touched = {}, Cas
  PROVE  /\ pc \in CasPcs /\ task \in {"apply", "reverse"}
         /\ UNCHANGED <<mode, ment, mslot, fresh, err, exit, op, home>>
         /\ UNCHANGED <<backup, jrb, jent, jslot, slot, debris>>
         /\ \/ pc' \in CasPcs /\ task' = task
            \/ /\ pc' = "root" /\ task' \in {"applied", "rolled-back"}
               /\ task' = "rolled-back" => task = "reverse"
<1>1. PICK from \in CasPcs, leaves \in FileIds \cup {CasGoal},
           expected \in {{Want}, {"linked"}, FileIds \ {"absent"}, {"absent"}} :
        CasStep(from, expected, leaves) /\ file[op] \in expected
  <2>1. op \in Untouched /\ Mutating /\ file[op] \in FileIds
    BY DEF TypeOK, CtlOK, DiskOK, Untouched, FileInv
  <2>2. CasLink => CasStep("cas-link", {Want}, "linked") /\ file[op] \in {Want}
    BY <2>1 DEF CasLink, CasStep, Mutating, CasPcs
  <2>3. CasLook => CasStep("cas-look", {"linked"}, "linked") /\ file[op] \in {"linked"}
    BY <2>1 DEF CasLook, CasStep, Mutating, CasPcs
  <2>4. CasUnlink => /\ CasStep("cas-unlink", FileIds \ {"absent"}, "absent")
                     /\ file[op] \in FileIds \ {"absent"}
    BY <2>1 DEF CasUnlink, CasStep, Mutating, CasPcs
  <2>5. CasInstall => CasStep("cas-install", {"absent"}, "linked") /\ file[op] \in {"absent"}
    BY <2>1 DEF CasInstall, CasStep, Mutating, CasPcs
  <2>6. CasSettle => CasStep("cas-settle", {"linked"}, CasGoal) /\ file[op] \in {"linked"}
    BY <2>1 DEF CasSettle, CasStep, Mutating, CasPcs
  <2>7. /\ {"cas-link", "cas-look", "cas-unlink", "cas-install", "cas-settle"} \subseteq CasPcs
        /\ {"linked", "absent", CasGoal} \subseteq FileIds \cup {CasGoal}
    BY DEF CasPcs, FileIds
  <2>8. CASE CasLink
    BY <2>2, <2>7, <2>8
  <2>9. CASE CasLook
    BY <2>3, <2>7, <2>9
  <2>10. CASE CasUnlink
    BY <2>4, <2>7, <2>10
  <2>11. CASE CasInstall
    BY <2>5, <2>7, <2>11
  <2>12. CASE CasSettle
    BY <2>6, <2>7, <2>12
  <2> QED
    BY <2>8, <2>9, <2>10, <2>11, <2>12 DEF Cas
<1>2. pc = from /\ task \in {"apply", "reverse"}
  BY <1>1 DEF CasStep, AtomicInv, Consistent, Flow
<1>3. ~CasLast(from) => CasNext(from) \in CasPcs
  BY <1>1 DEF CasLast, CasNext, CasPcs
<1> QED
  BY <1>1, <1>2, <1>3 DEF CasStep, Goto, bounds

\* So does the reversal of an operation.
LEMMA ReverseCalm ==
  ASSUME TypeOK, AtomicInv, FileInv, touched = {}, Reverse
  PROVE  /\ pc = "reverse" /\ task = "reverse"
         /\ UNCHANGED <<mode, ment, mslot, fresh, err, exit, op, home>>
         /\ UNCHANGED <<backup, jrb, jent, jslot, slot>>
         /\ \/ pc' \in CasPcs /\ task' = task
            \/ pc' = "root" /\ task' = "rolled-back"
<1>1. /\ pc = "reverse" /\ task = "reverse" /\ op \in Untouched
      /\ Open(op) /\ (HasBackup(op) => backup[op])
  BY DEF Reverse, AtomicInv, Consistent, Flow, MemoryAhead, BackupsHeld, Open, TypeOK, CtlOK,
         Untouched, ActivePcs
<1>2. Fits(op, ment[op])
  BY <1>1 DEF FileInv, Accurate, Busy, ActivePcs, CasPcs, WritePcs
<1> QED
  BY <1>1, <1>2 DEF Reverse, Fits, Open, Goto, CasEntry, CasPcs, mem, disk

\* And the stage.
LEMMA StageCalm ==
  ASSUME TypeOK, AtomicInv, FreshHeld, Memory, ~err, Stage
  PROVE  Goto("root", "seal", op, 1) /\ UNCHANGED <<mem, exit>>
BY StageIsReady DEF Stage

-----------------------------------------------------------------------------
(* Steps without cause for a refusal. *)

LEMMA RefsPrepare == TypeOK /\ AtomicInv /\ Refs /\ (Prepare \/ CreateJournal) => Refs'
<1> SUFFICES ASSUME TypeOK, AtomicInv, Refs, Prepare \/ CreateJournal PROVE Refs'
  OBVIOUS
<1> USE DEF Goto, Refs, WritePcs
<1>1. CASE Prepare
  <2>1. Present = {} /\ Present' = {} /\ pc' \in {"create", "down"}
    BY <1>1 DEF Prepare, End, AtomicInv, Consistent, Standing, Present
  <2>2. /\ err' = FALSE /\ exit' \in {exit, "rolled-back"} /\ task' \in {"prepare", "none"}
    BY <1>1 DEF Prepare, End, NoMemory, Accepted
  <2> QED
    BY <2>1, <2>2 DEF Accepted, Creating, Owed, Sealings, Sealing, AtRest, Resuming, Cleaning,
       CleaningMemory
<1>2. CASE CreateJournal
  <2>1. /\ pc = "create" /\ home \in Homes /\ UNCHANGED <<err, exit>>
        /\ \A h \in Homes : ~Sealed(h)
        /\ \/ pc' = "create" /\ task' = "prepare" /\ home' = home + 1
           \/ pc' = "root" /\ task' = "applying"
    BY <1>2 DEF CreateJournal, ToApply, TypeOK, CtlOK, AtomicInv, Consistent, SealInv, Present,
       Sealed
  <2>2. \A h \in Homes : jrb'[h] = IF h = home THEN "not-started" ELSE jrb[h]
    BY <1>2 DEF CreateJournal, LinkJournal, TypeOK, DiskOK
  <2>3. \A h \in Homes : ~Sealed(h)'
    BY <2>1, <2>2 DEF Sealed
  <2>4. Creating'
    <3>1. ASSUME NEW h \in Homes, ~(h < home + 1)
          PROVE  h \notin Present /\ h # home
      BY <2>1, <3>1 DEF Creating, Homes
    <3> QED
      BY <2>1, <2>2, <3>1 DEF Creating, Present
  <2> QED
    BY <2>1, <2>3, <2>4 DEF Accepted, Owed, Sealings, Sealing, AtRest, Resuming, Cleaning,
       CleaningMemory, Present
<1> QED
  BY <1>1, <1>2

\* Between the journals of a transaction that is not decided.
LEMMA RefsMidway ==
  ASSUME Refs, UNCHANGED <<err, exit>>, \A h \in Present' : ~Sealed(h)',
         pc' \in ActivePcs, task' \notin {"cleanup", "remove", "in-progress"},
         Owed', Sealings'
  PROVE  Refs'
BY DEF Refs, Accepted, Creating, AtRest, Resuming, Cleaning, CleaningMemory, ActivePcs, WritePcs,
       CasPcs

LEMMA RefsMutate ==
  ASSUME TypeOK, AtomicInv, FileInv, touched = {}, Refs, Cas \/ Reverse
  PROVE  Refs'
<1> USE DEF ActivePcs, CasPcs, WritePcs
<1>1. /\ pc \in CasPcs \cup {"reverse"} /\ task \in {"apply", "reverse"}
      /\ UNCHANGED <<err, exit, ment, op, home, jrb>>
      /\ \/ pc' \in CasPcs /\ task' = task
         \/ /\ pc' = "root" /\ task' \in {"applied", "rolled-back"}
            /\ task' = "rolled-back" => task = "reverse"
  BY CasCalm, ReverseCalm
<1>2. \A h \in Present' : ~Sealed(h)'
  BY <1>1 DEF Present, Sealed, AtomicInv, Consistent, SealInv
<1>3. Owed'
  BY <1>1 DEF Owed, Open, AtomicInv, Consistent, MemoryAhead
<1>4. Sealings'
  BY <1>1 DEF Sealings, Sealing
<1> QED
  BY <1>1, <1>2, <1>3, <1>4, RefsMidway

\* Once the cleanup root of a home is durable.
LEMMA RefsSeal ==
  ASSUME TypeOK, AtomicInv, SlotInv, FileInv, Refs, touched = {},
         pc \in {"root", "rewrite"}, task = "seal", AfterSeal(slot'),
         UNCHANGED <<file, backup, jrb, jent, jslot, ment, err, exit>>,
         \A h \in Homes : h # home => slot'[h] = slot[h],
         \E k \in Slots : slot'[home][k] = CleanupRoot(Final(ment)),
         \A k \in Slots : IsProgress(slot[home][k]) => slot'[home][k] = slot[home][k]
  PROVE  Refs'
<1> USE DEF ActivePcs, CasPcs, WritePcs, Goto
<1>1. /\ home \in Homes /\ DiskOK /\ Present = Homes /\ Present' = Homes /\ Untouched = Ops
      /\ \A h \in Homes : ~Sealed(h) /\ ~Sealed(h)'
      /\ OpsPresent = Ops /\ OpsPresent' = Ops
  <2>1. home \in Homes /\ DiskOK /\ Present = Homes /\ Untouched = Ops /\ Present' = Present
    BY DEF TypeOK, CtlOK, AtomicInv, Consistent, Standing, Untouched, Present
  <2>2. \A h \in Homes : ~Sealed(h)
    BY <2>1 DEF AtomicInv, Consistent, SealInv
  <2> QED
    BY <2>1, <2>2, HomeOfOp DEF Sealed, OpsPresent
<1>2. \A h \in Homes : h < home \/ h = home => \E k \in Slots : slot'[h][k] = CleanupRoot(Final(ment))
  <2>1. \A h \in Homes : h < home => h # home
    BY <1>1 DEF Homes
  <2> QED
    BY <2>1 DEF Refs, Sealings, Sealing
<1>3. CASE home < NumHomes /\ Goto("root", "seal", op, home + 1)
  <2>1. \A h \in Homes : h < home + 1 => h < home \/ h = home
    BY <1>1 DEF Homes
  <2>2. Sealings' /\ Owed'
    BY <1>2, <1>3, <2>1 DEF Sealings, Sealing, Owed
  <2> QED
    BY <1>1, <1>3, <2>2, RefsMidway
<1>4. CASE ~(home < NumHomes) /\ Goto("detach", "cleanup", op, 1) /\ mslot' = [h \in Homes |-> slot']
  <2>1. \A h \in Homes : h < home \/ h = home
    BY <1>1, <1>4, TransactionAssumption DEF Homes
  <2>2. ASSUME NEW h \in Homes
        PROVE  /\ \E i \in Slots : /\ IsProgress(slot[h][i]) /\ slot'[h][i] = slot[h][i]
                                   /\ slot'[h][3 - i] = CleanupRoot(Final(ment))
                                   /\ i \in Backing(h, jent, jslot[h][h])
               /\ \A o \in OpsOf(h) : jent[o] = ment[o]
    <3>1. InStep(h) /\ Rooted(h)
      BY DEF SlotInv, Synced, Memory, Recording, WriteTasks
    <3>2. PICK i \in Slots : i \in RootsOf(h, ment) /\ slot[h][i] = mslot[h][h][i]
      BY <3>1 DEF Rooted, Rests
    <3>3. PICK k \in Slots : slot'[h][k] = CleanupRoot(Final(ment))
      BY <1>2, <2>1
    <3>4. IsProgress(slot[h][i]) /\ slot'[h][i] = slot[h][i]
      BY <3>2 DEF RootsOf
    <3>5. k = 3 - i
      BY <3>3, <3>4 DEF IsProgress, CleanupRoot, Slots
    <3>6. Digest(h, jent) = Digest(h, ment)
      BY <3>1, DigestSame DEF InStep
    <3> QED
      BY <3>1, <3>2, <3>3, <3>4, <3>5, <3>6 DEF InStep, Backing, RootsOf
  <2>3. PICK f \in Finals :
          /\ f = Final(ment)
          /\ \A o \in Ops : ment[o].status = f /\ (f = "applied" => LooksAfter(o, file[o]))
    <3>1. \/ AllAfter /\ \A o \in Ops : ment[o].status = "applied"
          \/ AllBefore /\ \A o \in Ops : ment[o].status = "rolled-back"
      BY DEF AtomicInv, Consistent, Deciding, Refs, Accepted
    <3>2. 1 \in Ops
      BY FirstOnes
    <3> QED
      BY <1>1, <3>1, <3>2 DEF Final, Finals, AllAfter
  <2>4. \A o \in Ops : Fits(o, ment[o])
    <3>1. \A o \in Ops : ~Busy(o)
      BY DEF Busy
    <3> QED
      BY <1>1, <3>1 DEF FileInv, Accurate
  <2>5. \A o \in Ops : jent[o] = ment[o]
    BY <2>2, HomeOfOp DEF OpsOf
  <2>6. Cleanable(f)'
    <3>1. \A h \in Homes : \E i \in Slots :
            /\ IsProgress(slot[h][i])' /\ slot'[h][3 - i] = CleanupRoot(f)
            /\ i \in Backing(h, jent, jslot[h][h])'
      BY <2>2, <2>3 DEF Backing, RootsOf, IsProgress
    <3>2. \A o \in Ops : /\ jent[o].status = f
                         /\ f = "applied" => file[o] = jent[o].after /\ LooksAfter(o, file[o])
                         /\ f = "rolled-back" => file[o] = jent[o].before
      BY <2>3, <2>4, <2>5, SidesApart DEF Fits, Finals
    <3>3. \A o \in Ops : HasBackup(o) => backup[o]
      BY DEF AtomicInv, Consistent, BackupsHeld
    <3> QED
      BY <1>1, <3>1, <3>2, <3>3 DEF Cleanable, BackupsOk
  <2>7. Cleaning' /\ CleaningMemory'
    BY <1>4, <2>5, <2>6 DEF Cleaning, CleaningMemory
  <2> QED
    BY <1>4, <2>7 DEF Refs, Accepted, Creating, Owed, Sealings, Sealing, AtRest, Resuming
<1> QED
  BY <1>3, <1>4 DEF AfterSeal

LEMMA RefsRoot ==
  ASSUME TypeOK, AtomicInv, SlotInv, FileInv, Refs, touched = {}, RootOpen \/ RootWrite
  PROVE  Refs'
<1> USE DEF Goto
<1>1. /\ pc \in {"root", "rewrite"} /\ DiskOK /\ home \in Homes
      /\ UNCHANGED <<file, backup, jrb, jent, jslot, ment, err, exit>>
      /\ task \in {"applying", "applied", "rolled-back", "ambiguous", "bulk", "seal"}
      /\ slot = [h \in Homes |-> slot[h]]
      /\ \A h \in Homes : slot[h] = [k \in Slots |-> slot[h][k]]
  <2>1. /\ pc \in {"root", "rewrite"}
        /\ UNCHANGED <<file, backup, jrb, jent, jslot, ment, err, exit>>
    BY DEF RootOpen, RootWrite
  <2>2. DiskOK /\ home \in Homes
    BY DEF TypeOK, CtlOK
  <2>3. task \in {"applying", "applied", "rolled-back", "ambiguous", "bulk", "seal"}
    BY <2>1 DEF AtomicInv, Consistent, Flow
  <2>4. /\ slot = [h \in Homes |-> slot[h]]
        /\ \A h \in Homes : slot[h] = [k \in Slots |-> slot[h][k]]
    BY <2>2 DEF DiskOK, IsSlotMap, Pairs
  <2> QED
    BY <2>1, <2>2, <2>3, <2>4
<1>2. \A h \in Homes : ~Sealed(h) /\ ~Sealed(h)'
  BY <1>1 DEF AtomicInv, Consistent, SealInv, Present, Sealed
<1>3. CASE RootOpen /\ ~(task = "seal" /\ RootContent = slot[home][RootSlot])
  <2>1. pc' = "rewrite" /\ UNCHANGED <<task, op, home>>
        /\ \A h \in Homes : h # home => slot'[h] = slot[h]
    BY <1>1, <1>3 DEF RootOpen
  <2>2. Owed'
    BY <1>1, <1>3, <2>1 DEF RootOpen, Refs, Owed, WritePcs, Open
  <2>3. Sealings'
    <3>1. \A h \in Homes : h < home => h # home
      BY <1>1 DEF Homes
    <3>2. Final(ment)' = Final(ment)
      BY <1>1 DEF Final
    <3> QED
      BY <1>1, <2>1, <3>1, <3>2 DEF Refs, Sealings, Sealing
  <2> QED
    BY <1>1, <1>2, <2>1, <2>2, <2>3, RefsMidway DEF ActivePcs, WritePcs, Present
<1>4. CASE RootOpen /\ task = "seal" /\ RootContent = slot[home][RootSlot]
  <2>1. AfterSeal(slot') /\ slot' = slot
    BY <1>4 DEF RootOpen, AfterSeal
  <2>2. RootSlot \in Slots /\ RootContent = CleanupRoot(Final(ment))
    <3>1. pc = "root"
      BY <1>4 DEF RootOpen
    <3> QED
      BY <1>4, <3>1, OpenSlot DEF SlotInv, RootContent
  <2> QED
    BY <1>1, <1>4, <2>1, <2>2, RefsSeal
<1>5. CASE RootWrite
  <2> DEFINE k == CHOOSE i \in Slots : slot[home][i] = Torn
  <2>1. k \in Slots /\ slot[home][k] = Torn /\ pc = "rewrite"
    BY <1>5 DEF RootWrite, SlotInv, Writing
  <2>2. slot' = [slot EXCEPT ![home][k] = RootContent]
    BY <1>5 DEF RootWrite
  <2> HIDE DEF k
  <2>3. /\ \A h \in Homes : h # home => slot'[h] = slot[h]
        /\ slot'[home][k] = RootContent
        /\ \A i \in Slots : IsProgress(slot[home][i]) => slot'[home][i] = slot[home][i]
    BY <1>1, <2>1, <2>2 DEF IsProgress, Torn
  <2>4. CASE task = "seal"
    <3>1. AfterSeal(slot') /\ RootContent = CleanupRoot(Final(ment))
      BY <1>5, <2>4 DEF RootWrite, RootContent
    <3> QED
      BY <1>1, <2>1, <2>3, <2>4, <3>1, RefsSeal
  <2>5. CASE task # "seal"
    <3>1. pc' = "detach" /\ UNCHANGED <<task, op, home>>
      BY <1>5, <2>5 DEF RootWrite
    <3>2. Owed' /\ Sealings'
      BY <1>1, <2>1, <3>1 DEF Refs, Owed, WritePcs, Open, Sealings, Sealing
    <3> QED
      BY <1>1, <1>2, <3>1, <3>2, RefsMidway DEF ActivePcs, WritePcs, Present
  <2> QED
    BY <2>4, <2>5
<1> QED
  BY <1>3, <1>4, <1>5

LEMMA UndoOwed ==
  ASSUME NEW ent, \/ \E from : ToBulk(from, ent)
                  \/ \E last : ToReverse(last, ent),
         ment' = ent
  PROVE  /\ Owed' /\ Sealings' /\ pc' \in {"root", "reverse", "stage"}
         /\ task' \in {"reverse", "bulk", "seal"}
<1> USE DEF Goto, WritePcs, Owed, Sealings, Sealing
<1>1. ASSUME NEW from, ToBulk(from, ent)
      PROVE  /\ Owed' /\ Sealings' /\ pc' \in {"root", "reverse", "stage"}
             /\ task' \in {"reverse", "bulk", "seal"}
  <2> DEFINE due == {h \in from..NumHomes :
                       /\ \A o \in OpsOf(h) : ent[o].status # "ambiguous"
                       /\ \E o \in OpsOf(h) : ent[o].status # "rolled-back"}
  <2>1. CASE \E h \in due : (\A g \in due : h <= g) /\ Goto("root", "bulk", op, h)
    BY <2>1
  <2>2. CASE Goto("stage", "seal", op, 1)
    BY <2>2
  <2> QED
    BY <1>1, <2>1, <2>2 DEF ToBulk
<1>2. ASSUME NEW last, ToReverse(last, ent)
      PROVE  /\ Owed' /\ Sealings' /\ pc' \in {"root", "reverse", "stage"}
             /\ task' \in {"reverse", "bulk", "seal"}
  <2>1. CASE \E o : Goto("reverse", "reverse", o, HomeOf[o])
    BY <2>1
  <2>2. CASE ToBulk(1, ent)
    BY <1>1, <2>2
  <2> QED
    BY <1>2, <2>1, <2>2 DEF ToReverse
<1> QED
  BY <1>1, <1>2

\* What a recovery will load for an operation is settled by its home's journal and roots.
LEMMA LoadedStays ==
  ASSUME NEW o \in Ops, NEW h, h = HomeOf[o],
         (h \in Present /\ ~Sealed(h)) <=> (h \in Present' /\ ~Sealed(h)'),
         slot'[h] = slot[h], jslot'[h] = jslot[h], jent'[o] = jent[o]
  PROVE  Loaded'[o] = Loaded[o]
<1> DEFINE A == AheadOf(HomeOf[o], jslot[HomeOf[o]][HomeOf[o]])
<1>1. A' = A
  BY DEF AheadOf, IsProgress
<1>2. Loaded[o] = IF HomeOf[o] \in Present /\ ~Sealed(HomeOf[o]) /\ A # {}
                    THEN slot[HomeOf[o]][CHOOSE i \in A : TRUE].digest[o] ELSE jent[o]
  BY Zenon DEF Loaded
<1>3. Loaded'[o] = IF HomeOf[o] \in Present' /\ ~Sealed(HomeOf[o])' /\ A' # {}
                     THEN slot'[HomeOf[o]][CHOOSE i \in A' : TRUE].digest[o] ELSE jent'[o]
  BY Zenon DEF Loaded
<1> HIDE DEF A
<1> QED
  BY <1>1, <1>2, <1>3

LEMMA RefsInstall ==
  ASSUME TypeOK, AtomicInv, SlotInv, Refs, JournalInstall
  PROVE  Refs'
<1> USE DEF Goto
<1>1. /\ pc = "install" /\ DiskOK /\ home \in Homes /\ home \in 1..NumHomes /\ NumHomes \in Nat
      /\ UNCHANGED <<file, backup, slot, err, exit>>
      /\ ment' = Pending /\ mslot' = [mslot EXCEPT ![home] = NewSlots] /\ AfterJournal(Pending)
      /\ Present = Homes /\ Flow
  BY TransactionAssumption DEF JournalInstall, TypeOK, CtlOK, Homes, AtomicInv, Consistent, Standing,
     ActivePcs, WritePcs
<1>2. /\ \A h \in Homes : jrb'[h] = IF h = home THEN NewStatus ELSE jrb[h]
      /\ \A h \in Homes : jslot'[h] = IF h = home THEN NewSlots ELSE jslot[h]
      /\ \A o \in Ops : jent'[o] = IF HomeOf[o] = home THEN Pending[o] ELSE jent[o]
  BY <1>1 DEF JournalInstall, InstallJournal, DiskOK, AreSlotMaps
<1>3. Present' = Homes
  BY <1>1, <1>2 DEF Present, NewStatus
<1>4. task # "cleanup" => \A h \in Homes : ~Sealed(h) /\ ~Sealed(h)'
  BY <1>1, <1>2 DEF Sealed, NewStatus, AtomicInv, Consistent, SealInv
<1>5. CASE task \in WriteTasks \/ (task = "in-progress" /\ ~(home < NumHomes))
  <2>1. CASE \E from : ToBulk(from, Pending) \/ ToReverse(from, Pending)
    <3>1. /\ Owed' /\ Sealings' /\ pc' \in {"root", "reverse", "stage"}
          /\ task' \in {"reverse", "bulk", "seal"}
      BY <1>1, <2>1, UndoOwed
    <3> QED
      BY <1>1, <1>3, <1>4, <1>5, <3>1, RefsMidway DEF WriteTasks, ActivePcs, WritePcs
  <2>2. CASE \/ \E f : pc' = CasEntry(f) /\ task' = "apply"
             \/ pc' = "root" /\ task' = "applying"
             \/ pc' = "stage" /\ task' = "seal"
    <3>1. Owed' /\ Sealings' /\ pc' \in ActivePcs /\ task' \in {"apply", "applying", "seal"}
      BY <2>2 DEF Owed, Sealings, Sealing, CasEntry, ActivePcs, WritePcs, CasPcs
    <3> QED
      BY <1>1, <1>3, <1>4, <1>5, <3>1, RefsMidway DEF WriteTasks
  <2> QED
    BY <1>1, <1>5, <2>1, <2>2 DEF AfterJournal, WriteTasks, ToApply
<1>6. CASE task = "in-progress" /\ home < NumHomes
  <2>1. pc' = "detach" /\ task' = "in-progress" /\ home' = home + 1
    BY <1>1, <1>6 DEF AfterJournal
  <2>2. Pending = ment
    BY <1>6 DEF Pending
  <2>3. ASSUME NEW h \in Homes, ~(h < home + 1)
        PROVE  Anchored(h)' /\ \A o \in OpsOf(h) : Loaded'[o] = ment'[o]
    <3>1. h # home /\ ~(h < home)
      BY <1>1, <2>3 DEF Homes
    <3>2. Anchored(h) /\ \A o \in OpsOf(h) : Loaded[o] = ment[o]
      BY <1>1, <1>6, <3>1 DEF Refs, Resuming
    <3>3. \A o \in OpsOf(h) : o \in Ops /\ HomeOf[o] = h
      BY DEF OpsOf
    <3>4. slot'[h] = slot[h] /\ jslot'[h] = jslot[h] /\ \A o \in OpsOf(h) : jent'[o] = jent[o]
      BY <1>1, <1>2, <3>1, <3>3
    <3>5. Anchored(h)'
      BY <1>1, <3>2, <3>4, AnchorsStay
    <3>7. \A o \in OpsOf(h) : Loaded'[o] = Loaded[o]
      BY <1>1, <1>3, <1>4, <1>6, <3>3, <3>4, LoadedStays
    <3> QED
      BY <1>1, <2>2, <3>2, <3>5, <3>7
  <2>4. Resuming'
    BY <2>1, <2>3 DEF Resuming
  <2> QED
    BY <1>1, <1>3, <1>4, <1>6, <2>1, <2>4 DEF Refs, Accepted, Creating, Owed, Sealings, Sealing,
       AtRest, Cleaning, CleaningMemory
<1>7. CASE task = "cleanup"
  <2>1. /\ (pc' = "detach" /\ task' = "cleanup") \/ (pc' = "remove" /\ task' = "remove")
        /\ Pending = ment /\ NewSlots = slot
    BY <1>1, <1>7 DEF AfterJournal, Pending, NewSlots, Refs, CleaningMemory
  <2>2. \A o \in Ops : jent'[o] = jent[o] /\ ment'[o] = ment[o] /\ ment[o] = jent[o]
    BY <1>1, <1>2, <1>7, <2>1 DEF Refs, CleaningMemory
  <2>3. PICK f \in Finals : Cleanable(f)
    BY <1>7 DEF Refs, Cleaning
  <2>4. ASSUME NEW h \in Homes
        PROVE  \E i \in Slots : /\ IsProgress(slot[h][i])' /\ slot'[h][3 - i] = CleanupRoot(f)
                                /\ i \in Backing(h, jent, jslot[h][h])'
    <3>1. Digest(h, jent') = Digest(h, jent)
      BY <2>2, DigestSame DEF OpsOf
    <3>2. jslot'[h][h] \in {jslot[h][h], slot[h]}
      BY <1>2, <2>1
    <3>3. PICK i \in Slots : /\ IsProgress(slot[h][i]) /\ slot[h][3 - i] = CleanupRoot(f)
                             /\ i \in Backing(h, jent, jslot[h][h])
      BY <1>1, <2>3 DEF Cleanable
    <3>4. jslot'[h][h][i] = slot[h][i]
      BY <3>2, <3>3 DEF Backing
    <3>5. i \in Backing(h, jent, jslot[h][h])'
      BY <1>1, <3>1, <3>3, <3>4 DEF Backing, RootsOf, IsProgress
    <3> QED
      BY <1>1, <3>3, <3>5 DEF IsProgress
  <2>5. \A h \in Homes : Sealed(h)' => jslot'[h] = slot'
    BY <1>1, <1>2, <2>1, <2>3 DEF Cleanable, Sealed
  <2>6. \A o \in Ops : Sealed(HomeOf[o]) => Sealed(HomeOf[o])'
    BY <1>2, <1>7, HomeOfOp DEF Sealed, NewStatus
  <2>7. Cleanable(f)'
    BY <1>1, <1>3, <2>2, <2>3, <2>4, <2>5, <2>6 DEF Cleanable, BackupsOk, OpsPresent
  <2>8. CleaningMemory'
    BY <1>1, <1>7, <2>1, <2>2 DEF CleaningMemory, Refs, TypeOK, MemOK, AreSlotMaps
  <2> QED
    BY <1>1, <2>1, <2>3, <2>7, <2>8 DEF Refs, Accepted, Creating, Owed, Sealings, Sealing,
       AtRest, Resuming, Cleaning
<1> QED
  BY <1>1, <1>5, <1>6, <1>7 DEF Flow, WriteTasks

\* A step that leaves the disk alone.
LEMMA RefsKept ==
  ASSUME UNCHANGED disk
  PROVE  /\ Present' = Present /\ \A h : Sealed(h)' = Sealed(h)
         /\ Sound' = Sound /\ \A o \in Ops : Loaded'[o] = Loaded[o]
         /\ \A h \in Homes : Anchored(h)' = Anchored(h)
         /\ \A f \in Finals : Cleanable(f)' = Cleanable(f)
<1> USE DEF disk
<1>1. Present' = Present /\ OpsPresent' = OpsPresent /\ \A h : Sealed(h)' = Sealed(h)
  BY DEF Present, OpsPresent, Sealed
<1>3. \A h : AheadOf(h, jslot[h][h])' = AheadOf(h, jslot[h][h])
  BY DEF AheadOf, IsProgress
<1>4. \A o \in Ops : Loaded'[o] = Loaded[o]
  BY <1>1, LoadedStays
<1>5. \A h : Backing(h, jent, jslot[h][h])' = Backing(h, jent, jslot[h][h])
  BY DEF Backing, RootsOf, IsProgress
<1>6. \A h : NextEntries(h, jent)' = NextEntries(h, jent)
  BY DEF NextEntries
<1>7. \A h, S : LastSeq(h, S)' = LastSeq(h, S)
  BY DEF LastSeq, Newest
<1>8. \A h \in Homes : Anchored(h)' = Anchored(h)
  BY <1>3, <1>5, <1>6, <1>7 DEF Anchored, AnchorsOk
<1>9. Sound' = Sound
  BY <1>1, <1>4, <1>8 DEF Sound, Fits
<1>10. \A f \in Finals : Cleanable(f)' = Cleanable(f)
  BY <1>1, <1>5 DEF Cleanable, BackupsOk, IsProgress
<1> QED
  BY <1>1, <1>4, <1>8, <1>9, <1>10

LEMMA RefsDetach ==
  ASSUME TypeOK, AtomicInv, FreshHeld, Memory, Refs, JournalDetach
  PROVE  Refs'
<1> USE DEF Refs, WritePcs, mem
<1>1. /\ pc = "detach" /\ pc' = "install" /\ UNCHANGED disk
      /\ UNCHANGED <<task, op, home, ment, mslot, err, exit>>
  BY RaisesAt DEF JournalDetach
<1>2. Present' = Present /\ \A h : Sealed(h)' = Sealed(h)
  BY <1>1, RefsKept
<1>3. Resuming'
  BY <1>1, RefsKept DEF Resuming, OpsOf
<1>4. Cleaning'
  BY <1>1, <1>2, RefsKept DEF Cleaning
<1>5. CleaningMemory'
  BY <1>1 DEF CleaningMemory, disk
<1> QED
  BY <1>1, <1>3, <1>4, <1>5 DEF Accepted, Creating, Owed, Open, Sealings, Sealing, AtRest

LEMMA RefsStage ==
  ASSUME TypeOK, AtomicInv, FreshHeld, Memory, Refs, Stage
  PROVE  Refs'
<1>1. /\ pc = "stage" /\ pc' = "root" /\ task' = "seal" /\ home' = 1 /\ UNCHANGED disk
      /\ UNCHANGED <<err, exit>>
  BY StageCalm DEF Stage, Goto, mem, Refs, Accepted
<1>2. \A h \in Present' : ~Sealed(h)'
  BY <1>1, RefsKept DEF AtomicInv, Consistent, SealInv
<1>3. Owed' /\ Sealings'
  BY <1>1, TransactionAssumption DEF Owed, Sealings, Homes
<1> QED
  BY <1>1, <1>2, <1>3, RefsMidway DEF ActivePcs, WritePcs

LEMMA RefsRemove ==
  ASSUME TypeOK, AtomicInv, Refs, LinkBackup \/ RemoveBackup \/ RemoveJournal \/ RemoveMarks
  PROVE  Refs'
<1> USE DEF Refs, WritePcs, Goto
<1>1. ASSUME LinkBackup \/ RemoveBackup \/ RemoveJournal
      PROVE  Refs'
  <2>1. /\ pc \in {"remove", "unlink"} /\ task = "remove"
        /\ pc' \in {"remove", "unlink", "marks"} /\ task' = "remove"
        /\ UNCHANGED <<file, jent, jslot, slot, err, exit>>
    BY <1>1 DEF LinkBackup, RemoveBackup, RemoveJournal, disk, mem, AtomicInv, Consistent, Flow
  <2>2. /\ Present' \subseteq Present /\ OpsPresent' \subseteq OpsPresent
        /\ \A h \in Present' : Sealed(h)' /\ Sealed(h)
    BY <1>1, <2>1 DEF LinkBackup, RemoveBackup, RemoveJournal, disk, Present, OpsPresent, Sealed,
       TypeOK, DiskOK, AtomicInv, Consistent, Clearing
  <2>3. PICK f \in Finals : Cleanable(f)
    BY <2>1 DEF Cleaning
  <2>4. \A h : Backing(h, jent, jslot[h][h])' = Backing(h, jent, jslot[h][h])
    BY <2>1 DEF Backing, RootsOf, IsProgress
  <2>5. BackupsOk'
    BY <2>2 DEF BackupsOk, OpsPresent
  <2>6. Cleanable(f)'
    BY <2>1, <2>2, <2>3, <2>4, <2>5 DEF Cleanable, IsProgress
  <2> QED
    BY <2>1, <2>3, <2>6 DEF Accepted, Creating, Owed, Sealings, Sealing, AtRest, Resuming,
       Cleaning, CleaningMemory
<1>2. CASE RemoveMarks
  <2>1. Present' = {} /\ pc' = "down" /\ task' = "none" /\ err' = FALSE
        /\ exit' \in {"success", "rolled-back", "recovered"}
    BY <1>2 DEF RemoveMarks, End, NoMemory, Present, AtomicInv, Consistent, Clearing
  <2> QED
    BY <2>1 DEF Accepted, Creating, Owed, Sealings, Sealing, AtRest, Resuming, Cleaning,
       CleaningMemory
<1> QED
  BY <1>1, <1>2

LEMMA RefsRecover ==
  ASSUME TypeOK, AtomicInv, Refs, debris = "none", Recover
  PROVE  Refs'
<1> USE DEF Goto
<1>1. UNCHANGED disk /\ DiskOK
  BY DEF Recover, TypeOK
<1>2. CASE Sound /\ Resume("detach", "in-progress", 1, "recover")
  <2>1. /\ pc' = "detach" /\ task' = "in-progress" /\ home' = 1 /\ ment' = Loaded
        /\ UNCHANGED exit /\ err' = FALSE
    BY <1>2 DEF Resume
  <2>2. /\ \A h \in Homes : Anchored(h)'
        /\ \A h \in Homes : \A o \in OpsOf(h) : Loaded'[o] = ment'[o]
    BY <1>1, <1>2, <2>1, RefsKept DEF Sound, OpsOf
  <2>3. Resuming'
    BY <2>1, <2>2 DEF Resuming
  <2>4. Cleaning'
    BY <1>1, <2>1, RefsKept DEF Refs, Cleaning
  <2> QED
    BY <2>1, <2>3, <2>4 DEF Refs, Accepted, Creating, Owed, Sealings, Sealing, AtRest,
       CleaningMemory
<1>3. ASSUME NEW f \in Finals, Cleanable(f), GroupSlots = slot,
             \/ Resume("detach", "cleanup", 1, "seal")
             \/ \E h \in Present : Resume("remove", "remove", h, "seal")
      PROVE  Refs'
  <2>1. /\ (pc' = "detach" /\ task' = "cleanup") \/ (pc' = "remove" /\ task' = "remove")
        /\ ment' = Loaded /\ UNCHANGED exit /\ err' = FALSE
        /\ \A h \in Homes : mslot'[h] = slot
    BY <1>3 DEF Resume
  <2>2. \A o \in Ops : ment'[o] = jent[o]
    BY <1>1, <1>3, <2>1, CleanableLoads
  <2>3. Cleanable(f)'
    BY <1>1, <1>3, RefsKept
  <2>4. CleaningMemory'
    BY <1>1, <2>1, <2>2 DEF CleaningMemory, disk
  <2> QED
    BY <2>1, <2>3, <2>4 DEF Refs, Accepted, Creating, Owed, Sealings, Sealing, AtRest, Resuming,
       Cleaning
<1> QED
  BY <1>2, <1>3, RecoverAccepts

\* A kill outside the windows leaves the disk as it is, and nothing beside it.
LEMMA QuietKill ==
  ASSUME TypeOK, Crash, windows' = {}
  PROVE  /\ pc \notin {"install", "unlink"} /\ ~InFileWindow /\ ~(pc = "create" /\ home > 1)
         /\ UNCHANGED disk /\ UNCHANGED debris
<1>1. PICK named \in BOOLEAN :
        /\ pc = "install" => named
        /\ KilledJournal(named)
        /\ windows' = windows \cup Window \cup (IF named THEN {"name"} ELSE {})
             \cup (IF pc = "install" /\ jrb'[home] = "none" THEN {"journal"} ELSE {})
        /\ debris' = IF named THEN "name" ELSE IF pc = "unlink" THEN "link" ELSE debris
  BY DEF Crash
<1>2. ~named /\ Window = {}
  BY <1>1
<1>3. pc \notin {"install", "unlink"} /\ ~InFileWindow /\ ~(pc = "create" /\ home > 1)
  BY <1>1, <1>2 DEF Window, InFileWindow
<1>4. UNCHANGED <<jrb, jent, jslot>>
  BY <1>1, <1>2, <1>3 DEF KilledJournal
<1> QED
  BY <1>1, <1>2, <1>3, <1>4, Killed DEF disk

\* A process that is killed outside the windows leaves what a recovery accepts.
LEMMA RefsCrash ==
  ASSUME TypeOK, AtomicInv, FreshHeld, SlotInv, FileInv, Refs, touched = {}, windows' = {}, Crash
  PROVE  Refs'
<1> USE DEF Goto
<1>1. /\ pc # "install" /\ ~InFileWindow /\ ~(pc = "create" /\ home > 1)
      /\ pc # "unlink" /\ UNCHANGED disk
  BY QuietKill
<1>2. pc' = "down" /\ task' = "none" /\ exit' = "killed" /\ err' = FALSE
  BY DEF Crash, End, NoMemory, Goto
<1>3. /\ Present' = Present /\ \A h : Sealed(h)' = Sealed(h)
      /\ Sound' = Sound /\ \A f \in Finals : Cleanable(f)' = Cleanable(f)
  BY <1>1, RefsKept
<1>4. ASSUME \A h \in Present : ~Sealed(h)
      PROVE  Present = {} \/ Sound
  <2>1. pc \in ActivePcs \cup {"create", "remove", "marks"}
    BY <1>1 DEF Crash, Running, TypeOK, CtlOK, Pcs, ActivePcs, WritePcs, CasPcs, FreshHeld
  <2>2. CASE pc = "create"
    <3>1. home = 1
      BY <1>1, <2>2, TransactionAssumption DEF TypeOK, CtlOK, Homes
    <3>2. \A h \in Homes : h \notin Present
      BY <2>2, <3>1, TransactionAssumption DEF Refs, Creating, Homes
    <3> QED
      BY <3>2 DEF Present
  <2>3. CASE pc \in {"remove", "marks"}
    BY <1>4, <2>3 DEF AtomicInv, Consistent, Clearing
  <2>4. CASE pc \in ActivePcs
    BY <1>1, <1>4, <2>4, SoundMidway
  <2> QED
    BY <2>1, <2>2, <2>3, <2>4
<1>5. AtRest'
  BY <1>3, <1>4 DEF AtRest
<1>6. Cleaning'
  BY <1>2, <1>3 DEF Refs, Cleaning
<1> QED
  BY <1>2, <1>5, <1>6 DEF Refs, Accepted, Creating, Owed, Sealings, Sealing, Resuming,
     CleaningMemory, WritePcs

LEMMA RefsStep ==
  ASSUME TypeOK, AtomicInv, RecInv, OrderInv, RefInv, [Next]_vars
  PROVE  RefInv'
<1> SUFFICES ASSUME Calm' PROVE Refs' /\ debris' = "none"
  BY DEF RefInv
<1>1. Calm /\ ~UserEdit /\ Refs /\ debris = "none"
  BY CalmBefore DEF RefInv
<1>2. /\ faults = 0 /\ touched = {} /\ windows' = {} /\ ~FaultBefore /\ ~FaultAfter
      /\ FreshHeld /\ SlotInv /\ Memory /\ FileInv
  BY <1>1, NoFaults DEF Calm, RecInv, OrderInv, SlotInv
<1>3. ~RootRefused /\ ~Unprepare
  BY <1>2, RaisesAt DEF Unprepare, FreshHeld
<1>4. CASE UNCHANGED vars
  <2>1. UNCHANGED <<pc, task, op, home, ment, mslot, err, exit, slot>> /\ UNCHANGED disk
    BY <1>4 DEF vars, disk, ctl, mem
  <2>2. Resuming'
    BY <1>1, <2>1, RefsKept DEF Refs, Resuming, OpsOf
  <2>3. AtRest' /\ Cleaning' /\ Creating'
    BY <1>1, <2>1, RefsKept DEF Refs, AtRest, Cleaning, Creating
  <2> QED
    BY <1>1, <1>4, <2>1, <2>2, <2>3
       DEF Refs, Accepted, Owed, Open, Sealings, Sealing, CleaningMemory, disk, vars, bounds
<1>5. UNCHANGED debris
  <2>1. CASE Cas
    BY <1>2, <2>1, CasCalm
  <2>2. CASE Crash
    BY <1>2, <2>2, QuietKill
  <2> QED
    BY <1>1, <1>2, <1>3, <2>1, <2>2
       DEF Next, Process, Prepare, CreateJournal, RootOpen, RootWrite, JournalDetach,
           JournalInstall, Reverse, Stage, LinkBackup, RemoveBackup, RemoveJournal, RemoveMarks,
           Recover, vars, bounds
<1> QED
  BY <1>1, <1>2, <1>3, <1>4, <1>5, RefsPrepare, RefsRoot, RefsDetach, RefsInstall, RefsMutate, RefsStage,
     RefsRemove, RefsRecover, RefsCrash DEF Next, Process

-----------------------------------------------------------------------------
(* Refusals have a cause. *)

LEMMA RefsInit == Init => RefInv
<1> SUFFICES ASSUME Init PROVE Refs /\ debris = "none"
  BY DEF RefInv
<1>1. Present = {} /\ \A h : h \in Homes => ~Sealed(h)
  BY DEF Init, Present, Sealed
<1> QED
  BY <1>1 DEF Init, Refs, Accepted, Creating, Owed, Sealings, Sealing, AtRest, Resuming, Cleaning,
     CleaningMemory, WritePcs

\* While nothing went wrong but kills outside the five windows, what any process finds
\* is what it can go on from: no temporary, quarantine or second link of a killed
\* process, and complete journals over intact roots and files in order, or journals
\* and files of one outcome that is being cleaned up.
THEOREM NothingToRefuse == Spec => []RefInv
BY RefsInit, RefsStep, TypeCorrect, JournalsTellTheFiles, RootsOutliveTheirRewrite,
   FilesFollowTheJournals, PTL DEF Spec

\* A run ends "incomplete" or a recovery is blocked only after the user edited a
\* managed file, a system call raised, or a process was killed in one of the five
\* windows: a file between its mutation and its evidence, a journal between its names,
\* the journals being created or withdrawn, a backup being unlinked, and a second name
\* in a directory every command inventories.
THEOREM RefusalsHaveACause == Spec => []RefusalJustified
<1>1. TypeOK /\ RefInv => RefusalJustified
  BY DEF RefInv, Calm, Refs, Accepted, RefusalJustified, TypeOK, BoundsOK
<1> QED
  BY <1>1, NothingToRefuse, TypeCorrect, PTL
=============================================================================
