------------------------- MODULE TransactionProofs -------------------------
(***************************************************************************)
(* Theorems about Transaction, for every number of homes and operations,   *)
(* every bound on crashes, faults and edits, and every kind of operation.  *)
(***************************************************************************)
EXTENDS TransactionRefinesCommit, TLAPS

-----------------------------------------------------------------------------
(* Slots and slot maps. *)

LEMMA PlannedTyped == \A o \in Ops : Planned(o) \in Entry /\ Before(o) \in FileIds
                                     /\ After(o) \in FileIds
BY DEF Planned, Entry, Statuses, Evidence, FileIds, Before, After

LEMMA NoAnchors ==
  ASSUME NEW m, m = [h \in Homes |-> [i \in Slots |-> NoAnchor]]
  PROVE  IsSlotMap(m)
<1>1. \A h \in Homes : NoAnchor \in Anchors(h)
  BY DEF NoAnchor, Anchors
<1> QED
  BY <1>1 DEF IsSlotMap, Pairs

\* Replacing the pair of one home keeps a slot map.
LEMMA SlotMapExcept ==
  ASSUME NEW m, IsSlotMap(m), NEW h \in Homes, NEW p \in Pairs(h)
  PROVE  IsSlotMap([m EXCEPT ![h] = p])
BY DEF IsSlotMap

LEMMA SlotMapsExcept ==
  ASSUME NEW m, AreSlotMaps(m), NEW h \in Homes, NEW p, IsSlotMap(p)
  PROVE  AreSlotMaps([m EXCEPT ![h] = p])
BY DEF AreSlotMaps

\* Replacing one slot, wherever it is, keeps a slot map.
LEMMA SlotExcept ==
  ASSUME NEW m, IsSlotMap(m), NEW h \in Homes, NEW i, NEW a \in Anchors(h)
  PROVE  IsSlotMap([m EXCEPT ![h][i] = a])
<1>1. m[h] \in [Slots -> Anchors(h)]
  BY DEF IsSlotMap, Pairs
<1>2. [m[h] EXCEPT ![i] = a] \in [Slots -> Anchors(h)]
  BY <1>1
<1>3. [m EXCEPT ![h][i] = a] = [m EXCEPT ![h] = [m[h] EXCEPT ![i] = a]]
  BY DEF IsSlotMap
<1> QED
  BY <1>2, <1>3, SlotMapExcept DEF Pairs

LEMMA RootTyped ==
  ASSUME NEW h \in Homes, NEW ent \in [Ops -> Entry], NEW n \in Nat
  PROVE  /\ Digest(h, ent) \in [OpsOf(h) -> Entry]
         /\ Progress(n, Digest(h, ent)) \in Anchors(h)
BY DEF Digest, Progress, Anchors, OpsOf

\* The newest of some slots is one of them, and the next root goes elsewhere.
LEMMA NewestIn ==
  ASSUME NEW h, NEW S \in SUBSET Slots, S # {}
  PROVE  Newest(h, S) \in S /\ NextSlot(h, S) \in Slots /\ NextSlot(h, S) # Newest(h, S)
<1>1. Newest(h, S) \in {1, 2}
  BY Zenon DEF Newest
<1>2. 1 \notin S => Newest(h, S) = 2
  BY Zenon DEF Newest
<1>3. 2 \notin S /\ 1 \in S => Newest(h, S) = 1
  BY Zenon DEF Newest
<1>4. Newest(h, S) \in S
  <2>1. CASE Newest(h, S) = 1
    BY <1>2, <2>1
  <2>2. CASE Newest(h, S) = 2
    BY <1>3, <2>2 DEF Slots
  <2> QED
    BY <1>1, <2>1, <2>2
<1> QED
  BY <1>1, <1>4 DEF NextSlot, Slots

\* A journal that is backed has a last sequence number.
LEMMA LastSeqNat ==
  ASSUME IsSlotMap(slot), NEW h \in Homes, NEW ent, NEW ev, Backing(h, ent, ev) # {}
  PROVE  LastSeq(h, Backing(h, ent, ev)) \in Nat
<1> DEFINE n == Newest(h, Backing(h, ent, ev))
<1>1. n \in Backing(h, ent, ev)
  BY NewestIn DEF Backing, RootsOf
<1>2. n \in Slots /\ slot[h][n].kind = "progress"
  BY <1>1 DEF Backing, RootsOf, IsProgress
<1>3. slot[h][n] \in Anchors(h)
  BY <1>2 DEF IsSlotMap, Pairs
<1>4. slot[h][n] \in [kind : {"progress"}, seq : Nat, digest : [OpsOf(h) -> Entry]]
  BY <1>2, <1>3 DEF Anchors
<1> QED
  BY <1>4 DEF LastSeq

-----------------------------------------------------------------------------
(* Control flow: where the process goes next is always a proper place, and *)
(* only RootOpen leads to the in-place write of a root.                      *)

PlainCtl == CtlOK /\ pc # "rewrite"

LEMMA GotoOK ==
  ASSUME NEW p \in Pcs \ {"rewrite"}, NEW t \in Tasks, NEW o \in Ops, NEW h \in Homes, Goto(p, t, o, h)
  PROVE  PlainCtl'
BY DEF Goto, CtlOK, PlainCtl

LEMMA FirstOnes == 1 \in Ops /\ 1 \in Homes /\ NumOps \in Ops /\ NumHomes \in Homes
BY TransactionAssumption DEF Ops, Homes

LEMMA HomeOfOp == \A o \in Ops : HomeOf[o] \in Homes
BY TransactionAssumption

LEMMA EndOK ==
  ASSUME NEW status \in Exits, End(status)
  PROVE  PlainCtl' /\ MemOK' /\ OutcomeOK'
<1>1. PlainCtl'
  BY FirstOnes, GotoOK DEF End, Pcs, Tasks
<1>2. IsSlotMap([g \in Homes |-> [i \in Slots |-> NoAnchor]])
  BY NoAnchors
<1>3. AreSlotMaps(mslot')
  BY <1>2 DEF End, NoMemory, AreSlotMaps
<1>4. MemOK'
  BY <1>3, PlannedTyped DEF End, NoMemory, MemOK, Evidence, FileIds
<1> QED
  BY <1>1, <1>4 DEF End, OutcomeOK

LEMMA ToBulkOK ==
  ASSUME CtlOK, NEW from \in Nat \ {0}, NEW ent, ToBulk(from, ent)
  PROVE  PlainCtl'
<1> DEFINE due == {h \in from..NumHomes :
                /\ \A o \in OpsOf(h) : ent[o].status # "ambiguous"
                /\ \E o \in OpsOf(h) : ent[o].status # "rolled-back"}
<1>1. due \subseteq Homes
  BY TransactionAssumption DEF Homes
<1>2. CASE \E h \in due : Goto("root", "bulk", op, h)
  BY <1>1, <1>2, GotoOK DEF CtlOK, Pcs, Tasks
<1>3. CASE Goto("stage", "seal", op, 1)
  BY <1>3, GotoOK, FirstOnes DEF CtlOK, Pcs, Tasks
<1> QED
  BY <1>2, <1>3 DEF ToBulk

LEMMA ToReverseOK ==
  ASSUME CtlOK, NEW last \in Nat, last <= NumOps, NEW ent, ToReverse(last, ent)
  PROVE  PlainCtl'
<1> DEFINE open == {o \in 1..last : ent[o].status \in {"applying", "applied"}}
<1>1. open \subseteq Ops
  BY TransactionAssumption DEF Ops
<1>2. CASE \E o \in open : Goto("reverse", "reverse", o, HomeOf[o])
  BY <1>1, <1>2, GotoOK, HomeOfOp DEF Pcs, Tasks
<1>3. CASE ToBulk(1, ent)
  BY <1>3, ToBulkOK
<1> QED
  BY <1>2, <1>3 DEF ToReverse

LEMMA ToApplyOK ==
  ASSUME NEW o \in Ops, ToApply(o)
  PROVE  PlainCtl'
BY GotoOK, HomeOfOp DEF ToApply, Pcs, Tasks

LEMMA NextHome ==
  ASSUME CtlOK
  PROVE  /\ home < NumHomes => home + 1 \in Homes
         /\ home + 1 \in Nat \ {0}
         /\ op < NumOps => op + 1 \in Ops
         /\ op - 1 \in Nat /\ op - 1 <= NumOps
BY TransactionAssumption DEF CtlOK, Homes, Ops

LEMMA CasEntryPc == \A f : CasEntry(f) \in Pcs \ {"rewrite"}
BY DEF CasEntry, CasPcs, Pcs

LEMMA AfterJournalOK ==
  ASSUME CtlOK, NEW ent, AfterJournal(ent)
  PROVE  PlainCtl'
<1>1. CASE Goto(CasEntry(ent[op].before), "apply", op, home)
  BY <1>1, GotoOK, CasEntryPc DEF CtlOK, Tasks
<1>2. CASE op < NumOps /\ ToApply(op + 1)
  BY <1>2, ToApplyOK, NextHome
<1>3. CASE Goto("stage", "seal", op, 1)
  BY <1>3, GotoOK, FirstOnes DEF CtlOK, Pcs, Tasks
<1>4. CASE IF home < NumHomes THEN Goto("detach", "in-progress", op, home + 1)
                              ELSE ToReverse(NumOps, ent)
  <2>1. CASE home < NumHomes
    BY <1>4, <2>1, NextHome, GotoOK DEF CtlOK, Pcs, Tasks
  <2>2. CASE ~(home < NumHomes)
    BY <1>4, <2>2, ToReverseOK, TransactionAssumption
  <2> QED
    BY <2>1, <2>2
<1>5. CASE ToReverse(op - 1, ent)
  BY <1>5, ToReverseOK, NextHome
<1>6. CASE ToBulk(home + 1, ent)
  BY <1>6, ToBulkOK, NextHome
<1>7. CASE IF home < NumHomes THEN Goto("detach", "cleanup", op, home + 1)
                              ELSE Goto("remove", "remove", op, 1)
  BY <1>7, NextHome, FirstOnes, GotoOK DEF CtlOK, Pcs, Tasks
<1> QED
  BY <1>1, <1>2, <1>3, <1>4, <1>5, <1>6, <1>7 DEF AfterJournal

\* An exception leaves the process in a proper state.
LEMMA RaiseOK ==
  ASSUME CtlOK, MemOK, OutcomeOK, NEW f \in [Homes -> BOOLEAN], Raise(f)
  PROVE  PlainCtl' /\ MemOK' /\ OutcomeOK'
<1>1. CASE Goto("unprepare", "prepare", op, home) /\ fresh' = f
           /\ UNCHANGED <<mode, goal, ment, mslot, err, exit>>
  <2>1. PlainCtl'
    BY <1>1, GotoOK DEF CtlOK, Pcs, Tasks
  <2> QED
    BY <1>1, <2>1 DEF MemOK, OutcomeOK
<1>2. CASE mode' = "rollback" /\ Goto("detach", "in-progress", op, 1) /\ fresh' = f
           /\ UNCHANGED <<goal, ment, mslot, err, exit>>
  <2>1. PlainCtl'
    BY <1>2, GotoOK, FirstOnes DEF CtlOK, Pcs, Tasks
  <2> QED
    BY <1>2, <2>1 DEF MemOK, OutcomeOK
<1>3. CASE \E status \in Exits : End(status)
  BY <1>3, EndOK
<1>4. CASE /\ err' = TRUE
           /\ \/ IF home < NumHomes THEN Goto("detach", task, op, home + 1)
                                     ELSE ToReverse(NumOps, ment)
              \/ Goto("root", "ambiguous", op, home)
              \/ ToReverse(op - 1, ment)
              \/ ToBulk(home + 1, ment)
           /\ fresh' = f /\ UNCHANGED <<mode, goal, ment, mslot, exit>>
  <2>1. PlainCtl'
    <3>1. CASE home < NumHomes /\ Goto("detach", task, op, home + 1)
      BY <3>1, NextHome, GotoOK DEF CtlOK, Pcs
    <3>2. CASE Goto("root", "ambiguous", op, home)
      BY <3>2, GotoOK DEF CtlOK, Pcs, Tasks
    <3>3. CASE ToReverse(op - 1, ment)
      BY <3>3, ToReverseOK, NextHome
    <3>4. CASE ToBulk(home + 1, ment)
      BY <3>4, ToBulkOK, NextHome
    <3>5. CASE ToReverse(NumOps, ment)
      BY <3>5, ToReverseOK, TransactionAssumption
    <3> QED
      BY <1>4, <3>1, <3>2, <3>3, <3>4, <3>5
  <2> QED
    BY <1>4, <2>1 DEF MemOK, OutcomeOK
<1> QED
  <2>1. {"uncleaned", "incomplete", "blocked"} \subseteq Exits
    BY DEF Exits
  <2> QED
    BY <1>1, <1>2, <1>3, <1>4, <2>1 DEF Raise

-----------------------------------------------------------------------------
(* The inductive invariant: while a progress root is being written in place *)
(* the other slot still holds a root the journal rests on, so its sequence  *)
(* number is defined.                                                       *)

RewriteBacked ==
  pc = "rewrite" /\ task # "seal" => Backing(home, ment, mslot[home][home]) # {}

IInv == TypeOK /\ RewriteBacked

LEMMA PendingTyped ==
  ASSUME CtlOK, MemOK
  PROVE  Pending \in [Ops -> Entry]
<1>1. op \in Ops /\ goal \in Evidence /\ ment \in [Ops -> Entry]
  BY DEF CtlOK, MemOK
<1>2. \A o \in Ops, st \in Statuses : [ment EXCEPT ![o].status = st] \in [Ops -> Entry]
  BY <1>1 DEF Entry
<1>3. [ment EXCEPT ![op].status = "applied", ![op].after = goal] \in [Ops -> Entry]
  BY <1>1 DEF Entry, Statuses
<1>4. [ment EXCEPT ![op].status = "rolled-back", ![op].before = goal] \in [Ops -> Entry]
  BY <1>1 DEF Entry, Statuses
<1>5. [o \in Ops |-> IF HomeOf[o] = home THEN [ment[o] EXCEPT !.status = "rolled-back"]
                                          ELSE ment[o]] \in [Ops -> Entry]
  BY <1>1 DEF Entry, Statuses
<1> QED
  BY <1>1, <1>2, <1>3, <1>4, <1>5 DEF Pending, Statuses

LEMMA InitOK == Init => IInv
<1> SUFFICES ASSUME Init PROVE IInv
  OBVIOUS
<1>1. IsSlotMap([g \in Homes |-> [i \in Slots |-> NoAnchor]])
  BY NoAnchors
<1>2. AreSlotMaps(jslot) /\ AreSlotMaps(mslot) /\ IsSlotMap(slot)
  BY <1>1 DEF Init, AreSlotMaps
<1>3. DiskOK
  BY <1>2, PlannedTyped DEF Init, DiskOK
<1>4. CtlOK /\ pc # "rewrite"
  BY FirstOnes DEF Init, CtlOK, Pcs, Tasks
<1>5. MemOK
  BY <1>2, PlannedTyped DEF Init, MemOK, Evidence, FileIds
<1>6. OutcomeOK /\ BoundsOK
  BY DEF Init, OutcomeOK, BoundsOK, Exits
<1> QED
  BY <1>3, <1>4, <1>5, <1>6 DEF IInv, TypeOK, RewriteBacked

\* A step that ends outside the in-place write only has to keep the types.
LEMMA PlainStep ==
  ASSUME DiskOK', PlainCtl', MemOK', OutcomeOK', BoundsOK'
  PROVE  IInv'
BY DEF IInv, TypeOK, PlainCtl, RewriteBacked

LEMMA PrepareOK == IInv /\ Prepare => IInv'
<1> SUFFICES ASSUME IInv, Prepare PROVE IInv'
  OBVIOUS
<1> USE DEF IInv, TypeOK
<1>1. BoundsOK'
  BY DEF Prepare, bounds, BoundsOK
<1>2. CASE /\ backup' = [o \in Ops |-> HasBackup(o)]
           /\ slot' = [h \in Homes |-> [i \in Slots |->
                          Progress(0, Digest(h, [o \in Ops |-> Planned(o)]))]]
           /\ mslot' = [h \in Homes |-> slot']
           /\ mode' = "apply" /\ Goto("create", "prepare", 1, 1)
           /\ UNCHANGED <<goal, ment, fresh, err, exit>>
  <2>1. PlainCtl'
    BY <1>2, FirstOnes, GotoOK DEF Pcs, Tasks
  <2>2. \A h \in Homes : Progress(0, Digest(h, [o \in Ops |-> Planned(o)])) \in Anchors(h)
    BY PlannedTyped, RootTyped
  <2>3. IsSlotMap(slot')
    BY <1>2, <2>2 DEF IsSlotMap, Pairs
  <2>4. AreSlotMaps(mslot')
    BY <1>2, <2>3 DEF AreSlotMaps
  <2>5. DiskOK'
    BY <1>2, <2>3 DEF Prepare, DiskOK, HasBackup
  <2>6. MemOK' /\ OutcomeOK'
    BY <1>2, <2>4 DEF MemOK, OutcomeOK
  <2> QED
    BY <1>1, <2>1, <2>5, <2>6, PlainStep
<1>3. CASE End("rolled-back") /\ UNCHANGED <<backup, slot>>
  <2>1. PlainCtl' /\ MemOK' /\ OutcomeOK'
    BY <1>3, EndOK DEF Exits
  <2>2. DiskOK'
    BY <1>3 DEF Prepare, DiskOK
  <2> QED
    BY <1>1, <2>1, <2>2, PlainStep
<1> QED
  BY <1>2, <1>3 DEF Prepare

\* Storing a journal keeps the types of the disk.
LEMMA StoreTyped ==
  ASSUME DiskOK, NEW h \in Homes, NEW ent \in [Ops -> Entry], NEW sl, IsSlotMap(sl),
         NEW st \in {"not-started", "in-progress", "cleanup"},
         jrb' = [jrb EXCEPT ![h] = st],
         jent' = [o \in Ops |-> IF HomeOf[o] = h THEN ent[o] ELSE jent[o]],
         jslot' = [jslot EXCEPT ![h] = sl]
  PROVE  /\ jrb' \in [Homes -> {"none", "not-started", "in-progress", "cleanup"}]
         /\ jent' \in [Ops -> Entry] /\ AreSlotMaps(jslot')
<1>1. AreSlotMaps(jslot')
  BY SlotMapsExcept DEF DiskOK
<1> QED
  BY <1>1 DEF DiskOK

LEMMA LinkJournalTyped ==
  ASSUME TypeOK, LinkJournal, UNCHANGED <<file, backup, slot>>
  PROVE  DiskOK'
<1> USE DEF TypeOK
<1>1. home \in Homes /\ ment \in [Ops -> Entry] /\ IsSlotMap(mslot[home])
  BY DEF CtlOK, MemOK, AreSlotMaps
<1>2. /\ jrb' \in [Homes -> {"none", "not-started", "in-progress", "cleanup"}]
      /\ jent' \in [Ops -> Entry] /\ AreSlotMaps(jslot')
  BY <1>1, StoreTyped DEF LinkJournal
<1> QED
  BY <1>2 DEF DiskOK

LEMMA CreateJournalOK == IInv /\ CreateJournal => IInv'
<1> SUFFICES ASSUME IInv, CreateJournal PROVE IInv'
  OBVIOUS
<1> USE DEF IInv, TypeOK
<1>1. BoundsOK' /\ OutcomeOK'
  BY DEF CreateJournal, bounds, BoundsOK, OutcomeOK
<1>2. DiskOK'
  BY LinkJournalTyped DEF CreateJournal
<1>3. MemOK'
  BY DEF MemOK, CreateJournal
<1>4. PlainCtl'
  <2>1. CASE home < NumHomes /\ Goto("create", "prepare", op, home + 1)
    BY <2>1, NextHome, GotoOK DEF CtlOK, Pcs, Tasks
  <2>2. CASE ToApply(1)
    BY <2>2, FirstOnes, ToApplyOK
  <2> QED
    BY <2>1, <2>2 DEF CreateJournal
<1> QED
  BY <1>1, <1>2, <1>3, <1>4, PlainStep

LEMMA UnprepareOK == IInv /\ Unprepare => IInv'
<1> SUFFICES ASSUME IInv, Unprepare PROVE IInv'
  OBVIOUS
<1> USE DEF IInv, TypeOK
<1>1. BoundsOK'
  BY DEF Unprepare, bounds, BoundsOK
<1>2. CASE \E h \in Homes :
             /\ jrb' = [jrb EXCEPT ![h] = "none"] /\ fresh' = [fresh EXCEPT ![h] = FALSE]
             /\ UNCHANGED <<ctl, mode, goal, ment, mslot, err, exit, backup, slot>>
  <2>1. DiskOK'
    BY <1>2 DEF DiskOK, Unprepare
  <2>2. PlainCtl'
    BY <1>2 DEF ctl, CtlOK, PlainCtl, Unprepare
  <2>3. MemOK' /\ OutcomeOK'
    BY <1>2 DEF MemOK, OutcomeOK
  <2> QED
    BY <1>1, <2>1, <2>2, <2>3, PlainStep
<1>3. CASE /\ backup' = [o \in Ops |-> FALSE]
           /\ slot' = [h \in Homes |-> [i \in Slots |-> NoAnchor]]
           /\ End("rolled-back")
           /\ UNCHANGED jrb
  <2>1. PlainCtl' /\ MemOK' /\ OutcomeOK'
    BY <1>3, EndOK DEF Exits
  <2>2. IsSlotMap(slot')
    BY <1>3, NoAnchors
  <2>3. DiskOK'
    BY <1>3, <2>2 DEF Unprepare, DiskOK
  <2> QED
    BY <1>1, <2>1, <2>3, PlainStep
<1> QED
  BY <1>2, <1>3 DEF Unprepare

-----------------------------------------------------------------------------
(* Writing roots and journals. *)

\* Adopting the sealed anchors keeps memory and control in order.
LEMMA AfterSealOK ==
  ASSUME CtlOK, MemOK, NEW anchors, IsSlotMap(anchors), AfterSeal(anchors)
  PROVE  PlainCtl' /\ AreSlotMaps(mslot')
<1>1. CASE home < NumHomes /\ Goto("root", "seal", op, home + 1) /\ UNCHANGED mslot
  BY <1>1, NextHome, GotoOK DEF CtlOK, MemOK, Pcs, Tasks
<1>2. CASE Goto("detach", "cleanup", op, 1) /\ mslot' = [h \in Homes |-> anchors]
  <2>1. AreSlotMaps(mslot')
    BY <1>2 DEF AreSlotMaps
  <2> QED
    BY <1>2, <2>1, FirstOnes, GotoOK DEF CtlOK, Pcs, Tasks
<1> QED
  BY <1>1, <1>2 DEF AfterSeal

\* The slot an in-place write opens is not the one the journal rests on.
LEMMA OpenKeepsBacking ==
  ASSUME IsSlotMap(slot), NEW h \in Homes, NEW ent, NEW ev,
         Backing(h, ent, ev) # {},
         slot' = [slot EXCEPT ![h][NextSlot(h, Backing(h, ent, ev))] = Torn]
  PROVE  \E i \in Slots : i \in Backing(h, ent, ev) /\ slot'[h][i] = slot[h][i]
<1> DEFINE b == Backing(h, ent, ev)
<1>1. b \in SUBSET Slots
  BY DEF Backing, RootsOf
<1>2. Newest(h, b) \in b /\ NextSlot(h, b) # Newest(h, b)
  BY <1>1, NewestIn
<1>3. slot'[h][Newest(h, b)] = slot[h][Newest(h, b)]
  BY <1>2 DEF IsSlotMap
<1> QED
  BY <1>1, <1>2, <1>3

LEMMA RootOpenOK == IInv /\ RootOpen => IInv'
<1> SUFFICES ASSUME IInv, RootOpen PROVE IInv'
  OBVIOUS
<1> USE DEF IInv, TypeOK
<1>1. BoundsOK' /\ OutcomeOK'
  BY DEF RootOpen, bounds, BoundsOK, OutcomeOK
<1>2. CASE AfterSeal(slot) /\ UNCHANGED slot
  <2>1. PlainCtl' /\ AreSlotMaps(mslot')
    BY <1>2, AfterSealOK DEF DiskOK
  <2>2. DiskOK' /\ MemOK'
    BY <1>2, <2>1 DEF RootOpen, DiskOK, MemOK
  <2> QED
    BY <1>1, <2>1, <2>2, PlainStep
<1>3. CASE /\ Goto("rewrite", task, op, home) /\ UNCHANGED mslot
           /\ slot' = [slot EXCEPT ![home][RootSlot] = Torn]
  <2>1. home \in Homes /\ IsSlotMap(slot)
    BY DEF CtlOK, DiskOK
  <2>2. CtlOK'
    BY <1>3 DEF Goto, CtlOK, Pcs
  <2>3. Torn \in Anchors(home)
    BY DEF Torn, Anchors
  <2>4. IsSlotMap(slot')
    BY <1>3, <2>1, <2>3, SlotExcept
  <2>5. DiskOK' /\ MemOK'
    BY <1>3, <2>4 DEF RootOpen, DiskOK, MemOK
  <2>6. ASSUME task # "seal"
        PROVE  Backing(home, ment, mslot[home][home])' # {}
    <3> DEFINE b == Backing(home, ment, mslot[home][home])
    <3>1. b # {}
      BY <2>6 DEF RootOpen, RootReady, AnchorsOk
    <3>2. slot' = [slot EXCEPT ![home][NextSlot(home, b)] = Torn]
      BY <1>3, <2>6 DEF RootSlot
    <3>3. PICK i \in Slots : i \in b /\ slot'[home][i] = slot[home][i]
      BY <2>1, <3>1, <3>2, OpenKeepsBacking
    <3>4. home' = home /\ ment' = ment /\ mslot' = mslot
      BY <1>3 DEF RootOpen, Goto
    <3>5. i \in Backing(home, ment, mslot[home][home])'
      BY <3>3, <3>4 DEF Backing, RootsOf, IsProgress
    <3> QED
      BY <3>5
  <2>7. RewriteBacked'
    BY <1>3, <2>6 DEF RewriteBacked, Goto
  <2> QED
    BY <1>1, <2>2, <2>5, <2>7
<1> QED
  BY <1>2, <1>3 DEF RootOpen

LEMMA RootWriteOK == IInv /\ RootWrite => IInv'
<1> SUFFICES ASSUME IInv, RootWrite PROVE IInv'
  OBVIOUS
<1> USE DEF IInv, TypeOK
<1>1. BoundsOK' /\ OutcomeOK'
  BY DEF RootWrite, bounds, BoundsOK, OutcomeOK
<1>2. home \in Homes /\ IsSlotMap(slot)
  BY DEF CtlOK, DiskOK
<1>3. RootContent \in Anchors(home)
  <2>1. CASE task = "seal"
    BY <2>1 DEF RootContent, CleanupRoot, Final, Anchors
  <2>2. CASE task # "seal"
    <3> DEFINE n == LastSeq(home, Backing(home, ment, mslot[home][home]))
    <3>1. n \in Nat
      BY <1>2, <2>2, LastSeqNat DEF RewriteBacked, RootWrite
    <3>2. n + 1 \in Nat
      BY <3>1
    <3> QED
      BY <1>2, <2>2, <3>2, PendingTyped, RootTyped DEF RootContent
  <2> QED
    BY <2>1, <2>2
<1>4. IsSlotMap(slot')
  BY <1>2, <1>3, SlotExcept DEF RootWrite
<1>5. DiskOK'
  BY <1>4 DEF RootWrite, DiskOK
<1>6. PlainCtl' /\ AreSlotMaps(mslot')
  <2>1. CASE AfterSeal(slot')
    BY <1>4, <2>1, AfterSealOK
  <2>2. CASE Goto("detach", task, op, home) /\ UNCHANGED mslot
    BY <2>2, GotoOK DEF CtlOK, MemOK, Pcs
  <2> QED
    BY <2>1, <2>2 DEF RootWrite
<1>7. MemOK'
  BY <1>6 DEF RootWrite, MemOK
<1> QED
  BY <1>1, <1>5, <1>6, <1>7, PlainStep

\* A step that only raises.
LEMMA RaiseStep ==
  ASSUME IInv, NEW f \in [Homes -> BOOLEAN], Raise(f), DiskOK', BoundsOK'
  PROVE  IInv'
BY RaiseOK, PlainStep DEF IInv, TypeOK

LEMMA DiskSame == DiskOK /\ UNCHANGED disk => DiskOK'
BY DEF disk, DiskOK

LEMMA BoundsSame == BoundsOK /\ UNCHANGED bounds => BoundsOK'
BY DEF bounds, BoundsOK

LEMMA RootRefusedOK == IInv /\ RootRefused => IInv'
BY RaiseStep, DiskSame, BoundsSame DEF IInv, TypeOK, MemOK, RootRefused

LEMMA JournalDetachOK == IInv /\ JournalDetach => IInv'
<1> SUFFICES ASSUME IInv, JournalDetach PROVE IInv'
  OBVIOUS
<1> USE DEF IInv, TypeOK
<1>1. DiskOK' /\ BoundsOK'
  BY DiskSame, BoundsSame DEF JournalDetach
<1>2. CASE pc' = "install" /\ UNCHANGED <<task, op, home, mem, exit>>
  <2>1. PlainCtl' /\ MemOK' /\ OutcomeOK'
    BY <1>2 DEF PlainCtl, CtlOK, Pcs, MemOK, mem, OutcomeOK
  <2> QED
    BY <1>1, <2>1, PlainStep
<1>3. CASE Raise(fresh)
  BY <1>1, <1>3, RaiseStep DEF MemOK
<1> QED
  BY <1>2, <1>3 DEF JournalDetach

\* The journal that is installed has the types of a journal.
LEMMA InstallJournalTyped ==
  ASSUME TypeOK, InstallJournal, UNCHANGED <<file, backup, slot>>
  PROVE  DiskOK' /\ IsSlotMap(NewSlots)
<1> USE DEF TypeOK
<1>1. home \in Homes /\ IsSlotMap(mslot[home]) /\ IsSlotMap(slot)
  BY DEF CtlOK, MemOK, DiskOK, AreSlotMaps
<1>2. slot[home] \in Pairs(home)
  BY <1>1 DEF IsSlotMap
<1>3. IsSlotMap(NewSlots)
  BY <1>1, <1>2, SlotMapExcept DEF NewSlots
<1>4. NewStatus \in {"not-started", "in-progress", "cleanup"}
  BY DEF NewStatus
<1>5. /\ jrb' \in [Homes -> {"none", "not-started", "in-progress", "cleanup"}]
      /\ jent' \in [Ops -> Entry] /\ AreSlotMaps(jslot')
  BY <1>1, <1>3, <1>4, PendingTyped, StoreTyped DEF InstallJournal
<1> QED
  BY <1>3, <1>5 DEF DiskOK

LEMMA JournalInstallOK == IInv /\ JournalInstall => IInv'
<1> SUFFICES ASSUME IInv, JournalInstall PROVE IInv'
  OBVIOUS
<1> USE DEF IInv, TypeOK
<1>1. DiskOK' /\ IsSlotMap(NewSlots)
  BY InstallJournalTyped DEF JournalInstall
<1>2. BoundsOK' /\ OutcomeOK'
  BY DEF JournalInstall, bounds, BoundsOK, OutcomeOK
<1>3. AreSlotMaps(mslot')
  BY <1>1, SlotMapsExcept DEF JournalInstall, CtlOK, MemOK
<1>4. MemOK'
  BY <1>3, PendingTyped DEF JournalInstall, MemOK, Evidence, FileIds
<1>5. PlainCtl'
  BY AfterJournalOK DEF JournalInstall
<1> QED
  BY <1>1, <1>2, <1>4, <1>5, PlainStep

-----------------------------------------------------------------------------
(* Mutating and reversing. *)

LEMMA CasTyped ==
  ASSUME TypeOK
  PROVE  Want \in Evidence /\ CasGoal \in Evidence /\ CasLeft \subseteq FileIds
<1> USE DEF TypeOK
<1>1. op \in Ops /\ ment[op] \in Entry /\ file[op] \in FileIds
  BY DEF CtlOK, MemOK, DiskOK
<1>2. Want \in Evidence
  BY <1>1 DEF Want, Entry
<1>3. CasGoal \in Evidence
  BY <1>1 DEF CasGoal, After, Evidence, FileIds
<1>4. "linked" \in FileIds /\ "absent" \in FileIds /\ Evidence \subseteq FileIds
  BY DEF FileIds, Evidence
<1>5. "foreign" \in FileIds
  BY DEF FileIds
<1>6. CasLeft \subseteq FileIds
  BY <1>1, <1>2, <1>3, <1>4, <1>5, Zenon DEF CasLeft
<1> QED
  BY <1>2, <1>3, <1>6

\* A step that may leave a name keeps the bookkeeping.
LEMMA NameLeft ==
  ASSUME BoundsOK, MayLeaveName, faults' \in Nat
  PROVE  BoundsOK'
BY DEF BoundsOK, MayLeaveName

LEMMA FileExcept ==
  ASSUME DiskOK, NEW o, NEW f \in FileIds, file' = [file EXCEPT ![o] = f],
         UNCHANGED <<backup, jrb, jent, jslot, slot>>
  PROVE  DiskOK'
BY DEF DiskOK

LEMMA CasStepOK ==
  ASSUME IInv, NEW from \in CasPcs,
         NEW expected, NEW leaves \in FileIds, CasStep(from, expected, leaves)
  PROVE  IInv'
<1> USE DEF IInv, TypeOK
<1>1. BoundsOK'
  BY BoundsSame, NameLeft DEF CasStep, BoundsOK
<1>2. CASE /\ file' = [file EXCEPT ![op] = leaves]
           /\ IF CasLast(from)
                THEN /\ Goto("root", IF task = "apply" THEN "applied" ELSE "rolled-back",
                             op, home)
                     /\ goal' = CasGoal
                ELSE Goto(CasNext(from), task, op, home) /\ UNCHANGED goal
           /\ UNCHANGED <<mode, ment, mslot, fresh, err, exit>>
  <2>1. DiskOK'
    BY <1>2, FileExcept DEF CasStep
  <2>2. goal' \in Evidence
    BY <1>2, CasTyped DEF MemOK
  <2>3. MemOK' /\ OutcomeOK'
    BY <1>2, <2>2 DEF MemOK, OutcomeOK
  <2>4. PlainCtl'
    <3>1. CASE CasLast(from)
      BY <1>2, <3>1, GotoOK DEF CtlOK, Pcs, Tasks
    <3>2. CASE ~CasLast(from)
      <4>1. CasNext(from) \in Pcs \ {"rewrite"}
        BY <3>2 DEF CasLast, CasNext, CasPcs, Pcs
      <4> QED
        BY <1>2, <3>2, <4>1, GotoOK DEF CtlOK
    <3> QED
      BY <3>1, <3>2
  <2> QED
    BY <1>1, <2>1, <2>3, <2>4, PlainStep
<1>3. CASE UNCHANGED file /\ Raise(fresh)
  BY <1>1, <1>3, RaiseStep DEF CasStep, DiskOK, MemOK
<1> QED
  BY <1>2, <1>3 DEF CasStep

LEMMA CasOK == IInv /\ Cas => IInv'
<1>1. "linked" \in FileIds /\ "absent" \in FileIds
  BY DEF FileIds
<1>2. IInv => CasGoal \in FileIds
  BY CasTyped DEF IInv, Evidence
<1> QED
  BY <1>1, <1>2, CasStepOK DEF CasPcs, Cas, CasLink, CasLook, CasUnlink, CasInstall, CasSettle

LEMMA ReverseOK == IInv /\ Reverse => IInv'
<1> SUFFICES ASSUME IInv, Reverse PROVE IInv'
  OBVIOUS
<1> USE DEF IInv, TypeOK
<1>1. DiskOK' /\ BoundsOK'
  BY DiskSame, BoundsSame DEF Reverse
<1>2. CASE /\ file[op] = ment[op].before
           /\ Goto("root", "rolled-back", op, home) /\ goal' = file[op]
           /\ UNCHANGED <<mode, ment, mslot, fresh, err, exit>>
  <2>1. PlainCtl'
    BY <1>2, GotoOK DEF CtlOK, Pcs, Tasks
  <2>2. file[op] \in Evidence
    BY <1>2 DEF CtlOK, MemOK, Entry
  <2>3. MemOK' /\ OutcomeOK'
    BY <1>2, <2>2 DEF MemOK, OutcomeOK
  <2> QED
    BY <1>1, <2>1, <2>3, PlainStep
<1>3. CASE /\ Goto(CasEntry(ment[op].after), "reverse", op, home)
           /\ UNCHANGED <<mem, exit>>
  <2>1. PlainCtl'
    BY <1>3, GotoOK, CasEntryPc DEF CtlOK, Tasks
  <2>2. MemOK' /\ OutcomeOK'
    BY <1>3 DEF MemOK, mem, OutcomeOK
  <2> QED
    BY <1>1, <2>1, <2>2, PlainStep
<1>4. CASE Raise(fresh)
  BY <1>1, <1>4, RaiseStep DEF MemOK
<1> QED
  BY <1>2, <1>3, <1>4 DEF Reverse

-----------------------------------------------------------------------------
(* Cleanup. *)

LEMMA StageOK == IInv /\ Stage => IInv'
<1> SUFFICES ASSUME IInv, Stage PROVE IInv'
  OBVIOUS
<1> USE DEF IInv, TypeOK
<1>1. DiskOK' /\ BoundsOK'
  BY DiskSame, BoundsSame DEF Stage
<1>2. CASE End("incomplete")
  BY <1>1, <1>2, EndOK, PlainStep DEF Exits
<1>3. CASE Goto("root", "seal", op, 1) /\ UNCHANGED <<mem, exit>>
  <2>1. PlainCtl'
    BY <1>3, GotoOK, FirstOnes DEF CtlOK, Pcs, Tasks
  <2>2. MemOK' /\ OutcomeOK'
    BY <1>3 DEF MemOK, mem, OutcomeOK
  <2> QED
    BY <1>1, <2>1, <2>2, PlainStep
<1>4. CASE Raise(fresh)
  BY <1>1, <1>4, RaiseStep DEF MemOK
<1> QED
  BY <1>2, <1>3, <1>4 DEF Stage

LEMMA LinkBackupOK == IInv /\ LinkBackup => IInv'
<1> SUFFICES ASSUME IInv, LinkBackup PROVE IInv'
  OBVIOUS
<1> USE DEF IInv, TypeOK
<1>1. DiskOK' /\ BoundsOK'
  BY DiskSame, BoundsSame DEF LinkBackup
<1>2. PlainCtl'
  BY GotoOK DEF LinkBackup, CtlOK, Pcs, Tasks
<1>3. MemOK' /\ OutcomeOK'
  BY DEF LinkBackup, mem, MemOK, OutcomeOK
<1> QED
  BY <1>1, <1>2, <1>3, PlainStep

LEMMA RemoveBackupOK == IInv /\ RemoveBackup => IInv'
<1> SUFFICES ASSUME IInv, RemoveBackup PROVE IInv'
  OBVIOUS
<1> USE DEF IInv, TypeOK
<1>1. DiskOK'
  BY DEF RemoveBackup, DiskOK
<1>2. PlainCtl'
  BY GotoOK DEF RemoveBackup, CtlOK, Pcs, Tasks
<1>3. MemOK' /\ OutcomeOK' /\ BoundsOK'
  BY BoundsSame DEF RemoveBackup, mem, MemOK, OutcomeOK
<1> QED
  BY <1>1, <1>2, <1>3, PlainStep

LEMMA RemoveJournalOK == IInv /\ RemoveJournal => IInv'
<1> SUFFICES ASSUME IInv, RemoveJournal PROVE IInv'
  OBVIOUS
<1> USE DEF IInv, TypeOK
<1>1. DiskOK'
  BY DEF RemoveJournal, DiskOK
<1>2. MemOK' /\ OutcomeOK' /\ BoundsOK'
  BY BoundsSame DEF RemoveJournal, mem, MemOK, OutcomeOK
<1>3. PlainCtl'
  <2>1. CASE \E h \in Homes : Goto("remove", "remove", op, h)
    BY <2>1, GotoOK DEF CtlOK, Pcs, Tasks
  <2>2. CASE Goto("marks", "remove", op, home)
    BY <2>2, GotoOK DEF CtlOK, Pcs, Tasks
  <2> QED
    BY <2>1, <2>2 DEF RemoveJournal
<1> QED
  BY <1>1, <1>2, <1>3, PlainStep

LEMMA RemoveMarksOK == IInv /\ RemoveMarks => IInv'
<1> SUFFICES ASSUME IInv, RemoveMarks PROVE IInv'
  OBVIOUS
<1> USE DEF IInv, TypeOK
<1>1. IsSlotMap(slot')
  BY NoAnchors DEF RemoveMarks
<1>2. DiskOK' /\ BoundsOK'
  BY <1>1, BoundsSame DEF RemoveMarks, DiskOK
<1>3. (CASE mode = "apply" -> "success"
         [] mode = "rollback" -> "rolled-back"
         [] OTHER -> "recovered") \in Exits
  BY DEF Exits
<1>4. PlainCtl' /\ MemOK' /\ OutcomeOK'
  BY <1>3, EndOK DEF RemoveMarks
<1> QED
  BY <1>2, <1>4, PlainStep

-----------------------------------------------------------------------------
(* Recovery. *)

\* The entries recovery starts from, those of a root ahead of its journal
\* included, are entries.
LEMMA LoadedTyped ==
  ASSUME DiskOK
  PROVE  Loaded \in [Ops -> Entry]
<1> SUFFICES ASSUME NEW o \in Ops PROVE Loaded[o] \in Entry
  BY DEF Loaded
<1> DEFINE h == HomeOf[o]
           ahead == AheadOf(h, jslot[h][h])
<1>1. h \in Homes /\ o \in OpsOf(h)
  BY HomeOfOp DEF OpsOf
<1>2. CASE h \in Present /\ ~Sealed(h) /\ ahead # {}
  <2> DEFINE i == CHOOSE i \in ahead : TRUE
  <2>1. i \in ahead
    BY <1>2
  <2>2. i \in Slots /\ slot[h][i].kind = "progress"
    BY <2>1 DEF AheadOf, IsProgress
  <2>3. slot[h][i] \in Anchors(h)
    BY <1>1, <2>2 DEF DiskOK, IsSlotMap, Pairs
  <2>4. slot[h][i].digest \in [OpsOf(h) -> Entry]
    BY <2>2, <2>3 DEF Anchors
  <2>5. Loaded[o] = slot[h][i].digest[o]
    BY <1>2 DEF Loaded
  <2> QED
    BY <1>1, <2>4, <2>5
<1>3. CASE ~(h \in Present /\ ~Sealed(h) /\ ahead # {})
  <2>1. Loaded[o] = jent[o]
    BY <1>3, Zenon DEF Loaded
  <2> QED
    BY <2>1 DEF DiskOK
<1> QED
  BY <1>2, <1>3

LEMMA LoadedSlotsTyped ==
  ASSUME DiskOK, NEW h \in Homes
  PROVE  IsSlotMap(LoadedSlots(h))
<1>1. IsSlotMap(jslot[h]) /\ slot[h] \in Pairs(h)
  BY DEF DiskOK, AreSlotMaps, IsSlotMap
<1> QED
  BY <1>1, SlotMapExcept DEF LoadedSlots

LEMMA GroupSlotsTyped ==
  ASSUME DiskOK, \E h \in Present : Sealed(h)
  PROVE  IsSlotMap(GroupSlots)
<1>1. (CHOOSE h \in Present : Sealed(h)) \in Homes
  BY DEF Present
<1> QED
  BY <1>1 DEF GroupSlots, DiskOK, AreSlotMaps

LEMMA ResumeOK ==
  ASSUME TypeOK, NEW p \in {"remove", "detach"},
         NEW t \in {"remove", "cleanup", "in-progress"}, NEW h \in Homes,
         NEW m \in {"seal", "recover"}, m = "seal" => \E g \in Present : Sealed(g),
         Resume(p, t, h, m)
  PROVE  PlainCtl' /\ MemOK' /\ OutcomeOK'
<1> USE DEF TypeOK
<1>1. PlainCtl'
  BY FirstOnes, GotoOK DEF Resume, Pcs, Tasks
<1>2. AreSlotMaps(mslot')
  BY LoadedSlotsTyped, GroupSlotsTyped DEF Resume, AreSlotMaps
<1>3. MemOK'
  <2>1. ment' \in [Ops -> Entry]
    BY LoadedTyped DEF Resume
  <2>2. fresh' \in [Homes -> BOOLEAN]
    <3>1. fresh' = [g \in Homes |-> g \in Present]
      BY DEF Resume
    <3>2. \A g \in Homes : (g \in Present) \in BOOLEAN
      OBVIOUS
    <3> QED
      BY <3>1, <3>2, Zenon
  <2> QED
    BY <1>2, <2>1, <2>2 DEF Resume, MemOK, Evidence, FileIds
<1> QED
  BY <1>1, <1>3 DEF Resume, OutcomeOK

LEMMA RecoverOK == IInv /\ Recover => IInv'
<1> SUFFICES ASSUME IInv, Recover PROVE IInv'
  OBVIOUS
<1> USE DEF IInv, TypeOK
<1>1. DiskOK' /\ BoundsOK'
  BY DiskSame, BoundsSame DEF Recover
<1>2. CASE End("blocked") \/ End("incomplete")
  BY <1>1, <1>2, EndOK, PlainStep DEF Exits
<1>3. CASE \E h \in Present : Resume("remove", "remove", h, "seal")
           /\ \E g \in Present : Sealed(g)
  BY <1>1, <1>3, ResumeOK, PlainStep DEF Present
<1>4. CASE Resume("detach", "cleanup", 1, "seal") /\ \E g \in Present : Sealed(g)
  BY <1>1, <1>4, ResumeOK, PlainStep, FirstOnes
<1>5. CASE Resume("detach", "in-progress", 1, "recover")
  BY <1>1, <1>5, ResumeOK, PlainStep, FirstOnes
<1>6. \A o : Verdict(o) \in {"ok", "incomplete", "blocked"}
  BY DEF Verdict
<1>7. CASE \E o \in Ops : Verdict(o) # "ok" /\ End(Verdict(o))
  BY <1>2, <1>6, <1>7
<1> QED
  BY <1>2, <1>3, <1>4, <1>5, <1>7 DEF Recover, Decided

-----------------------------------------------------------------------------
(* What goes wrong. *)

LEMMA FaultBeforeOK == IInv /\ FaultBefore => IInv'
<1> SUFFICES ASSUME IInv, FaultBefore PROVE IInv'
  OBVIOUS
<1> USE DEF IInv, TypeOK
<1>1. \E left \in FileIds : file' = [file EXCEPT ![op] = left]
  BY CasTyped DEF FaultBefore, CtlOK, DiskOK
<1>2. DiskOK'
  BY <1>1, FileExcept DEF FaultBefore
<1>3. BoundsOK'
  BY NameLeft DEF FaultBefore, BoundsOK
<1> QED
  BY <1>2, <1>3, RaiseStep DEF FaultBefore, MemOK

LEMMA FaultAfterOK == IInv /\ FaultAfter => IInv'
<1> SUFFICES ASSUME IInv, FaultAfter PROVE IInv'
  OBVIOUS
<1> USE DEF IInv, TypeOK
<1>1. DiskOK'
  BY InstallJournalTyped, LinkJournalTyped DEF FaultAfter
<1>2. BoundsOK'
  BY NameLeft DEF FaultAfter, BoundsOK
<1>3. [fresh EXCEPT ![home] = FALSE] \in [Homes -> BOOLEAN]
  BY DEF MemOK
<1> QED
  BY <1>1, <1>2, <1>3, RaiseStep DEF FaultAfter

\* No journal has been left without a name.
NameHeld == "journal" \in windows' => "journal" \in windows

\* What a kill leaves of the journals.
LEMMA Killed ==
  ASSUME TypeOK, Crash
  PROVE  /\ \/ pc # "install" /\ UNCHANGED <<jrb, jent, jslot>> /\ NameHeld
            \/ /\ pc = "install" /\ "journal" \in windows'
               /\ jrb' = [jrb EXCEPT ![home] = "none"] /\ UNCHANGED <<jent, jslot>>
            \/ pc = "create" /\ LinkJournal /\ NameHeld
            \/ pc = "install" /\ InstallJournal /\ NameHeld
            \/ /\ pc = "remove" /\ BackupsLeft(home) = {} /\ NameHeld
               /\ jrb' = [jrb EXCEPT ![home] = "none"] /\ UNCHANGED <<jent, jslot>>
         /\ UNCHANGED <<file, backup, slot, edits, touched, faults>> /\ End("killed")
         /\ pc \notin {"start", "down"} /\ windows \subseteq windows'
<1>1. PICK named \in BOOLEAN :
        /\ named => Naming
        /\ KilledJournal(named)
        /\ windows' = windows \cup Window \cup (IF named THEN {"name"} ELSE {})
             \cup (IF pc = "install" /\ jrb'[home] = "none" THEN {"journal"} ELSE {})
  BY DEF Crash
<1>2. "journal" \notin Window
  BY DEF Window
<1>3. named /\ pc = "remove" => BackupsLeft(home) = {}
  BY <1>1 DEF Naming, CasPcs
<1>4. ASSUME pc # "install" PROVE NameHeld
  BY <1>1, <1>2, <1>4 DEF NameHeld
<1>5. ASSUME pc = "install", InstallJournal PROVE NameHeld
  <2>1. jrb'[home] = NewStatus /\ NewStatus # "none"
    BY <1>5 DEF InstallJournal, NewStatus, TypeOK, DiskOK, CtlOK
  <2> QED
    BY <1>1, <1>2, <2>1 DEF NameHeld
<1>6. ASSUME pc = "install", jrb' = [jrb EXCEPT ![home] = "none"] PROVE "journal" \in windows'
  BY <1>1, <1>6 DEF TypeOK, DiskOK, CtlOK
<1>7. /\ UNCHANGED <<file, backup, slot, edits, touched, faults>> /\ End("killed")
      /\ pc \notin {"start", "down"} /\ windows \subseteq windows'
  BY <1>1 DEF Crash, Running
<1> QED
  BY <1>1, <1>3, <1>4, <1>5, <1>6, <1>7 DEF KilledJournal

LEMMA CrashOK == IInv /\ Crash => IInv'
<1> SUFFICES ASSUME IInv, Crash PROVE IInv'
  OBVIOUS
<1> USE DEF IInv, TypeOK
<1>1. DiskOK'
  <2>1. CASE InstallJournal \/ LinkJournal
    BY <2>1, Killed, InstallJournalTyped, LinkJournalTyped
  <2>2. CASE jrb' \in {jrb, [jrb EXCEPT ![home] = "none"]} /\ UNCHANGED <<jent, jslot>>
    BY <2>2, Killed DEF DiskOK
  <2> QED
    BY <2>1, <2>2, Killed
<1>2. BoundsOK'
  <2>1. windows' \subseteq {"file", "journal", "prepare", "backup", "name"}
    BY DEF Crash, BoundsOK, Window
  <2>2. debris' \in {"none", "name", "link"}
    BY DEF Crash, BoundsOK
  <2> QED
    BY <2>1, <2>2 DEF Crash, BoundsOK
<1>3. PlainCtl' /\ MemOK' /\ OutcomeOK'
  BY EndOK DEF Crash, Exits
<1> QED
  BY <1>1, <1>2, <1>3, PlainStep

LEMMA UserEditOK == IInv /\ UserEdit => IInv'
<1> SUFFICES ASSUME IInv, UserEdit PROVE IInv'
  OBVIOUS
<1> USE DEF IInv, TypeOK
<1>1. DiskOK'
  BY DEF UserEdit, DiskOK, FileIds
<1>2. BoundsOK'
  BY DEF UserEdit, BoundsOK
<1>3. CtlOK' /\ MemOK' /\ OutcomeOK'
  BY DEF UserEdit, ctl, mem, CtlOK, MemOK, OutcomeOK
<1>4. RewriteBacked'
  BY DEF UserEdit, RewriteBacked, Backing, RootsOf, ctl, mem
<1> QED
  BY <1>1, <1>2, <1>3, <1>4

LEMMA StutterOK == IInv /\ UNCHANGED vars => IInv'
<1> SUFFICES ASSUME IInv, UNCHANGED vars PROVE IInv'
  OBVIOUS
<1>1. TypeOK'
  BY DEF IInv, TypeOK, DiskOK, CtlOK, MemOK, OutcomeOK, BoundsOK, vars, disk, ctl, mem, bounds
<1>2. RewriteBacked'
  BY DEF IInv, RewriteBacked, Backing, RootsOf, vars, disk, ctl, mem
<1> QED
  BY <1>1, <1>2 DEF IInv

LEMMA StepOK == IInv /\ [Next]_vars => IInv'
BY PrepareOK, CreateJournalOK, UnprepareOK, RootOpenOK, RootRefusedOK, RootWriteOK,
   JournalDetachOK, JournalInstallOK, CasOK, ReverseOK, StageOK, LinkBackupOK, RemoveBackupOK,
   RemoveJournalOK, RemoveMarksOK, RecoverOK, FaultBeforeOK, FaultAfterOK, CrashOK,
   UserEditOK, StutterOK DEF Next, Process

\* Type correctness, with what the in-place write of a root leaves of the
\* journal's backing.
THEOREM Inductive == Spec => []IInv
BY InitOK, StepOK, PTL DEF Spec

\* The shape of the disk, of memory and of the outcome is never lost, whatever
\* is killed, raises or is edited.
THEOREM TypeCorrect == Spec => []TypeOK
<1>1. IInv => TypeOK
  BY DEF IInv
<1> QED
  BY <1>1, Inductive, PTL

-----------------------------------------------------------------------------
(* What a step does to the managed files. *)

\* A compare-and-swap replaces only what it expects to find, but for its unlink
\* by name.
LEMMA CasTouches ==
  ASSUME TypeOK, Cas
  PROVE  \/ UNCHANGED file
         \/ /\ pc \in CasPcs
            /\ pc # "cas-unlink" => file[op] \in Evidence \cup {"linked"}
            /\ \A o \in Ops : o # op => file'[o] = file[o]
<1> DEFINE Swap(expected) ==
             /\ file[op] \in expected
             /\ \A o \in Ops : o # op => file'[o] = file[o]
<1> USE DEF CasPcs
<1>1. Want \in Evidence /\ "absent" \in Evidence
  BY CasTyped DEF Evidence, FileIds
<1>2. ASSUME NEW from, NEW expected, NEW leaves, CasStep(from, expected, leaves)
      PROVE  pc = from /\ (UNCHANGED file \/ Swap(expected))
  BY <1>2 DEF CasStep, TypeOK, DiskOK
<1>3. CASE CasLink
  BY <1>1, <1>2, <1>3 DEF CasLink
<1>4. CASE CasLook
  BY <1>2, <1>4 DEF CasLook
<1>5. CASE CasUnlink
  BY <1>2, <1>5 DEF CasUnlink
<1>6. CASE CasInstall
  BY <1>1, <1>2, <1>6 DEF CasInstall
<1>7. CASE CasSettle
  BY <1>1, <1>2, <1>7 DEF CasSettle
<1> QED
  BY <1>3, <1>4, <1>5, <1>6, <1>7 DEF Cas

\* An exception rolls back a mutation half done, and touches nothing else but, at
\* the end of a replacement, what is under the name it unlinks.
LEMMA FaultTouches ==
  ASSUME TypeOK, FaultBefore
  PROVE  \/ UNCHANGED file
         \/ /\ pc \in CasPcs
            /\ pc \notin {"cas-unlink", "cas-settle"} => file[op] \in {Want, "linked", "absent"}
            /\ \A o \in Ops : o # op => file'[o] = file[o]
<1>1. file \in [Ops -> FileIds] /\ op \in Ops
  BY DEF TypeOK, DiskOK, CtlOK
<1>2. PICK left : /\ left \in IF pc \in CasPcs THEN CasLeft ELSE {file[op]}
                  /\ file' = [file EXCEPT ![op] = left]
  BY DEF FaultBefore
<1>3. CASE left = file[op]
  BY <1>1, <1>2, <1>3
<1>4. CASE left # file[op]
  <2>1. pc \in CasPcs /\ left \in CasLeft
    BY <1>2, <1>4
  <2>2. pc \notin {"cas-unlink", "cas-settle"} => file[op] \in {Want, "linked", "absent"}
    BY <1>4, <2>1 DEF CasLeft
  <2> QED
    BY <1>1, <1>2, <2>1, <2>2
<1> QED
  BY <1>3, <1>4

\* Every other step of the installer leaves the files alone.
LEMMA OthersTouchNothing ==
  ASSUME [Next]_vars
  PROVE  Cas \/ FaultBefore \/ UserEdit \/ UNCHANGED file
BY DEF Next, Process, Prepare, CreateJournal, Unprepare, RootOpen, RootRefused, RootWrite,
       JournalDetach, JournalInstall, Reverse, Stage, LinkBackup, RemoveBackup, RemoveJournal,
       RemoveMarks, Recover, FaultAfter, Crash, vars, disk

\* What the user put at a managed path is lost to the installer, its rollback or
\* its recovery only by the two unlinks that go by name: a journal never records
\* it as evidence, and every other call replaces recorded evidence only.
THEOREM EditsAreKept == Spec => EditsSurvive
<1> DEFINE Kept(o) == \/ file'[o] = "foreign" \/ edits' # edits
                      \/ op = o /\ pc = "cas-unlink"
                      \/ op = o /\ pc = "cas-settle" /\ faults' # faults
<1>1. ASSUME TypeOK, [Next]_vars
      PROVE  \A o \in Ops : file[o] = "foreign" => Kept(o)
  <2>1. CASE UNCHANGED file
    BY <2>1
  <2>2. CASE Cas
    BY <1>1, <2>2, CasTouches DEF Evidence, FileIds
  <2>3. CASE FaultBefore
    <3>1. faults' # faults
      BY <1>1, <2>3 DEF FaultBefore, TypeOK, BoundsOK
    <3> QED
      BY <1>1, <2>3, <3>1, FaultTouches, CasTyped DEF Evidence, FileIds
  <2>4. CASE UserEdit
    BY <1>1, <2>4 DEF UserEdit, TypeOK, BoundsOK
  <2> QED
    BY <1>1, <2>1, <2>2, <2>3, <2>4, OthersTouchNothing
<1>2. TypeOK /\ [Next]_vars => [\A o \in Ops : file[o] = "foreign" => Kept(o)]_vars
  BY <1>1
<1> QED
  BY <1>2, TypeCorrect, PTL DEF Spec, EditsSurvive

-----------------------------------------------------------------------------
(* Once a cleanup journal exists the process only rewrites journals into     *)
(* cleanup journals, removes backups and journals, or has ended.             *)

SealInv ==
  (\E h \in Present : Sealed(h)) =>
    /\ pc \in {"down", "detach", "install", "remove", "unlink", "marks"}
    /\ pc \in {"detach", "install"} => task = "cleanup"
    /\ pc \in {"remove", "unlink"} => task = "remove"

\* An exception while settling ends the process.
LEMMA SettlingEnds ==
  ASSUME NEW f, Raise(f), pc # "create", task \in {"seal", "cleanup", "remove"}
  PROVE  pc' = "down"
BY DEF Raise, Settling, End, Goto

\* A journal that is sealed after a step was sealed before it or is being
\* rewritten for the cleanup.
LEMMA SealedBefore ==
  ASSUME TypeOK, [Next]_vars, (\E h \in Present : Sealed(h))'
  PROVE  \/ \E h \in Present : Sealed(h)
         \/ task = "cleanup" /\ (JournalInstall \/ FaultAfter \/ Crash) /\ pc = "install"
<1>1. PICK g \in Homes : jrb'[g] = "cleanup"
  BY DEF Present, Sealed
<1>2. CASE jrb[g] = "cleanup"
  BY <1>2 DEF Present, Sealed
<1>3. CASE jrb[g] # "cleanup"
  <2>1. jrb \in [Homes -> {"none", "not-started", "in-progress", "cleanup"}]
    BY DEF TypeOK, DiskOK
  <2>2. CASE UNCHANGED jrb
    BY <1>1, <1>3, <2>2
  <2>3. CASE \E h, st : st # "cleanup" /\ jrb' = [jrb EXCEPT ![h] = st]
    BY <1>1, <1>3, <2>1, <2>3
  <2>4. CASE InstallJournal /\ pc = "install" /\ (JournalInstall \/ FaultAfter \/ Crash)
    BY <1>1, <1>3, <2>1, <2>4 DEF InstallJournal, NewStatus
  <2>5. CASE JournalInstall
    BY <2>4, <2>5 DEF JournalInstall
  <2>6. CASE FaultAfter
    BY <2>3, <2>4, <2>6 DEF FaultAfter, LinkJournal
  <2>7. CASE CreateJournal \/ Unprepare \/ RemoveJournal
    BY <2>2, <2>3, <2>7 DEF CreateJournal, Unprepare, RemoveJournal, LinkJournal
  <2>8. CASE Crash
    BY <2>2, <2>3, <2>4, <2>8, Killed DEF LinkJournal
  <2> QED
    BY <2>2, <2>5, <2>6, <2>7, <2>8 DEF Next, Process, Prepare, RootOpen, RootRefused,
       RootWrite, JournalDetach, Cas, CasLink, CasLook, CasUnlink, CasInstall, CasSettle, CasStep,
       Reverse, Stage, LinkBackup, RemoveBackup, RemoveMarks, Recover, FaultBefore, UserEdit, vars, disk
<1> QED
  BY <1>2, <1>3

LEMMA SealStep == TypeOK /\ SealInv /\ [Next]_vars => SealInv'
<1> SUFFICES ASSUME TypeOK, SealInv, [Next]_vars, (\E h \in Present : Sealed(h))'
             PROVE  /\ pc' \in {"down", "detach", "install", "remove", "unlink", "marks"}
                    /\ pc' \in {"detach", "install"} => task' = "cleanup"
                    /\ pc' \in {"remove", "unlink"} => task' = "remove"
  BY DEF SealInv
<1>1. CASE task = "cleanup" /\ JournalInstall
  BY <1>1 DEF JournalInstall, AfterJournal, Goto
<1>2. CASE task = "cleanup" /\ FaultAfter /\ pc = "install"
  BY <1>2, SettlingEnds DEF FaultAfter
<1>3. CASE Crash
  BY <1>3, Killed DEF End, Goto
<1>4. CASE \E h \in Present : Sealed(h)
  <2>1. /\ pc \in {"down", "detach", "install", "remove", "unlink", "marks"}
        /\ pc \in {"detach", "install"} => task = "cleanup"
        /\ pc \in {"remove", "unlink"} => task = "remove"
    BY <1>4 DEF SealInv
  <2>2. CASE JournalDetach
    BY <2>1, <2>2, SettlingEnds DEF JournalDetach
  <2>3. CASE JournalInstall
    BY <1>1, <2>1, <2>3 DEF JournalInstall
  <2>4. CASE FaultAfter
    BY <1>2, <2>1, <2>4 DEF FaultAfter
  <2>5. CASE LinkBackup \/ RemoveBackup \/ UserEdit \/ UNCHANGED vars
    BY <2>1, <2>5 DEF LinkBackup, RemoveBackup, Goto, UserEdit, vars, ctl
  <2>6. CASE RemoveJournal
    BY <2>6 DEF RemoveJournal, Goto
  <2>7. CASE RemoveMarks
    BY <2>7 DEF RemoveMarks, End, Goto
  <2>8. CASE Recover
    BY <1>4, <2>8 DEF Recover, Resume, End, Goto
  <2>9. CASE FaultBefore
    BY <2>1, <2>9, SettlingEnds DEF FaultBefore, CasPcs
  <2> QED
    BY <1>3, <2>1, <2>2, <2>3, <2>4, <2>5, <2>6, <2>7, <2>8, <2>9 DEF Next, Process, Prepare,
       CreateJournal, Unprepare, RootOpen, RootRefused, RootWrite, Cas, CasLink, CasLook, CasUnlink,
       CasInstall, CasSettle, CasStep, CasPcs, Reverse, Stage
<1> QED
  BY <1>1, <1>2, <1>3, <1>4, SealedBefore

\* From the first cleanup journal on, on any home, no step of the installer, of
\* its error handling or of any later recovery changes a managed file.
THEOREM DecisionFreezesFiles == Spec => SealedFreezesFiles
<1>1. Init => SealInv
  BY DEF Init, SealInv, Present
<1>2. Spec => []SealInv
  BY <1>1, SealStep, TypeCorrect, PTL DEF Spec
<1>3. ASSUME TypeOK, SealInv, [Next]_vars
      PROVE  (\E h \in Present : Sealed(h)) => file' = file \/ edits' # edits
  <2> SUFFICES ASSUME \E h \in Present : Sealed(h) PROVE file' = file \/ edits' # edits
    OBVIOUS
  <2>1. pc \notin CasPcs
    BY <1>3 DEF SealInv, CasPcs
  <2>2. CASE UserEdit
    BY <1>3, <2>2 DEF UserEdit, TypeOK, BoundsOK
  <2> QED
    BY <1>3, <2>1, <2>2, OthersTouchNothing, CasTouches, FaultTouches
<1>4. TypeOK /\ SealInv /\ [Next]_vars
        => [(\E h \in Present : Sealed(h)) => file' = file \/ edits' # edits]_vars
  BY <1>3
<1> QED
  BY <1>2, <1>4, TypeCorrect, PTL DEF Spec, SealedFreezesFiles

-----------------------------------------------------------------------------
(***************************************************************************)
(* Atomicity: what the journals, the backups and the files say of one      *)
(* another at every moment.                                                *)
(***************************************************************************)
WritePcs == {"root", "rewrite", "detach", "install"}
\* The process works on a complete group of journals.
ActivePcs == WritePcs \cup CasPcs \cup {"reverse", "stage"}
ApplyTasks == {"applying", "apply", "applied"}
UndoTasks == {"in-progress", "reverse", "rolled-back", "ambiguous", "bulk"}
OpTasks == ApplyTasks \cup {"reverse", "rolled-back", "ambiguous"}

-----------------------------------------------------------------------------
(* The inductive invariant, part by part. *)

\* Which task, which mode and which home go with which place of the code.
Flow ==
  /\ pc \in {"start", "down"} => mode = "none"
  /\ pc \in {"create", "unprepare"} => mode = "apply" /\ task = "prepare"
  /\ pc \in {"root", "rewrite"} =>
       task \in {"applying", "applied", "rolled-back", "ambiguous", "bulk", "seal"}
  /\ pc \in {"detach", "install"} =>
       task \in {"applying", "applied", "in-progress", "rolled-back", "ambiguous", "bulk",
                 "cleanup"}
  /\ pc \in CasPcs => task \in {"apply", "reverse"}
  /\ pc = "reverse" => task = "reverse"
  /\ pc = "stage" => task = "seal"
  /\ pc \in {"remove", "unlink", "marks"} => task = "remove"
  /\ pc \in {"start", "down"} => task = "none"
  /\ pc \in ActivePcs \cup {"remove", "unlink", "marks"} => mode # "none"
  /\ task \in ApplyTasks => mode = "apply"
  /\ task \in UndoTasks => mode \in {"rollback", "recover"}
  /\ task = "seal" => mode # "seal"
  /\ task = "ambiguous" => mode = "rollback" /\ err
  /\ err => mode = "rollback"
  /\ err /\ pc # "stage" => task \in UndoTasks
  /\ task \in OpTasks => home = HomeOf[op]

\* Every journal is there while the group is worked on; a journal that lost its
\* name stops the installer for good, but for the removal of cleanup journals.
Standing ==
  /\ pc = "start" => Present = {}
  /\ pc = "create" => \A h \in Homes : h < home => h \in Present
  /\ pc \in ActivePcs => Present = Homes
  /\ "journal" \in windows => pc \in {"down", "remove", "unlink", "marks"} /\ Present # Homes

\* Homes are sealed in order, all of them before the first journal is removed,
\* and the journals are removed in order.
Clearing ==
  /\ task = "cleanup" => \A h \in Homes : h < home => Sealed(h)
  /\ pc \in {"remove", "unlink", "marks"} => \A h \in Present : Sealed(h)
  /\ pc \in {"remove", "unlink"} => \A h \in Homes : h < home => h \notin Present
  /\ pc = "marks" => Present = {}

\* No backup is given up before every home is sealed.
BackupsHeld ==
  pc \in ActivePcs \cup {"create"} /\ task # "cleanup" =>
    \A o \in Ops : HasBackup(o) => backup[o]

\* What a journal may say of an operation: the identity it would restore is one
\* the file had before the transaction, the original one until a rollback.
EntryOK(o, e) ==
  /\ LooksBefore(o, e.before)
  /\ e.status = "planned" => e.before = Before(o)
RootsOK(s) == \A h \in Homes, i \in Slots :
  IsProgress(s[h][i]) => \A o \in OpsOf(h) : EntryOK(o, s[h][i].digest[o])

\* Every journal, in memory, on disk or in a root, says that much.
Entries ==
  /\ \A o \in Ops : EntryOK(o, jent[o]) /\ EntryOK(o, ment[o])
  /\ RootsOK(slot)
  /\ pc \in WritePcs /\ task = "rolled-back" => LooksBefore(op, goal)

\* Before the journals are complete nothing is changed.
StartClean ==
  pc \in {"start", "create", "unprepare"} =>
    \A o \in Ops : ~Dirty(o) /\ ment[o].status = "planned"

\* A file is changed only while the journal in memory holds its operation open.
MemoryAhead ==
  /\ pc \in ActivePcs =>
       \A o \in Untouched : ment[o].status = "planned" => file[o] = Before(o)
  /\ pc \in ActivePcs /\ task \in {"apply", "applied", "reverse"} =>
       ment[op].status \in {"applying", "applied"}

\* The operations are applied in their order.
Applying ==
  pc \in ActivePcs /\ task \in ApplyTasks =>
    /\ \A o \in Ops : o < op => ment[o].status = "applied" /\ (o \in Untouched => file[o] = After(o))
    /\ \A o \in Ops : o > op => ment[o].status = "planned"
    /\ ment[op].status = IF task = "applying" THEN "planned" ELSE "applying"
    /\ task = "applied" /\ op \in Untouched => file[op] = After(op)

Open(o) == ment[o].status \in {"applying", "applied"}

\* As long as nothing raised, the operations are undone in reverse order, and
\* what the journal calls rolled back is as before the transaction.
Undoing ==
  pc \in ActivePcs /\ task \in UndoTasks /\ ~err =>
    /\ \A o \in Ops : ment[o].status # "ambiguous"
    /\ \A o \in Untouched : ment[o].status = "rolled-back" => LooksBefore(o, file[o])
    /\ task \in {"reverse", "rolled-back"} => \A o \in Ops : o > op => ~Open(o)
    /\ task = "rolled-back" /\ op \in Untouched => LooksBefore(op, file[op])
    /\ task = "bulk" => \A o \in Ops : /\ ~Open(o)
                                       /\ HomeOf[o] < home => ment[o].status = "rolled-back"

\* What is sealed is one outcome, in every journal and for every file.
Deciding ==
  /\ pc \in ActivePcs /\ task \in {"seal", "cleanup"} /\ ~err =>
       \/ AllAfter /\ \A o \in Ops : ment[o].status = "applied"
       \/ AllBefore /\ mode # "apply" /\ \A o \in Ops : ment[o].status = "rolled-back"
  /\ pc \in {"remove", "unlink", "marks"} => AllAfter \/ (AllBefore /\ mode # "apply")

\* No compare-and-swap before the journal on disk holds its operation open.
Journaled == pc \in CasPcs /\ op \in Untouched => jent[op].status # "planned"

\* Success is the last thing that is ever reported.
Reported == exit = "success" => pc = "down" /\ Present = {} /\ AllAfter

-----------------------------------------------------------------------------
(* Flow. *)

LEMMA FlowEnd == \A status : End(status) => Flow'
BY DEF End, NoMemory, Goto, Flow, CasPcs, WritePcs, ActivePcs, ApplyTasks, UndoTasks, OpTasks

\* Where the undoing of a transaction goes next.
LEMMA FlowUndo ==
  ASSUME NEW from, NEW ent, ToBulk(from, ent) \/ ToReverse(from, ent),
         mode' \in {"rollback", "recover"}, err' => mode' = "rollback"
  PROVE  Flow'
<1> USE DEF Goto, Flow, CasPcs, WritePcs, ActivePcs, ApplyTasks, UndoTasks, OpTasks
<1>1. ASSUME NEW f, NEW e, ToBulk(f, e)
      PROVE  Flow'
  BY <1>1 DEF ToBulk
<1>2. CASE ToReverse(from, ent)
  BY <1>1, <1>2 DEF ToReverse
<1> QED
  BY <1>1, <1>2

LEMMA FlowRaise ==
  ASSUME Flow, NEW f, Raise(f)
  PROVE  Flow'
<1> USE DEF Goto, Flow, CasPcs, WritePcs, ActivePcs, ApplyTasks, UndoTasks, OpTasks, Settling
<1>1. CASE pc = "create" /\ Goto("unprepare", "prepare", op, home)
           /\ UNCHANGED <<mode, err>>
  BY <1>1
<1>2. CASE mode = "apply" /\ pc # "create" /\ ~Settling
           /\ mode' = "rollback" /\ Goto("detach", "in-progress", op, 1) /\ UNCHANGED err
  BY <1>2
<1>3. CASE \E status : End(status)
  BY <1>3, FlowEnd
<1>4. CASE mode = "rollback" /\ ~Settling /\ err' = TRUE /\ mode' = mode
           /\ task = "in-progress" /\ Goto("detach", task, op, home + 1)
  BY <1>4
<1>5. CASE mode = "rollback" /\ ~Settling /\ err' = TRUE /\ mode' = mode
           /\ task \in {"reverse", "rolled-back"} /\ Goto("root", "ambiguous", op, home)
  BY <1>5
<1>6. CASE mode = "rollback" /\ err' = TRUE /\ mode' = mode
           /\ \E from : ToBulk(from, ment) \/ ToReverse(from, ment)
  BY <1>6, FlowUndo
<1> QED
  BY <1>1, <1>2, <1>3, <1>4, <1>5, <1>6 DEF Raise

LEMMA FlowJournal ==
  ASSUME Flow, NEW ent, AfterJournal(ent), pc = "install", UNCHANGED <<mode, err>>
  PROVE  Flow'
<1> USE DEF Goto, Flow, CasPcs, WritePcs, ActivePcs, ApplyTasks, UndoTasks, OpTasks
<1>1. CASE task = "applying" /\ Goto(CasEntry(ent[op].before), "apply", op, home)
  BY <1>1 DEF CasEntry
<1>2. CASE task = "applied" /\ op < NumOps /\ ToApply(op + 1)
  BY <1>2 DEF ToApply
<1>3. CASE task = "applied" /\ Goto("stage", "seal", op, 1)
  BY <1>3
<1>4. CASE task = "in-progress" /\ Goto("detach", "in-progress", op, home + 1)
  BY <1>4
<1>5. CASE task = "cleanup" /\ (Goto("detach", "cleanup", op, home + 1)
                                \/ Goto("remove", "remove", op, 1))
  BY <1>5
<1>6. CASE task \in UndoTasks /\ \E from : ToBulk(from, ent) \/ ToReverse(from, ent)
  BY <1>6, FlowUndo
<1> QED
  BY <1>1, <1>2, <1>3, <1>4, <1>5, <1>6 DEF AfterJournal

LEMMA FlowSeal ==
  ASSUME Flow, NEW anchors, AfterSeal(anchors), pc \in {"root", "rewrite"}, task = "seal",
         UNCHANGED <<mode, err>>
  PROVE  Flow'
BY DEF AfterSeal, Goto, Flow, CasPcs, WritePcs, ActivePcs, ApplyTasks, UndoTasks, OpTasks

LEMMA FlowCas ==
  ASSUME Flow, NEW from \in CasPcs, NEW expected, NEW leaves, CasStep(from, expected, leaves)
  PROVE  Flow'
<1> USE DEF Goto, Flow, CasPcs, WritePcs, ActivePcs, ApplyTasks, UndoTasks, OpTasks
<1>1. CASE CasLast(from) /\ UNCHANGED <<mode, err>>
           /\ Goto("root", IF task = "apply" THEN "applied" ELSE "rolled-back", op, home)
  BY <1>1 DEF CasStep
<1>2. CASE ~CasLast(from) /\ UNCHANGED <<mode, err>>
           /\ Goto(CasNext(from), task, op, home)
  <2>1. CasNext(from) \in CasPcs
    BY <1>2 DEF CasNext, CasLast
  <2> QED
    BY <1>2, <2>1 DEF CasStep
<1>3. CASE Raise(fresh)
  BY <1>3, FlowRaise
<1> QED
  BY <1>1, <1>2, <1>3 DEF CasStep

LEMMA FlowStep == Flow /\ [Next]_vars => Flow'
<1> SUFFICES ASSUME Flow, [Next]_vars PROVE Flow'
  OBVIOUS
<1> USE DEF Goto, Flow, CasPcs, WritePcs, ActivePcs, ApplyTasks, UndoTasks, OpTasks, mem, ctl
<1>1. CASE Prepare
  BY <1>1, FlowEnd DEF Prepare
<1>2. CASE CreateJournal
  BY <1>2 DEF CreateJournal, ToApply
<1>3. CASE Unprepare
  BY <1>3, FlowEnd DEF Unprepare
<1>4. CASE RootOpen
  BY <1>4, FlowSeal DEF RootOpen
<1>5. CASE RootRefused
  BY <1>5, FlowRaise DEF RootRefused
<1>6. CASE RootWrite
  BY <1>6, FlowSeal DEF RootWrite
<1>7. CASE JournalDetach
  BY <1>7, FlowRaise DEF JournalDetach
<1>8. CASE JournalInstall
  BY <1>8, FlowJournal DEF JournalInstall
<1>9. CASE Cas
  BY <1>9, FlowCas DEF Cas, CasLink, CasLook, CasUnlink, CasInstall, CasSettle
<1>10. CASE Reverse
  BY <1>10, FlowRaise DEF Reverse, CasEntry
<1>11. CASE Stage
  BY <1>11, FlowRaise, FlowEnd DEF Stage
<1>12. CASE LinkBackup \/ RemoveBackup \/ UserEdit \/ UNCHANGED vars
  BY <1>12 DEF LinkBackup, RemoveBackup, UserEdit, vars
<1>13. CASE RemoveJournal
  BY <1>13 DEF RemoveJournal
<1>14. CASE RemoveMarks \/ Crash
  BY <1>14, FlowEnd DEF RemoveMarks, Crash
<1>15. CASE Recover
  BY <1>15, FlowEnd DEF Recover, Resume
<1>16. CASE FaultBefore \/ FaultAfter
  BY <1>16, FlowRaise DEF FaultBefore, FaultAfter
<1> QED
  BY <1>1, <1>2, <1>3, <1>4, <1>5, <1>6, <1>7, <1>8, <1>9, <1>10, <1>11, <1>12, <1>13,
     <1>14, <1>15, <1>16 DEF Next, Process

-----------------------------------------------------------------------------
(* Which journals exist. *)

\* Where an exception leads.
LEMMA RaiseGoes ==
  ASSUME Flow, NEW f, Raise(f), pc \in ActivePcs \cup {"create", "remove", "unlink"}
  PROVE  \/ /\ pc = "create" /\ pc' = "unprepare" /\ task' = "prepare"
            /\ UNCHANGED <<op, home, mode, goal, ment, mslot, err, exit>>
         \/ \E status \in Exits \ {"success"} : End(status)
         \/ /\ pc \in ActivePcs /\ ~Settling /\ pc' \in {"root", "detach", "reverse", "stage"}
            /\ task' \in (UndoTasks \ {"rolled-back"}) \cup {"seal"} /\ mode' = "rollback"
            /\ mode \in {"apply", "rollback"}
            /\ UNCHANGED <<goal, ment, mslot, exit>>
            /\ \/ mode = "apply" /\ task' = "in-progress" /\ home' = 1 /\ op' = op /\ err' = err
               \/ /\ mode = "rollback" /\ err'
                  /\ task' = "reverse" => ment[op'].status \in {"applying", "applied"}
<1> USE DEF Flow, CasPcs, WritePcs, ActivePcs, ApplyTasks, UndoTasks, OpTasks, Settling
<1>1. CASE pc = "create"
  BY <1>1 DEF Raise, Goto
<1>2. CASE \E status \in {"uncleaned", "incomplete", "blocked"} : End(status)
  BY <1>2 DEF Exits
<1>3. CASE mode = "apply" /\ pc # "create" /\ ~Settling
  BY <1>3 DEF Raise, Goto
<1>4. CASE mode = "rollback" /\ ~Settling
  <2>1. \A from, ent : ToBulk(from, ent) \/ ToReverse(from, ent)
          => /\ pc' \in {"root", "reverse", "stage"} /\ task' \in {"reverse", "bulk", "seal"}
             /\ task' = "reverse" => ent[op'].status \in {"applying", "applied"}
    BY DEF ToReverse, ToBulk, Goto
  <2>2. err' /\ UNCHANGED <<goal, ment, mslot, exit, mode>>
        /\ pc' \in {"root", "detach", "reverse", "stage"}
        /\ task' \in (UndoTasks \ {"rolled-back"}) \cup {"seal"}
        /\ (task' = "reverse" => ment[op'].status \in {"applying", "applied"})
    BY <1>4, <2>1 DEF Raise, Goto
  <2> QED
    BY <1>4, <2>2
<1> QED
  BY <1>1, <1>2, <1>3, <1>4 DEF Raise

\* Where a durable journal leads.
LEMMA JournalGoes ==
  ASSUME NEW ent, AfterJournal(ent)
  PROVE  pc' \in (ActivePcs \ {"root", "rewrite", "install"}) \cup {"root", "remove"}
BY DEF AfterJournal, ToApply, ToReverse, ToBulk, CasEntry, Goto, CasPcs, WritePcs, ActivePcs

\* Where a step of the compare-and-swap leads.
LEMMA CasGoes ==
  ASSUME NEW from \in CasPcs, NEW expected, NEW leaves, CasStep(from, expected, leaves)
  PROVE  \/ Raise(fresh) /\ UNCHANGED file /\ MayLeaveName
         \/ /\ file[op] \in expected /\ file' = [file EXCEPT ![op] = leaves]
            /\ UNCHANGED <<op, home, mode, ment, mslot, fresh, err, exit>>
            /\ \/ pc' \in CasPcs /\ UNCHANGED <<task, goal>>
               \/ /\ CasLast(from) /\ pc' = "root" /\ goal' = CasGoal
                  /\ task' = IF task = "apply" THEN "applied" ELSE "rolled-back"
<1>1. ~CasLast(from) => CasNext(from) \in CasPcs
  BY DEF CasLast, CasNext, CasPcs
<1> QED
  BY <1>1 DEF CasStep, Goto

LEMMA StandingStep == TypeOK /\ Flow /\ Standing /\ Clearing /\ [Next]_vars => Standing'
<1> SUFFICES ASSUME TypeOK, Flow, Standing, Clearing, [Next]_vars PROVE Standing'
  OBVIOUS
<1> USE DEF Goto, CasPcs, WritePcs, ActivePcs, mem, ctl, Standing, Present, bounds, disk
<1>1. jrb \in [Homes -> {"none", "not-started", "in-progress", "cleanup"}] /\ home \in Homes
      /\ home \in 1..NumHomes /\ NumHomes \in Nat
  BY TransactionAssumption DEF TypeOK, DiskOK, CtlOK, Homes
<1>2. ASSUME \E status : End(status), UNCHANGED jrb \/ Present' # Homes, UNCHANGED windows
      PROVE  Standing'
  BY <1>2 DEF End
<1>3. ASSUME pc \in ActivePcs \cup {"create", "remove", "unlink"}, NEW f, Raise(f),
             \/ UNCHANGED jrb
             \/ pc \notin {"remove", "unlink"} /\ \E st \in {"not-started", "in-progress", "cleanup"} :
                                   jrb' = [jrb EXCEPT ![home] = st],
             UNCHANGED windows
      PROVE  Standing'
  <2>1. pc \notin {"remove", "unlink"} => "journal" \notin windows
    BY <1>3
  <2>2. pc \in ActivePcs => Present' = Homes
    BY <1>1, <1>3
  <2>3. CASE pc \in {"remove", "unlink"}
    <3>1. UNCHANGED jrb /\ \E status : End(status)
      BY <1>3, <2>3, RaiseGoes
    <3> QED
      BY <1>2, <1>3, <3>1
  <2>4. CASE pc \notin {"remove", "unlink"}
    <3>1. pc' \in {"unprepare", "down"} \/ (pc \in ActivePcs /\ pc' \in ActivePcs)
      BY <1>3, <2>4, RaiseGoes DEF End
    <3> QED
      BY <1>3, <2>1, <2>2, <2>4, <3>1
  <2> QED
    BY <2>3, <2>4
<1>4. CASE Prepare
  BY <1>1, <1>2, <1>4 DEF Prepare, Flow, Homes
<1>5. CASE CreateJournal
  <2>1. \A h \in Homes : h <= home => h \in Present'
    BY <1>1, <1>5 DEF CreateJournal, LinkJournal, Homes
  <2>2. CASE home < NumHomes
    BY <1>1, <1>5, <2>1, <2>2 DEF CreateJournal, LinkJournal, Homes
  <2>3. CASE ~(home < NumHomes)
    BY <1>1, <1>5, <2>1, <2>3 DEF CreateJournal, LinkJournal, Homes, ToApply
  <2> QED
    BY <2>2, <2>3
<1>6. CASE Unprepare
  BY <1>2, <1>6 DEF Unprepare
<1>7. CASE RootOpen
  BY <1>1, <1>7 DEF RootOpen, AfterSeal
<1>8. CASE RootRefused
  BY <1>3, <1>8 DEF RootRefused
<1>9. CASE RootWrite
  BY <1>1, <1>9 DEF RootWrite, AfterSeal
<1>10. CASE JournalDetach
  BY <1>3, <1>10 DEF JournalDetach
<1>11. NewStatus \in {"not-started", "in-progress", "cleanup"}
  BY DEF NewStatus
<1>12. ASSUME InstallJournal, pc = "install"
       PROVE  \E st \in {"not-started", "in-progress", "cleanup"} : jrb' = [jrb EXCEPT ![home] = st]
  BY <1>11, <1>12 DEF InstallJournal
<1>13. CASE JournalInstall
  BY <1>1, <1>12, <1>13, JournalGoes DEF JournalInstall
<1>14. CASE Cas
  <2>1. ASSUME NEW from \in CasPcs, NEW expected, NEW leaves, CasStep(from, expected, leaves)
        PROVE  Standing'
    <3>1. CASE Raise(fresh)
      BY <1>3, <2>1, <3>1 DEF CasStep, MayLeaveName
    <3>2. CASE ~Raise(fresh)
      BY <1>1, <2>1, <3>2, CasGoes DEF CasStep
    <3> QED
      BY <3>1, <3>2
  <2> QED
    BY <1>14, <2>1 DEF Cas, CasLink, CasLook, CasUnlink, CasInstall, CasSettle
<1>15. CASE Reverse
  BY <1>1, <1>3, <1>15 DEF Reverse, CasEntry
<1>16. CASE Stage
  BY <1>1, <1>2, <1>3, <1>16 DEF Stage
<1>17. CASE LinkBackup \/ RemoveBackup \/ UserEdit \/ UNCHANGED vars
  BY <1>17 DEF LinkBackup, RemoveBackup, UserEdit, vars
<1>18. CASE RemoveJournal
  BY <1>1, <1>18 DEF RemoveJournal
<1>19. CASE RemoveMarks
  BY <1>2, <1>19 DEF RemoveMarks
<1>23. CASE Crash
  <2>1. pc' = "down"
    BY <1>23, Killed DEF End
  <2>2. CASE NameHeld /\ UNCHANGED jrb
    BY <1>23, <2>1, <2>2, Killed DEF NameHeld
  <2>3. CASE jrb' = [jrb EXCEPT ![home] = "none"]
    BY <1>1, <2>1, <2>3
  <2>4. CASE pc \in {"create", "install"} /\ NameHeld
    BY <2>1, <2>4 DEF NameHeld
  <2> QED
    BY <1>23, <2>2, <2>3, <2>4, Killed
<1>20. CASE Recover
  <2>1. CASE \E status : End(status)
    BY <1>2, <1>20, <2>1 DEF Recover
  <2>2. CASE \E h : Resume("remove", "remove", h, "seal")
    BY <1>20, <2>2 DEF Recover, Resume
  <2>3. CASE Present = Homes /\ \E t, m : Resume("detach", t, 1, m)
    BY <1>20, <2>3 DEF Recover, Resume
  <2>4. ASSUME Present # Homes, \A h \in Present : ~Sealed(h)
        PROVE  ~SurvivorsOk \/ Present = {}
    BY <2>4 DEF SurvivorsOk
  <2> QED
    BY <1>20, <2>1, <2>2, <2>3, <2>4 DEF Recover
<1>21. CASE FaultBefore
  BY <1>3, <1>21 DEF FaultBefore, MayLeaveName
<1>22. CASE FaultAfter
  BY <1>3, <1>12, <1>22 DEF FaultAfter, LinkJournal, MayLeaveName
<1> QED
  BY <1>4, <1>5, <1>6, <1>7, <1>8, <1>9, <1>10, <1>13, <1>14, <1>15, <1>16, <1>17, <1>18,
     <1>19, <1>20, <1>21, <1>22, <1>23 DEF Next, Process

LEMMA ClearingStep == TypeOK /\ Flow /\ Clearing /\ [Next]_vars => Clearing'
<1> SUFFICES ASSUME TypeOK, Flow, Clearing, [Next]_vars PROVE Clearing'
  OBVIOUS
<1> USE DEF Goto, CasPcs, WritePcs, ActivePcs, mem, ctl, Clearing, Present, Sealed, bounds, disk
<1>1. jrb \in [Homes -> {"none", "not-started", "in-progress", "cleanup"}] /\ home \in Homes
      /\ home \in 1..NumHomes /\ NumHomes \in Nat /\ Homes = 1..NumHomes
  BY TransactionAssumption DEF TypeOK, DiskOK, CtlOK, Homes
<1>2. ASSUME pc' \notin {"remove", "unlink", "marks"}, task' # "cleanup"
      PROVE  Clearing'
  BY <1>2
<1>3. ASSUME \E status : End(status)
      PROVE  Clearing'
  BY <1>2, <1>3 DEF End
<1>4. ASSUME pc \in ActivePcs \cup {"create", "remove", "unlink"}, NEW f, Raise(f)
      PROVE  Clearing'
  BY <1>2, <1>3, <1>4, RaiseGoes DEF UndoTasks
<1>5. ASSUME NEW anchors, AfterSeal(anchors), task # "cleanup", pc \in {"root", "rewrite"}
      PROVE  Clearing'
  BY <1>1, <1>5 DEF AfterSeal, Flow
<1>6. CASE Prepare
  BY <1>2, <1>3, <1>6 DEF Prepare
<1>7. CASE CreateJournal
  BY <1>2, <1>7 DEF CreateJournal, ToApply
<1>8. CASE Unprepare
  BY <1>2, <1>3, <1>8 DEF Unprepare, Flow
<1>9. CASE RootOpen
  <2>1. task # "cleanup"
    BY <1>9 DEF RootOpen, Flow, RootReady
  <2> QED
    BY <1>5, <1>9, <2>1 DEF RootOpen, Flow
<1>10. CASE RootRefused
  BY <1>4, <1>10 DEF RootRefused
<1>11. CASE RootWrite
  BY <1>2, <1>5, <1>11 DEF RootWrite, Flow
<1>12. CASE JournalDetach
  BY <1>4, <1>12 DEF JournalDetach
<1>13. CASE JournalInstall
  <2>1. CASE task = "cleanup"
    <3>1. jrb' = [jrb EXCEPT ![home] = "cleanup"]
      BY <1>13, <2>1 DEF JournalInstall, InstallJournal, NewStatus
    <3>2. \A h \in Homes : h <= home => Sealed(h)'
      BY <1>1, <2>1, <3>1
    <3>3. CASE home < NumHomes
      BY <1>1, <1>13, <2>1, <3>2, <3>3 DEF JournalInstall, AfterJournal
    <3>4. CASE ~(home < NumHomes)
      <4>1. \A h \in Homes : h <= home
        BY <1>1, <3>4
      <4>2. pc' = "remove" /\ home' = 1 /\ task' = "remove"
        BY <1>13, <2>1, <3>4 DEF JournalInstall, AfterJournal
      <4> QED
        BY <1>1, <3>2, <4>1, <4>2
    <3> QED
      BY <3>3, <3>4
  <2>2. CASE task # "cleanup"
    <3>1. pc' \notin {"remove", "unlink", "marks"} /\ task' # "cleanup"
      BY <1>13, <2>2 DEF JournalInstall, AfterJournal, ToApply, ToReverse, ToBulk, CasEntry
    <3> QED
      BY <1>2, <3>1
  <2> QED
    BY <2>1, <2>2
<1>14. CASE Cas
  <2>1. ASSUME NEW from \in CasPcs, NEW expected, NEW leaves, CasStep(from, expected, leaves)
        PROVE  Clearing'
    <3>1. CASE Raise(fresh)
      BY <1>4, <2>1, <3>1 DEF CasStep
    <3>2. CASE ~Raise(fresh)
      BY <1>2, <2>1, <3>2, CasGoes DEF Flow, CasStep
    <3> QED
      BY <3>1, <3>2
  <2> QED
    BY <1>14, <2>1 DEF Cas, CasLink, CasLook, CasUnlink, CasInstall, CasSettle
<1>15. CASE Reverse
  BY <1>2, <1>4, <1>15 DEF Reverse, CasEntry
<1>16. CASE Stage
  BY <1>2, <1>3, <1>4, <1>16 DEF Stage
<1>17. CASE LinkBackup \/ RemoveBackup \/ UserEdit \/ UNCHANGED vars
  BY <1>17 DEF LinkBackup, RemoveBackup, UserEdit, vars
<1>18. CASE RemoveJournal
  <2> DEFINE left == {h \in Homes : h > home /\ jrb[h] # "none"}
  <2>1. jrb' = [jrb EXCEPT ![home] = "none"] /\ pc = "remove" /\ task = "remove"
    BY <1>18 DEF RemoveJournal, Flow
  <2>2. CASE \E h \in left : (\A g \in left : h <= g) /\ Goto("remove", "remove", op, h)
    BY <1>1, <2>1, <2>2
  <2>3. CASE left = {} /\ Goto("marks", "remove", op, home)
    BY <1>1, <2>1, <2>3
  <2> QED
    BY <1>18, <2>2, <2>3 DEF RemoveJournal
<1>19. CASE RemoveMarks \/ Crash
  BY <1>3, <1>19, Killed DEF RemoveMarks
<1>20. CASE Recover
  <2>1. CASE \E status : End(status)
    BY <1>3, <2>1
  <2>2. CASE SurvivorsOk /\ \E h \in Present : /\ \A g \in Present : h <= g
                                               /\ Resume("remove", "remove", h, "seal")
    BY <1>1, <1>20, <2>2 DEF Recover, Resume, SurvivorsOk
  <2>3. CASE \E t, m : Resume("detach", t, 1, m)
    BY <1>1, <1>20, <2>3 DEF Resume
  <2> QED
    BY <1>20, <2>1, <2>2, <2>3 DEF Recover
<1>21. CASE FaultBefore \/ FaultAfter
  BY <1>4, <1>21 DEF FaultBefore, FaultAfter
<1> QED
  BY <1>6, <1>7, <1>8, <1>9, <1>10, <1>11, <1>12, <1>13, <1>14, <1>15, <1>16, <1>17, <1>18,
     <1>19, <1>20, <1>21 DEF Next, Process

LEMMA BackupsStep ==
  TypeOK /\ Flow /\ Standing /\ BackupsHeld /\ [Next]_vars => BackupsHeld'
<1> SUFFICES ASSUME TypeOK, Flow, Standing, BackupsHeld, [Next]_vars,
                    pc' \in ActivePcs \cup {"create"}, task' # "cleanup"
             PROVE  \A o \in Ops : HasBackup(o) => backup'[o]
  BY DEF BackupsHeld
<1> USE DEF Goto, CasPcs, WritePcs, ActivePcs, mem, ctl, bounds, disk
<1>1. CASE pc \in ActivePcs \cup {"create"} /\ task # "cleanup" /\ UNCHANGED backup
  BY <1>1 DEF BackupsHeld
<1>2. CASE Prepare
  BY <1>2 DEF Prepare, End
<1>3. CASE CreateJournal \/ RootOpen \/ RootRefused \/ RootWrite
  BY <1>1, <1>3 DEF CreateJournal, RootOpen, RootRefused, RootWrite, Flow
<1>4. CASE JournalDetach \/ JournalInstall \/ FaultAfter
  <2>1. task = "cleanup" => task' = "cleanup" \/ pc' \in {"remove", "down"}
    BY <1>4, SettlingEnds DEF JournalDetach, JournalInstall, FaultAfter, AfterJournal, Flow
  <2> QED
    BY <1>1, <1>4, <2>1 DEF JournalDetach, JournalInstall, FaultAfter
<1>5. CASE Cas \/ Reverse \/ Stage
  BY <1>1, <1>5 DEF Cas, CasLink, CasLook, CasUnlink, CasInstall, CasSettle, CasStep, Reverse, Stage, Flow
<1>6. CASE FaultBefore
  <2>1. task \in {"seal", "cleanup", "remove"} /\ pc # "create" => pc' = "down"
    BY <1>6, SettlingEnds DEF FaultBefore
  <2> QED
    BY <1>1, <1>6, <2>1 DEF FaultBefore, Flow
<1>7. CASE UserEdit \/ UNCHANGED vars
  BY <1>1, <1>7 DEF UserEdit, vars
<1>8. CASE Unprepare \/ LinkBackup \/ RemoveBackup \/ RemoveJournal \/ RemoveMarks \/ Crash
  BY <1>8 DEF Unprepare, LinkBackup, RemoveBackup, RemoveJournal, RemoveMarks, Crash, End
<1>9. CASE Recover
  <2>1. UNCHANGED backup /\ BackupsOk /\ Present = Homes /\ \A h \in Present : ~Sealed(h)
    <3>1. ~\E status : End(status)
      BY DEF End
    <3>2. ~\E h, m : Resume("remove", "remove", h, m) \/ Resume("detach", "cleanup", h, m)
      BY DEF Resume
    <3>3. Present # {}
      BY <1>9, <3>1 DEF Recover
    <3>4. Present # Homes /\ SurvivorsOk => \E h \in Present : Sealed(h)
      BY <3>3 DEF SurvivorsOk
    <3> QED
      BY <1>9, <3>1, <3>2, <3>4 DEF Recover
  <2>2. \A o \in Ops : o \in OpsPresent /\ ~Sealed(HomeOf[o])
    BY <2>1, HomeOfOp DEF OpsPresent
  <2> QED
    BY <2>1, <2>2 DEF BackupsOk
<1> QED
  BY <1>2, <1>3, <1>4, <1>5, <1>6, <1>7, <1>8, <1>9 DEF Next, Process

-----------------------------------------------------------------------------
(* What the journals say. *)

LEMMA PlannedOK == \A o \in Ops : EntryOK(o, Planned(o))
BY DEF EntryOK, Planned, LooksBefore, Before

LEMMA PendingOK ==
  ASSUME TypeOK, Entries, pc \in WritePcs
  PROVE  \A o \in Ops : EntryOK(o, Pending[o])
<1> SUFFICES ASSUME NEW o \in Ops PROVE EntryOK(o, Pending[o])
  OBVIOUS
<1> USE DEF EntryOK
<1>1. ment \in [Ops -> Entry] /\ op \in Ops /\ EntryOK(o, ment[o]) /\ ment[o] \in Entry
  BY DEF TypeOK, MemOK, CtlOK, Entries
<1>2. CASE task = "applying"
  BY <1>1, <1>2 DEF Pending, Entry
<1>3. CASE task = "applied"
  BY <1>1, <1>3 DEF Pending, Entry
<1>4. CASE task = "rolled-back"
  BY <1>1, <1>4 DEF Pending, Entry, Entries
<1>5. CASE task = "ambiguous"
  BY <1>1, <1>5 DEF Pending, Entry
<1>6. CASE task = "bulk"
  BY <1>1, <1>6 DEF Pending, Entry
<1>7. CASE task \notin {"applying", "applied", "rolled-back", "ambiguous", "bulk"}
  BY <1>1, <1>7 DEF Pending
<1> QED
  BY <1>2, <1>3, <1>4, <1>5, <1>6, <1>7

LEMMA LoadedOK ==
  ASSUME TypeOK, Entries
  PROVE  \A o \in Ops : EntryOK(o, Loaded[o])
<1> SUFFICES ASSUME NEW o \in Ops PROVE EntryOK(o, Loaded[o])
  OBVIOUS
<1> DEFINE h == HomeOf[o]
           ahead == AheadOf(h, jslot[h][h])
<1>1. h \in Homes /\ o \in OpsOf(h)
  BY HomeOfOp DEF OpsOf
<1>2. CASE h \in Present /\ ~Sealed(h) /\ ahead # {}
  <2> DEFINE i == CHOOSE i \in ahead : TRUE
  <2>1. i \in ahead
    BY <1>2
  <2>2. i \in Slots /\ IsProgress(slot[h][i])
    BY <2>1 DEF AheadOf
  <2>3. Loaded[o] = slot[h][i].digest[o]
    BY <1>2 DEF Loaded
  <2> QED
    BY <1>1, <2>2, <2>3 DEF Entries, RootsOK
<1>3. CASE ~(h \in Present /\ ~Sealed(h) /\ ahead # {})
  <2>1. Loaded[o] = jent[o]
    BY <1>3, Zenon DEF Loaded
  <2> QED
    BY <2>1 DEF Entries
<1> QED
  BY <1>2, <1>3

LEMMA RootsExcept ==
  ASSUME IsSlotMap(slot), RootsOK(slot), NEW i, NEW a,
         IsProgress(a) => \A o \in OpsOf(home) : EntryOK(o, a.digest[o]),
         slot' = [slot EXCEPT ![home][i] = a]
  PROVE  RootsOK(slot')
<1> SUFFICES ASSUME NEW h \in Homes, NEW j \in Slots, IsProgress(slot'[h][j]), NEW o \in OpsOf(h)
             PROVE  EntryOK(o, slot'[h][j].digest[o])
  BY DEF RootsOK
<1>1. slot[h] \in [Slots -> Anchors(h)] /\ slot \in [Homes -> [Slots -> {slot[g][k] : g \in Homes, k \in Slots}]]
  BY DEF IsSlotMap, Pairs
<1>2. CASE h = home /\ j = i
  <2>1. slot'[h][j] = a
    BY <1>1, <1>2
  <2> QED
    BY <1>2, <2>1
<1>3. CASE ~(h = home /\ j = i)
  <2>1. slot'[h][j] = slot[h][j]
    BY <1>1, <1>3
  <2> QED
    BY <2>1 DEF RootsOK
<1> QED
  BY <1>2, <1>3

LEMMA EntriesStep == TypeOK /\ Flow /\ Entries /\ [Next]_vars => Entries'
<1> SUFFICES ASSUME TypeOK, Flow, Entries, [Next]_vars PROVE Entries'
  OBVIOUS
<1> USE DEF Goto, CasPcs, WritePcs, ActivePcs, mem, ctl, bounds, disk
<1>1. IsSlotMap(slot) /\ op \in Ops /\ home \in Homes
  BY DEF TypeOK, DiskOK, CtlOK
<1>2. ASSUME \A o \in Ops : EntryOK(o, jent'[o]) /\ EntryOK(o, ment'[o]), RootsOK(slot'),
             pc' \in WritePcs /\ task' = "rolled-back" => LooksBefore(op', goal')
      PROVE  Entries'
  BY <1>2 DEF Entries
<1>3. ASSUME \E status : End(status), UNCHANGED jent, RootsOK(slot')
      PROVE  Entries'
  BY <1>3, PlannedOK DEF End, NoMemory, Entries
<1>4. ASSUME NEW m, \A o \in Ops : EntryOK(o, m[o]),
             jent' = [o \in Ops |-> IF HomeOf[o] = home THEN m[o] ELSE jent[o]]
      PROVE  \A o \in Ops : EntryOK(o, jent'[o])
  BY <1>4 DEF Entries
<1>5. ASSUME pc \in ActivePcs \cup {"create", "remove", "unlink"}, NEW f, Raise(f), UNCHANGED slot,
             \A o \in Ops : EntryOK(o, jent'[o])
      PROVE  Entries'
  <2>1. (\E status : End(status)) \/ (ment' = ment /\ task' # "rolled-back")
    BY <1>5, RaiseGoes DEF UndoTasks
  <2> QED
    BY <1>5, <2>1, PlannedOK DEF Entries, End, NoMemory
<1>6. CASE Prepare
  <2>1. ASSUME slot' = [h \in Homes |-> [i \in Slots |->
                          Progress(0, Digest(h, [o \in Ops |-> Planned(o)]))]]
        PROVE  RootsOK(slot')
    BY <2>1, PlannedOK DEF RootsOK, Progress, Digest, OpsOf
  <2> QED
    BY <1>2, <1>3, <1>6, <2>1 DEF Prepare, Entries
<1>7. CASE CreateJournal
  BY <1>2, <1>4, <1>7 DEF CreateJournal, LinkJournal, Entries, ToApply
<1>8. CASE Unprepare
  <2>1. slot' = [h \in Homes |-> [i \in Slots |-> NoAnchor]] => RootsOK(slot')
    BY DEF RootsOK, NoAnchor, IsProgress
  <2> QED
    BY <1>2, <1>3, <1>8, <2>1 DEF Unprepare, Entries
<1>9. ASSUME NEW anchors, AfterSeal(anchors), RootsOK(slot'), UNCHANGED <<jent, ment>>
      PROVE  Entries'
  BY <1>9 DEF AfterSeal, Entries
<1>10. CASE RootOpen
  <2>1. ASSUME slot' = [slot EXCEPT ![home][RootSlot] = Torn]
        PROVE  RootsOK(slot')
    BY <1>1, <2>1, RootsExcept DEF Torn, IsProgress, Entries
  <2> QED
    BY <1>9, <1>10, <2>1 DEF RootOpen, Entries
<1>11. CASE RootRefused
  BY <1>5, <1>11 DEF RootRefused, Entries
<1>12. CASE RootWrite
  <2>1. IsProgress(RootContent) => \A o \in OpsOf(home) : EntryOK(o, RootContent.digest[o])
    BY <1>12, PendingOK DEF RootWrite, RootContent, Progress, CleanupRoot, IsProgress, Digest, OpsOf
  <2>2. RootsOK(slot')
    BY <1>1, <1>12, <2>1, RootsExcept DEF RootWrite, Entries
  <2> QED
    BY <1>9, <1>12, <2>2 DEF RootWrite, Entries
<1>13. CASE JournalDetach
  BY <1>5, <1>13 DEF JournalDetach, Entries
<1>14. InstallJournal /\ pc \in WritePcs => \A o \in Ops : EntryOK(o, jent'[o])
  BY <1>4, PendingOK DEF InstallJournal
<1>15. CASE JournalInstall
  <2>1. task' # "rolled-back"
    BY <1>15 DEF JournalInstall, AfterJournal, ToApply, ToReverse, ToBulk
  <2> QED
    BY <1>2, <1>14, <1>15, <2>1, PendingOK DEF JournalInstall, Entries
<1>16. CASE Cas
  <2>1. ASSUME NEW from \in CasPcs, NEW expected, NEW leaves, CasStep(from, expected, leaves)
        PROVE  Entries'
    <3>1. CASE Raise(fresh)
      BY <1>5, <2>1, <3>1 DEF CasStep, Entries
    <3>2. CASE ~Raise(fresh)
      <4>1. task = "reverse" => LooksBefore(op, CasGoal)
        BY DEF CasGoal, LooksBefore
      <4>2. task \in {"apply", "reverse"}
        BY <2>1 DEF CasStep, Flow
      <4> QED
        BY <2>1, <3>2, <4>1, <4>2, CasGoes DEF CasStep, Entries
    <3> QED
      BY <3>1, <3>2
  <2> QED
    BY <1>16, <2>1 DEF Cas, CasLink, CasLook, CasUnlink, CasInstall, CasSettle
<1>17. CASE Reverse
  BY <1>5, <1>17 DEF Reverse, Entries, CasEntry
<1>18. CASE Stage
  BY <1>3, <1>5, <1>18 DEF Stage, Entries
<1>19. CASE LinkBackup \/ RemoveBackup \/ RemoveJournal \/ UserEdit \/ UNCHANGED vars
  BY <1>19 DEF LinkBackup, RemoveBackup, RemoveJournal, UserEdit, vars, Entries
<1>20. CASE RemoveMarks
  <2>1. slot' = [h \in Homes |-> [i \in Slots |-> NoAnchor]] => RootsOK(slot')
    BY DEF RootsOK, NoAnchor, IsProgress
  <2> QED
    BY <1>3, <1>20, <2>1 DEF RemoveMarks
<1>21. CASE Crash
  <2>1. \A o \in Ops : EntryOK(o, jent'[o])
    BY <1>4, <1>14, <1>21, Killed DEF LinkJournal, Entries
  <2>2. (\E status : End(status)) /\ RootsOK(slot')
    BY <1>21, Killed DEF Entries
  <2> QED
    BY <2>1, <2>2, PlannedOK DEF End, NoMemory, Entries
<1>22. CASE Recover
  <2>1. CASE \E status : End(status)
    BY <1>3, <1>22, <2>1 DEF Recover, Entries
  <2>2. CASE \E p, t, h, m : Resume(p, t, h, m) /\ t # "rolled-back"
    BY <1>22, <2>2, LoadedOK DEF Recover, Resume, Entries
  <2> QED
    BY <1>22, <2>1, <2>2 DEF Recover
<1>23. CASE FaultBefore
  BY <1>5, <1>23 DEF FaultBefore, Entries
<1>24. CASE FaultAfter
  <2>1. \A o \in Ops : EntryOK(o, jent'[o])
    BY <1>4, <1>14, <1>24 DEF FaultAfter, LinkJournal, Entries
  <2> QED
    BY <1>5, <1>24, <2>1 DEF FaultAfter
<1> QED
  BY <1>6, <1>7, <1>8, <1>10, <1>11, <1>12, <1>13, <1>15, <1>16, <1>17, <1>18, <1>19,
     <1>20, <1>21, <1>22, <1>23, <1>24 DEF Next, Process

-----------------------------------------------------------------------------
(* What memory knows of the files. *)

\* Every step leaves alone the files nobody edited, but for the one a
\* compare-and-swap is about.
LEMMA FilesStay ==
  ASSUME TypeOK, [Next]_vars, NEW o \in Ops, o \notin touched'
  PROVE  /\ o \notin touched
         /\ \/ file'[o] = file[o]
            \/ o = op /\ pc \in CasPcs /\ (Cas \/ FaultBefore)
<1> USE DEF TypeOK, DiskOK, CtlOK
<1>1. CASE UserEdit
  BY <1>1 DEF UserEdit
<1>2. CASE ~UserEdit
  <2>1. touched' = touched
    BY <1>2 DEF Next, Process, Prepare, CreateJournal, Unprepare, RootOpen, RootRefused, RootWrite,
       JournalDetach, JournalInstall, Cas, CasLink, CasLook, CasUnlink, CasInstall, CasSettle, CasStep,
       Reverse, Stage, LinkBackup, RemoveBackup, RemoveJournal, RemoveMarks, Recover, FaultBefore,
       FaultAfter, Crash, MayLeaveName, vars, bounds
  <2> QED
    BY <1>2, <2>1, OthersTouchNothing, CasTouches, FaultTouches DEF CasPcs
<1> QED
  BY <1>1, <1>2

LEMMA StartStep == TypeOK /\ Flow /\ StartClean /\ [Next]_vars => StartClean'
<1> SUFFICES ASSUME TypeOK, Flow, StartClean, [Next]_vars, pc' \in {"start", "create", "unprepare"}
             PROVE  \A o \in Ops : ~Dirty(o)' /\ ment'[o].status = "planned"
  BY DEF StartClean
<1> USE DEF Goto, CasPcs, WritePcs, ActivePcs, mem, ctl, bounds, disk
<1>1. pc \in {"start", "create", "unprepare"} /\ UNCHANGED ment
  <2>1. ASSUME \E status : End(status) PROVE FALSE
    BY <2>1 DEF End
  <2>2. ASSUME NEW f, Raise(f), pc \in ActivePcs \cup {"create", "remove", "unlink"}
        PROVE  pc = "create" /\ UNCHANGED ment
    BY <2>1, <2>2, RaiseGoes
  <2>3. CASE Prepare \/ CreateJournal \/ Unprepare \/ UserEdit \/ UNCHANGED vars
    BY <2>1, <2>3 DEF Prepare, CreateJournal, Unprepare, UserEdit, vars
  <2>4. CASE RootOpen \/ RootRefused \/ RootWrite \/ JournalDetach
    BY <2>2, <2>4 DEF RootOpen, RootRefused, RootWrite, JournalDetach, AfterSeal
  <2>5. CASE JournalInstall
    BY <2>5, JournalGoes DEF JournalInstall
  <2>6. CASE Cas
    BY <2>2, <2>6, CasGoes DEF Cas, CasLink, CasLook, CasUnlink, CasInstall, CasSettle, CasStep
  <2>7. CASE Reverse \/ Stage
    BY <2>1, <2>2, <2>7 DEF Reverse, Stage, CasEntry
  <2>8. CASE LinkBackup \/ RemoveBackup \/ RemoveJournal \/ RemoveMarks \/ Crash
    BY <2>1, <2>8 DEF LinkBackup, RemoveBackup, RemoveJournal, RemoveMarks, Crash
  <2>9. CASE Recover
    BY <2>9 DEF Recover, Resume, End
  <2>10. CASE FaultBefore \/ FaultAfter
    BY <2>2, <2>10 DEF FaultBefore, FaultAfter
  <2> QED
    BY <2>3, <2>4, <2>5, <2>6, <2>7, <2>8, <2>9, <2>10 DEF Next, Process
<1>2. \A o \in Ops : o \notin touched' => o \notin touched /\ file'[o] = file[o]
  BY <1>1, FilesStay
<1> QED
  BY <1>1, <1>2 DEF StartClean, Dirty, Untouched

\* Persisting a task opens, settles or leaves an operation; it plans none.
LEMMA PendingPlanned ==
  ASSUME TypeOK, NEW o \in Ops
  PROVE  /\ Pending[o].status = "planned" => ment[o].status = "planned"
         /\ task = "applying" => Pending[o].status = IF o = op THEN "applying" ELSE ment[o].status
         /\ task = "applied" => Pending[o].status = IF o = op THEN "applied" ELSE ment[o].status
         /\ task = "rolled-back" => Pending[o].status = IF o = op THEN "rolled-back" ELSE ment[o].status
         /\ task = "ambiguous" => Pending[o].status = IF o = op THEN "ambiguous" ELSE ment[o].status
         /\ task = "bulk" => Pending[o].status = IF HomeOf[o] = home THEN "rolled-back" ELSE ment[o].status
         /\ task \notin {"applying", "applied", "rolled-back", "ambiguous", "bulk"} => Pending = ment
<1>1. ment \in [Ops -> Entry] /\ op \in Ops /\ ment[o] \in Entry
  BY DEF TypeOK, MemOK, CtlOK
<1>2. CASE task = "applying"
  BY <1>1, <1>2 DEF Pending, Entry
<1>3. CASE task = "applied"
  BY <1>1, <1>3 DEF Pending, Entry
<1>4. CASE task = "rolled-back"
  BY <1>1, <1>4 DEF Pending, Entry
<1>5. CASE task = "ambiguous"
  BY <1>1, <1>5 DEF Pending, Entry
<1>6. CASE task = "bulk"
  BY <1>1, <1>6 DEF Pending, Entry
<1>7. CASE task \notin {"applying", "applied", "rolled-back", "ambiguous", "bulk"}
  BY <1>1, <1>7 DEF Pending
<1> QED
  BY <1>2, <1>3, <1>4, <1>5, <1>6, <1>7

\* The ways a step can be one of, or lead to, the work on a complete group.
Continues ==   \* within the task
  pc \in ActivePcs /\ UNCHANGED <<ment, task, op, home, mode, err>>
Seals ==       \* on to the next cleanup root, or to the cleanup journals
  /\ pc \in ActivePcs /\ task = "seal" /\ task' \in {"seal", "cleanup"} /\ ~err
  /\ UNCHANGED <<ment, op, mode, err>>
Mutated ==     \* the compare-and-swap is over
  /\ Cas /\ pc \in CasPcs /\ pc' = "root" /\ file'[op] = CasGoal
  /\ task \in {"apply", "reverse"}
  /\ task' = IF task = "apply" THEN "applied" ELSE "rolled-back"
  /\ UNCHANGED <<ment, op, home, mode, err>>
FoundBefore == \* nothing to reverse
  /\ pc = "reverse" /\ task = "reverse" /\ task' = "rolled-back"
  /\ LooksBefore(op, file[op])
  /\ UNCHANGED <<file, ment, op, home, mode, err>>
RollsBack ==   \* an exception ends the application
  /\ pc \in ActivePcs /\ task \in ApplyTasks /\ task' = "in-progress" /\ ~err'
  /\ UNCHANGED ment
GoesOn ==      \* an exception is remembered by the rollback
  /\ pc \in ActivePcs /\ err' /\ UNCHANGED ment
  /\ task' \in (UndoTasks \ {"rolled-back"}) \cup {"seal"}
  /\ task' = "reverse" => ment[op'].status \in {"applying", "applied"}
Starts ==      \* every journal has been created
  /\ pc = "create" /\ ToApply(1) /\ UNCHANGED <<file, ment, mode, err>>
Resumes ==     \* recovery takes over
  /\ Recover /\ Present = Homes /\ ment' = Loaded /\ UNCHANGED disk /\ ~err'
  /\ \/ task' = "in-progress" /\ mode' = "recover" /\ \A o \in Ops : Verdict(o) = "ok"
     \/ task' = "cleanup" /\ mode' = "seal" /\ \E f \in Finals : Decided(f)

LEMMA ActiveStep ==
  ASSUME TypeOK, Flow, [Next]_vars, pc' \in ActivePcs
  PROVE  Continues \/ Seals \/ Mutated \/ FoundBefore \/ RollsBack \/ GoesOn
           \/ JournalInstall \/ Starts \/ Resumes
<1> USE DEF Goto, CasPcs, WritePcs, ActivePcs, mem, ctl, bounds, disk
<1>1. ~\E status : End(status)
  BY DEF End
<1>2. ASSUME NEW f, Raise(f), pc \in ActivePcs \cup {"create", "remove", "unlink"}
      PROVE  RollsBack \/ GoesOn
  <2>1. pc \in ActivePcs /\ ~Settling
    BY <1>1, <1>2, RaiseGoes
  <2>2. mode = "apply" => task \in ApplyTasks
    BY <2>1 DEF Flow, Settling, ApplyTasks, UndoTasks
  <2> QED
    BY <1>1, <1>2, <2>1, <2>2, RaiseGoes DEF RollsBack, GoesOn, Flow, UndoTasks
<1>3. CASE Prepare \/ Unprepare
  BY <1>1, <1>3 DEF Prepare, Unprepare
<1>4. CASE CreateJournal
  BY <1>4 DEF CreateJournal, Starts
<1>5. ASSUME NEW anchors, AfterSeal(anchors), pc \in {"root", "rewrite"}, task = "seal",
             UNCHANGED <<ment, mode, err>>
      PROVE  Seals
  BY <1>5 DEF AfterSeal, Seals, Flow, UndoTasks
<1>6. CASE RootOpen \/ RootWrite
  BY <1>5, <1>6 DEF RootOpen, RootWrite, Continues
<1>7. CASE RootRefused
  BY <1>2, <1>7 DEF RootRefused
<1>8. CASE JournalDetach
  BY <1>2, <1>8 DEF JournalDetach, Continues
<1>9. CASE Cas
  <2>1. file \in [Ops -> FileIds] /\ op \in Ops
    BY DEF TypeOK, DiskOK, CtlOK
  <2>2. ASSUME NEW from \in CasPcs, NEW expected, NEW leaves, CasStep(from, expected, leaves),
               CasLast(from) => leaves = CasGoal
        PROVE  RollsBack \/ GoesOn \/ Continues \/ Mutated
    <3>1. pc \in CasPcs /\ task \in {"apply", "reverse"}
      BY <2>2 DEF CasStep, Flow
    <3> QED
      BY <1>2, <1>9, <2>1, <2>2, <3>1, CasGoes DEF Continues, Mutated
  <2>3. CasLast("cas-unlink") => "absent" = CasGoal
    BY DEF CasLast
  <2>4. ~CasLast("cas-link") /\ ~CasLast("cas-look") /\ ~CasLast("cas-install")
    BY DEF CasLast
  <2> QED
    BY <1>9, <2>2, <2>3, <2>4 DEF Cas, CasLink, CasLook, CasUnlink, CasInstall, CasSettle
<1>10. CASE Reverse
  BY <1>2, <1>10 DEF Reverse, FoundBefore, Continues, Flow
<1>11. CASE Stage
  BY <1>1, <1>2, <1>11 DEF Stage, Seals, Flow
<1>12. CASE LinkBackup \/ RemoveBackup \/ RemoveJournal \/ RemoveMarks \/ Crash
  BY <1>1, <1>12 DEF LinkBackup, RemoveBackup, RemoveJournal, RemoveMarks, Crash
<1>13. CASE UserEdit \/ UNCHANGED vars
  BY <1>13 DEF UserEdit, vars, Continues
<1>14. CASE Recover
  <2>1. Present # {}
    BY <1>1, <1>14 DEF Recover
  <2>2. Present # Homes /\ SurvivorsOk => \E h \in Present : Sealed(h)
    BY <2>1 DEF SurvivorsOk
  <2>3. ~\E h, m : Resume("remove", "remove", h, m)
    BY DEF Resume
  <2> QED
    BY <1>1, <1>14, <2>2, <2>3 DEF Recover, Resume, Resumes
<1>15. CASE FaultBefore \/ FaultAfter
  BY <1>2, <1>15 DEF FaultBefore, FaultAfter
<1> QED
  BY <1>3, <1>4, <1>6, <1>7, <1>8, <1>9, <1>10, <1>11, <1>12, <1>13, <1>14, <1>15
     DEF Next, Process

\* What memory says is planned is not changed yet, and what is being changed is not
\* merely planned.
LEMMA MemoryAheadStep ==
  /\ TypeOK /\ Flow /\ Entries /\ StartClean /\ MemoryAhead /\ Applying /\ Undoing
  /\ [Next]_vars
  => MemoryAhead'
<1> SUFFICES ASSUME TypeOK, Flow, Entries, StartClean, MemoryAhead, Applying, Undoing,
                    [Next]_vars, pc' \in ActivePcs
             PROVE  /\ \A o \in Ops : o \notin touched' /\ ment'[o].status = "planned"
                                        => file'[o] = Before(o)
                    /\ task' \in {"apply", "applied", "reverse"} =>
                         ment'[op'].status \in {"applying", "applied"}
  BY DEF MemoryAhead, Untouched
<1> USE DEF CasPcs, WritePcs, ActivePcs
<1>1. op \in Ops
  BY DEF TypeOK, CtlOK
<1>2. \A o \in Ops : o \notin touched' =>
        /\ o \notin touched
        /\ file'[o] = file[o] \/ (o = op /\ pc \in CasPcs /\ (Cas \/ FaultBefore))
  BY FilesStay
<1>3. CASE Continues \/ Seals \/ Mutated \/ FoundBefore \/ RollsBack \/ GoesOn
  <2>1. pc \in ActivePcs /\ UNCHANGED ment
    BY <1>3 DEF Continues, Seals, Mutated, FoundBefore, RollsBack, GoesOn
  <2>2. pc \in CasPcs => ment[op].status # "planned"
    BY DEF MemoryAhead, Flow
  <2>3. \A o \in Ops : o \notin touched' /\ ment'[o].status = "planned" => file'[o] = Before(o)
    BY <1>2, <2>1, <2>2 DEF MemoryAhead, Untouched
  <2>4. CASE Continues \/ Mutated
    BY <2>1, <2>3, <2>4 DEF Continues, Mutated, MemoryAhead
  <2>5. CASE Seals \/ FoundBefore \/ RollsBack \/ GoesOn
    BY <2>1, <2>3, <2>5 DEF Seals, FoundBefore, RollsBack, GoesOn, UndoTasks
  <2> QED
    BY <1>3, <2>4, <2>5
<1>4. CASE JournalInstall
  <2>1. pc = "install" /\ ment' = Pending
    BY <1>4 DEF JournalInstall
  <2>2. \A o \in Ops : o \notin touched' /\ ment'[o].status = "planned" => file'[o] = Before(o)
    BY <1>2, <2>1, PendingPlanned DEF MemoryAhead, Untouched
  <2>3. task' = "apply" => task = "applying" /\ op' = op
    BY <1>4 DEF JournalInstall, AfterJournal, ToApply, ToReverse, ToBulk, Goto
  <2>4. task' # "applied"
    BY <1>4 DEF JournalInstall, AfterJournal, ToApply, ToReverse, ToBulk, Goto
  <2>5. task' = "reverse" => Pending[op'].status \in {"applying", "applied"}
    BY <1>4 DEF JournalInstall, AfterJournal, ToApply, ToReverse, ToBulk, Goto
  <2> QED
    BY <1>1, <2>1, <2>2, <2>3, <2>4, <2>5, PendingPlanned
<1>5. CASE Starts
  BY <1>2, <1>5 DEF Starts, StartClean, Dirty, Untouched, ToApply, Goto
<1>6. CASE Resumes
  <2>1. ASSUME NEW o \in Ops, Loaded[o].status = "planned"
        PROVE  file[o] = Before(o)
    <3>1. \A p \in Ops : p \in OpsPresent
      BY <1>6, HomeOfOp DEF Resumes, OpsPresent
    <3>2. Verdict(o) = "ok"
      BY <1>6, <2>1, <3>1 DEF Resumes, Decided, Uniform, Finals
    <3>3. file[o] = Loaded[o].before
      BY <2>1, <3>2 DEF Verdict
    <3> QED
      BY <2>1, <3>3, LoadedOK DEF EntryOK
  <2> QED
    BY <1>6, <2>1 DEF Resumes, disk
<1> QED
  BY <1>3, <1>4, <1>5, <1>6, ActiveStep

\* Homes the bulk transition passes over are rolled back, unless ambiguous.
LEMMA BulkGoes ==
  ASSUME NEW from \in Nat \ {0}, NEW ent, ToBulk(from, ent),
         \A o \in Ops : ent[o].status # "ambiguous"
  PROVE  /\ task' \in {"bulk", "seal"}
         /\ task' = "bulk" => \A o \in Ops :
              HomeOf[o] < home' => HomeOf[o] < from \/ ent[o].status = "rolled-back"
         /\ task' = "seal" => \A o \in Ops : HomeOf[o] < from \/ ent[o].status = "rolled-back"
<1> DEFINE due == {h \in from..NumHomes :
                /\ \A o \in OpsOf(h) : ent[o].status # "ambiguous"
                /\ \E o \in OpsOf(h) : ent[o].status # "rolled-back"}
<1>1. ASSUME NEW o \in Ops, ~(HomeOf[o] < from), ent[o].status # "rolled-back"
      PROVE  HomeOf[o] \in due
  <2>1. HomeOf[o] \in 1..NumHomes /\ NumHomes \in Nat
    BY HomeOfOp, TransactionAssumption DEF Homes
  <2>2. HomeOf[o] \in from..NumHomes
    BY <1>1, <2>1
  <2> QED
    BY <1>1, <2>2 DEF OpsOf
<1>2. CASE \E h \in due : (\A g \in due : h <= g) /\ Goto("root", "bulk", op, h)
  <2>1. PICK h \in due : (\A g \in due : h <= g) /\ Goto("root", "bulk", op, h)
    BY <1>2
  <2>2. ASSUME NEW o \in Ops, HomeOf[o] < h, ~(HomeOf[o] < from)
        PROVE  ent[o].status = "rolled-back"
    <3>1. HomeOf[o] \in Nat /\ h \in Nat
      BY <2>1, HomeOfOp DEF Homes
    <3> QED
      BY <1>1, <2>1, <2>2, <3>1
  <2> QED
    BY <2>1, <2>2 DEF Goto
<1>3. CASE due = {} /\ Goto("stage", "seal", op, 1)
  BY <1>1, <1>3 DEF Goto
<1> QED
  BY <1>2, <1>3 DEF ToBulk

LEMMA ApplyingStep ==
  TypeOK /\ Flow /\ StartClean /\ MemoryAhead /\ Applying /\ [Next]_vars => Applying'
<1> SUFFICES ASSUME TypeOK, Flow, StartClean, MemoryAhead, Applying, [Next]_vars,
                    pc' \in ActivePcs, task' \in ApplyTasks
             PROVE  /\ \A o \in Ops : o < op' =>
                         /\ ment'[o].status = "applied"
                         /\ o \notin touched' => file'[o] = After(o)
                    /\ \A o \in Ops : o > op' => ment'[o].status = "planned"
                    /\ ment'[op'].status = IF task' = "applying" THEN "planned" ELSE "applying"
                    /\ task' = "applied" /\ op' \notin touched' => file'[op'] = After(op')
  BY DEF Applying, Untouched
<1> USE DEF CasPcs, WritePcs, ActivePcs, ApplyTasks
<1>1. op \in Ops /\ op \in Nat /\ \A o \in Ops : o \in Nat
  BY DEF TypeOK, CtlOK, Ops
<1>2. \A o \in Ops : o \notin touched' =>
        /\ o \notin touched
        /\ file'[o] = file[o] \/ (o = op /\ pc \in CasPcs)
  BY FilesStay
<1>3. CASE Continues
  <2>1. pc \in CasPcs => task # "applied"
    BY DEF Flow
  <2> QED
    BY <1>1, <1>2, <1>3, <2>1 DEF Continues, Applying, Untouched
<1>4. CASE Mutated
  <2>1. task = "apply" /\ task' = "applied"
    BY <1>4 DEF Mutated
  <2>2. CasGoal = After(op)
    BY <2>1 DEF CasGoal
  <2> QED
    BY <1>1, <1>2, <1>4, <2>1, <2>2 DEF Mutated, Applying, Untouched
<1>5. CASE Seals \/ FoundBefore \/ RollsBack \/ GoesOn \/ Resumes
  BY <1>5 DEF Seals, FoundBefore, RollsBack, GoesOn, Resumes, UndoTasks
<1>6. CASE JournalInstall
  <2>1. /\ pc = "install" /\ ment' = Pending
        /\ \/ task = "applying" /\ task' = "apply" /\ op' = op
           \/ task = "applied" /\ task' = "applying" /\ op' = op + 1
    BY <1>6 DEF JournalInstall, AfterJournal, ToApply, ToReverse, ToBulk, Goto
  <2>2. \A o \in Ops : o \notin touched' => o \notin touched /\ file'[o] = file[o]
    BY <1>2, <2>1
  <2>3. CASE task = "applying" /\ task' = "apply" /\ op' = op
    <3>1. \A o \in Ops : Pending[o].status = IF o = op THEN "applying" ELSE ment[o].status
      BY <2>3, PendingPlanned
    <3>2. /\ \A o \in Ops : o < op => ment[o].status = "applied" /\ (o \notin touched => file[o] = After(o))
          /\ \A o \in Ops : o > op => ment[o].status = "planned"
      BY <2>1, <2>3 DEF Applying, Untouched
    <3>3. \A o \in Ops : (o < op => o # op) /\ (o > op => o # op)
      BY <1>1
    <3> QED
      BY <1>1, <2>1, <2>2, <2>3, <3>1, <3>2, <3>3
  <2>4. CASE task = "applied" /\ task' = "applying" /\ op' = op + 1
    <3>1. op' \in Ops
      <4>1. op < NumOps
        BY <1>6, <2>4 DEF JournalInstall, AfterJournal, Goto
      <4> QED
        BY <2>4, <4>1, NextHome DEF TypeOK
    <3>2. \A o \in Ops : Pending[o].status = IF o = op THEN "applied" ELSE ment[o].status
      BY <2>4, PendingPlanned
    <3>3. \A o \in Ops : (o < op' => o < op \/ o = op) /\ (o >= op' => o > op)
      BY <1>1, <2>4
    <3> QED
      BY <1>1, <2>1, <2>2, <2>4, <3>1, <3>2, <3>3 DEF Applying, Untouched
  <2> QED
    BY <2>1, <2>3, <2>4
<1>7. CASE Starts
  BY <1>1, <1>7, FirstOnes DEF Starts, StartClean, ToApply, Goto, Ops
<1> QED
  BY <1>3, <1>4, <1>5, <1>6, <1>7, ActiveStep

LEMMA UndoingStep ==
  /\ TypeOK /\ Flow /\ Entries /\ MemoryAhead /\ Applying /\ Undoing
  /\ [Next]_vars
  => Undoing'
<1> SUFFICES ASSUME TypeOK, Flow, Entries, MemoryAhead, Applying, Undoing, [Next]_vars,
                    pc' \in ActivePcs, task' \in UndoTasks, ~err'
             PROVE  /\ \A o \in Ops : ment'[o].status # "ambiguous"
                    /\ \A o \in Ops : o \notin touched' /\ ment'[o].status = "rolled-back"
                                        => LooksBefore(o, file'[o])
                    /\ task' \in {"reverse", "rolled-back"} => \A o \in Ops : o > op' => ~Open(o)'
                    /\ task' = "rolled-back" /\ op' \notin touched' => LooksBefore(op', file'[op'])
                    /\ task' = "bulk" => \A o \in Ops :
                         /\ ~Open(o)'
                         /\ HomeOf[o] < home' => ment'[o].status = "rolled-back"
  BY DEF Undoing, Untouched
<1> USE DEF CasPcs, WritePcs, ActivePcs, Open
<1>1. op \in Ops /\ op \in Nat /\ \A o \in Ops : o \in Nat
  BY DEF TypeOK, CtlOK, Ops
<1>2. \A o \in Ops : o \notin touched' =>
        /\ o \notin touched
        /\ file'[o] = file[o] \/ (o = op /\ pc \in CasPcs)
  BY FilesStay
<1>3. pc \in CasPcs => ment[op].status \in {"applying", "applied"}
  BY DEF MemoryAhead, Flow
<1>4. CASE Continues
  <2>1. pc \in CasPcs => task # "rolled-back"
    BY DEF Flow
  <2> QED
    BY <1>1, <1>2, <1>3, <1>4, <2>1 DEF Continues, Undoing, Untouched
<1>5. CASE Mutated
  <2>1. task = "reverse" /\ task' = "rolled-back"
    BY <1>5 DEF Mutated, UndoTasks
  <2>2. LooksBefore(op, CasGoal)
    BY <2>1 DEF CasGoal, LooksBefore
  <2> QED
    BY <1>1, <1>2, <1>3, <1>5, <2>1, <2>2 DEF Mutated, Undoing, Untouched, UndoTasks
<1>6. CASE FoundBefore
  BY <1>1, <1>2, <1>6 DEF FoundBefore, Undoing, Untouched, UndoTasks
<1>7. CASE RollsBack
  <2>1. \A o \in Ops : ment[o].status \in {"planned", "applying", "applied"}
    BY <1>1, <1>7 DEF RollsBack, Applying, ApplyTasks
  <2> QED
    BY <1>7, <2>1 DEF RollsBack
<1>8. CASE Seals \/ GoesOn \/ Starts
  BY <1>8 DEF Seals, GoesOn, Starts, UndoTasks, ToApply, Goto
<1>9. CASE JournalInstall
  <2>1. /\ pc = "install" /\ ment' = Pending /\ ~err /\ task \in UndoTasks
        /\ task \notin {"reverse", "ambiguous"}
    BY <1>9 DEF JournalInstall, AfterJournal, ToApply, Goto, UndoTasks, Flow
  <2>2. \A o \in Ops : o \notin touched' => o \notin touched /\ file'[o] = file[o]
    BY <1>2, <2>1
  <2>3. \A o \in Ops : Pending[o].status \in {ment[o].status, "rolled-back"}
    BY <2>1, PendingPlanned DEF UndoTasks
  <2>4. \A o \in Ops : Pending[o].status # "ambiguous"
    BY <2>1, <2>3 DEF Undoing
  <2>5. ASSUME NEW o \in Ops, o \notin touched', Pending[o].status = "rolled-back"
        PROVE  LooksBefore(o, file'[o])
    <3>1. o \in Untouched /\ file'[o] = file[o]
      BY <2>2, <2>5 DEF Untouched
    <3>2. CASE ment[o].status = "rolled-back"
      BY <2>1, <3>1, <3>2 DEF Undoing
    <3>3. CASE task = "rolled-back" /\ o = op
      BY <2>1, <3>1, <3>3 DEF Undoing
    <3>4. CASE task = "bulk" /\ ment[o].status # "rolled-back"
      <4>1. ment[o].status = "planned"
        <5>1. ment[o] \in Entry
          BY DEF TypeOK, MemOK
        <5> QED
          BY <2>1, <3>4, <5>1 DEF Undoing, Entry, Statuses
      <4>2. file[o] = Before(o)
        BY <2>1, <3>1, <4>1 DEF MemoryAhead
      <4> QED
        BY <3>1, <4>2 DEF LooksBefore, Before
    <3> QED
      BY <2>1, <2>5, <3>2, <3>3, <3>4, PendingPlanned DEF UndoTasks
  <2>6. ASSUME NEW last \in Nat, ToReverse(last, Pending),
               \A o \in Ops : o > last => Pending[o].status \notin {"applying", "applied"}
        PROVE  /\ task' \in {"reverse", "rolled-back"} => \A o \in Ops : o > op' => ~Open(o)'
               /\ task' # "rolled-back"
               /\ task' = "bulk" => \A o \in Ops :
                    /\ ~Open(o)'
                    /\ HomeOf[o] < home' => ment'[o].status = "rolled-back"
    <3> DEFINE open == {o \in 1..last : Pending[o].status \in {"applying", "applied"}}
    <3>1. CASE \E o \in open : (\A p \in open : p <= o) /\ Goto("reverse", "reverse", o, HomeOf[o])
      <4>1. PICK q \in open : (\A p \in open : p <= q) /\ Goto("reverse", "reverse", q, HomeOf[q])
        BY <3>1
      <4>2. ASSUME NEW o \in Ops, o > q
            PROVE  Pending[o].status \notin {"applying", "applied"}
        <5>1. o \in 1..last => o \notin open
          BY <1>1, <4>1, <4>2
        <5> QED
          BY <1>1, <2>6, <5>1 DEF Ops
      <4> QED
        BY <2>1, <4>1, <4>2 DEF Goto
    <3>2. CASE open = {} /\ ToBulk(1, Pending)
      <4>1. \A o \in Ops : Pending[o].status \notin {"applying", "applied"}
        BY <1>1, <2>6, <3>2 DEF Ops
      <4>2. task' \in {"bulk", "seal"}
        BY <3>2 DEF ToBulk, Goto
      <4>3. task' = "bulk" => \A o \in Ops : HomeOf[o] < home' => Pending[o].status = "rolled-back"
        <5>1. \A o \in Ops : ~(HomeOf[o] < 1)
          BY HomeOfOp DEF Homes
        <5>2. 1 \in Nat \ {0}
          OBVIOUS
        <5> QED
          BY <2>4, <3>2, <5>1, <5>2, BulkGoes
      <4> QED
        BY <2>1, <4>1, <4>2, <4>3
    <3> QED
      BY <2>6, <3>1, <3>2 DEF ToReverse
  <2>7. CASE task = "in-progress"
    <3>1. (task' = "in-progress") \/ ToReverse(NumOps, Pending)
      BY <1>9, <2>7 DEF JournalInstall, AfterJournal, Goto
    <3>2. NumOps \in Nat /\ \A o \in Ops : ~(o > NumOps)
      BY TransactionAssumption DEF Ops
    <3> QED
      BY <2>1, <2>4, <2>5, <2>6, <3>1, <3>2
  <2>8. CASE task = "rolled-back"
    <3>1. ToReverse(op - 1, Pending)
      BY <1>9, <2>8 DEF JournalInstall, AfterJournal
    <3>2. op - 1 \in Nat
      BY NextHome DEF TypeOK
    <3>3. \A o \in Ops : o > op - 1 => o = op \/ o > op
      BY <1>1
    <3>4. \A o \in Ops : o > op - 1 => Pending[o].status \notin {"applying", "applied"}
      BY <2>1, <2>8, <3>3, PendingPlanned DEF Undoing
    <3> QED
      BY <2>1, <2>4, <2>5, <2>6, <3>1, <3>2, <3>4
  <2>9. CASE task = "bulk"
    <3>1. ToBulk(home + 1, Pending)
      BY <1>9, <2>9 DEF JournalInstall, AfterJournal
    <3>2. task' = "bulk"
      BY <3>1 DEF ToBulk, Goto, UndoTasks
    <3>3. \A o \in Ops : Pending[o].status \notin {"applying", "applied"}
      BY <2>1, <2>9, PendingPlanned DEF Undoing
    <3>4. home \in Nat /\ \A o \in Ops : HomeOf[o] \in Nat
      BY HomeOfOp DEF TypeOK, CtlOK, Homes
    <3>5. \A o \in Ops : HomeOf[o] < home + 1 => Pending[o].status = "rolled-back"
      BY <2>1, <2>9, <3>4, PendingPlanned DEF Undoing
    <3>6. \A o \in Ops : HomeOf[o] < home' => Pending[o].status = "rolled-back"
      BY <2>4, <3>1, <3>2, <3>4, <3>5, BulkGoes
    <3> QED
      BY <2>1, <2>4, <2>5, <3>2, <3>3, <3>6
  <2> QED
    BY <2>1, <2>7, <2>8, <2>9 DEF UndoTasks
<1>10. CASE Resumes
  <2>1. task' = "in-progress" /\ \A o \in Ops : Verdict(o) = "ok"
    BY <1>10 DEF Resumes, UndoTasks
  <2>2. \A o \in Ops : Loaded[o].status # "ambiguous"
    BY <2>1 DEF Verdict
  <2>3. \A o \in Ops : Loaded[o].status = "rolled-back" => file[o] = Loaded[o].before
    BY <2>1 DEF Verdict
  <2> QED
    BY <1>10, <2>1, <2>2, <2>3, LoadedOK DEF Resumes, EntryOK, disk
<1> QED
  BY <1>4, <1>5, <1>6, <1>7, <1>8, <1>9, <1>10, ActiveStep

-----------------------------------------------------------------------------
(* The decision. *)

\* Every home has operations, so one sealed home tells the outcome.
LEMMA SealedTells ==
  ASSUME NEW h \in Homes, NEW f \in Finals, \A o \in OpsOf(h) : jent[o].status = f
  PROVE  FinalOf(h) = f
<1>1. PICK o \in Ops : o \in OpsOf(h)
  BY TransactionAssumption DEF OpsOf
<1> QED
  BY <1>1 DEF FinalOf, Finals

LEMMA DecidingStep ==
  /\ TypeOK /\ Flow /\ Entries /\ MemoryAhead /\ Applying /\ Undoing /\ Deciding
  /\ DecisionUniform /\ [Next]_vars
  => Deciding'
<1> SUFFICES ASSUME TypeOK, Flow, Entries, MemoryAhead, Applying, Undoing, Deciding,
                    DecisionUniform, [Next]_vars
             PROVE  Deciding'
  OBVIOUS
<1> USE DEF CasPcs, WritePcs, ActivePcs
<1>1. op \in Ops /\ op \in Nat /\ \A o \in Ops : o \in Nat
  BY DEF TypeOK, CtlOK, Ops
<1>2. \A o \in Ops : o \notin touched' =>
        /\ o \notin touched
        /\ file'[o] = file[o] \/ (o = op /\ pc \in CasPcs)
  BY FilesStay
<1>3. ASSUME pc \notin CasPcs
      PROVE  (AllAfter => AllAfter') /\ (AllBefore => AllBefore')
  BY <1>2, <1>3 DEF AllAfter, AllBefore, Untouched
<1>4. ASSUME Decided("applied") \/ Decided("rolled-back")
      PROVE  \/ AllAfter /\ Decided("applied")
             \/ AllBefore /\ Decided("rolled-back")
  <2>1. PICK f \in Finals, h \in Present : Sealed(h) /\ Uniform(Loaded, f) /\ Decided(f)
    BY <1>4 DEF Decided, Finals
  <2>2. h \in Homes /\ \A o \in OpsOf(h) : o \in OpsPresent /\ HomeOf[o] = h /\ o \in Ops
    BY <2>1 DEF Present, OpsOf, OpsPresent
  <2>3. \A o \in OpsOf(h) : Loaded[o] = jent[o]
    BY <2>1, <2>2, Zenon DEF Loaded
  <2>4. FinalOf(h) = f
    BY <2>1, <2>2, <2>3, SealedTells DEF Uniform
  <2> QED
    BY <2>1, <2>4 DEF DecisionUniform, Finals
<1>5. ASSUME pc' \in ActivePcs, task' \in {"seal", "cleanup"}, ~err'
      PROVE  \/ AllAfter' /\ \A o \in Ops : ment'[o].status = "applied"
             \/ AllBefore' /\ mode' # "apply" /\ \A o \in Ops : ment'[o].status = "rolled-back"
  <2>1. CASE Continues \/ Seals
    <3>1. pc \in ActivePcs /\ pc \notin CasPcs /\ task \in {"seal", "cleanup"} /\ ~err
          /\ UNCHANGED <<ment, mode>>
      BY <1>5, <2>1 DEF Continues, Seals, Flow
    <3> QED
      BY <1>3, <3>1 DEF Deciding
  <2>2. CASE Mutated \/ FoundBefore \/ RollsBack \/ GoesOn \/ Starts
    BY <1>5, <2>2 DEF Mutated, FoundBefore, RollsBack, GoesOn, Starts, ToApply, Goto
  <2>3. CASE JournalInstall
    <3>1. pc = "install" /\ ment' = Pending /\ UNCHANGED mode /\ ~err
      BY <1>5, <2>3 DEF JournalInstall
    <3>2. CASE task = "cleanup"
      <4>1. ment' = ment
        BY <3>1, <3>2, PendingPlanned, FirstOnes
      <4> QED
        BY <1>3, <3>1, <3>2, <4>1 DEF Deciding
    <3>3. CASE task \in ApplyTasks
      <4>1. task = "applied" /\ op = NumOps
        BY <1>5, <2>3, <3>3 DEF JournalInstall, AfterJournal, ToApply, Goto, ApplyTasks
      <4>2. \A o \in Ops : o < op \/ o = op
        BY <4>1, TransactionAssumption DEF Ops
      <4>3. \A o \in Ops : Pending[o].status = IF o = op THEN "applied" ELSE ment[o].status
        BY <4>1, PendingPlanned
      <4>4. \A o \in Ops : Pending[o].status = "applied"
        BY <3>1, <3>3, <4>2, <4>3 DEF Applying
      <4>5. AllAfter
        BY <3>1, <4>1, <4>2 DEF Applying, AllAfter, LooksAfter, Untouched, ApplyTasks
      <4> QED
        BY <1>3, <3>1, <4>4, <4>5
    <3>4. CASE task \in UndoTasks
      <4>1. mode # "apply"
        BY <3>4 DEF Flow
      <4>2. \A o \in Ops : Pending[o].status # "ambiguous"
        BY <3>1, <3>4, PendingPlanned DEF Undoing, UndoTasks, Flow
      <4>3. task # "ambiguous"
        BY <3>1 DEF Flow
      <4>4. ToBulk(1, Pending) \/ (task = "bulk" /\ ToBulk(home + 1, Pending))
        <5>2. task' \notin {"in-progress", "reverse"}
          BY <1>5
        <5>3. AfterJournal(Pending)
          BY <2>3 DEF JournalInstall
        <5>4. CASE task = "in-progress"
          <6>1. ToReverse(NumOps, Pending)
            BY <5>2, <5>3, <5>4 DEF AfterJournal, Goto
          <6> QED
            BY <5>2, <6>1 DEF ToReverse, Goto
        <5>5. CASE task \in {"rolled-back", "ambiguous"}
          <6>1. ToReverse(op - 1, Pending)
            BY <5>3, <5>5 DEF AfterJournal
          <6> QED
            BY <5>2, <6>1 DEF ToReverse, Goto
        <5>6. CASE task = "bulk"
          BY <5>3, <5>6 DEF AfterJournal
        <5>7. task # "reverse"
          BY <3>1 DEF Flow
        <5> QED
          BY <3>4, <5>4, <5>5, <5>6, <5>7 DEF UndoTasks
      <4>5. home + 1 \in Nat \ {0} /\ 1 \in Nat \ {0} /\ task' # "bulk"
        BY <1>5, NextHome DEF TypeOK
      <4>6. \A o \in Ops : HomeOf[o] \in Nat /\ HomeOf[o] >= 1 /\ home \in Nat
        BY HomeOfOp DEF Homes, TypeOK, CtlOK
      <4>7. ASSUME NEW o \in Ops PROVE Pending[o].status = "rolled-back"
        <5>3. task = "bulk" /\ HomeOf[o] < home => ment[o].status = "rolled-back"
          BY <3>1, <3>4 DEF Undoing
        <5>4. task = "bulk" => Pending[o].status = IF HomeOf[o] = home THEN "rolled-back" ELSE ment[o].status
          BY PendingPlanned
        <5>1. CASE ToBulk(1, Pending)
          BY <4>2, <4>5, <4>6, <5>1, BulkGoes
        <5>2. CASE task = "bulk" /\ ToBulk(home + 1, Pending)
          <6>1. HomeOf[o] < home + 1 \/ Pending[o].status = "rolled-back"
            BY <4>2, <4>5, <5>2, BulkGoes
          <6> QED
            BY <4>6, <5>2, <5>3, <5>4, <6>1
        <5> QED
          BY <4>4, <5>1, <5>2
      <4>8. ASSUME NEW o \in Untouched PROVE LooksBefore(o, file[o])
        <5>1. o \in Ops /\ ment[o] \in Entry
          BY DEF Untouched, TypeOK, MemOK
        <5>2. CASE ment[o].status = "rolled-back"
          BY <3>1, <3>4, <5>2 DEF Undoing
        <5>3. CASE ment[o].status = "planned"
          BY <3>1, <5>3 DEF MemoryAhead, LooksBefore, Before
        <5>4. CASE task = "rolled-back" /\ o = op
          BY <3>1, <3>4, <5>4 DEF Undoing
        <5>5. Open(o) => task = "rolled-back" /\ o = op
          BY <3>1, <3>4, <4>3, <4>7, <5>1, PendingPlanned DEF Undoing, UndoTasks, Open
        <5>6. ment[o].status # "ambiguous"
          BY <3>1, <3>4, <5>1 DEF Undoing
        <5> QED
          BY <5>1, <5>2, <5>3, <5>4, <5>5, <5>6 DEF Entry, Statuses, Open
      <4> QED
        BY <1>3, <3>1, <4>1, <4>7, <4>8 DEF AllBefore
    <3> QED
      BY <3>1, <3>2, <3>3, <3>4 DEF Flow, ApplyTasks, UndoTasks
  <2>4. CASE Resumes
    <3>1. \E f \in Finals : Decided(f) /\ mode' = "seal" /\ ment' = Loaded /\ UNCHANGED file /\ pc = "down"
      BY <1>5, <2>4 DEF Resumes, disk, Recover
    <3>2. \A o \in Ops : o \in OpsPresent
      BY <2>4, HomeOfOp DEF Resumes, OpsPresent
    <3> QED
      BY <1>3, <1>4, <3>1, <3>2 DEF Decided, Uniform, Finals
  <2> QED
    BY <1>5, <2>1, <2>2, <2>3, <2>4, ActiveStep
<1>6. ASSUME pc' \in {"remove", "unlink", "marks"}
      PROVE  AllAfter' \/ (AllBefore' /\ mode' # "apply")
  <2>1. CASE pc \in {"remove", "unlink", "marks"} /\ UNCHANGED mode
    BY <1>3, <2>1 DEF Deciding
  <2>2. CASE JournalInstall
    <3>1. task = "cleanup" /\ pc = "install" /\ UNCHANGED mode
      BY <1>6, <2>2 DEF JournalInstall, AfterJournal, ToApply, ToReverse, ToBulk, CasEntry, Goto
    <3>2. ~err
      BY <3>1 DEF Flow, UndoTasks
    <3> QED
      BY <1>3, <3>1, <3>2 DEF Deciding
  <2>3. CASE Recover
    <3>1. pc = "down" /\ (Decided("applied") \/ Decided("rolled-back")) /\ mode' = "seal"
      BY <1>6, <2>3 DEF Recover, Resume, End, Goto, Finals
    <3> QED
      BY <1>3, <1>4, <3>1
  <2>4. CASE LinkBackup \/ RemoveBackup \/ RemoveJournal \/ UserEdit \/ UNCHANGED vars
    BY <1>6, <2>1, <2>4 DEF LinkBackup, RemoveBackup, RemoveJournal, UserEdit, vars, ctl, mem
  <2>5. ASSUME NEW f, Raise(f), pc \in ActivePcs \cup {"create", "remove", "unlink"} PROVE FALSE
    BY <1>6, <2>5, RaiseGoes DEF End, Goto
  <2>6. CASE Prepare \/ CreateJournal \/ Unprepare \/ RemoveMarks \/ Crash \/ Stage
    BY <1>6, <2>5, <2>6 DEF Prepare, CreateJournal, Unprepare, RemoveMarks, Crash, Stage, End,
       Goto, ToApply, ctl, Flow
  <2>7. CASE RootOpen \/ RootRefused \/ RootWrite \/ JournalDetach \/ Reverse
    BY <1>6, <2>5, <2>7 DEF RootOpen, RootRefused, RootWrite, JournalDetach, Reverse, AfterSeal,
       CasEntry, Goto
  <2>8. CASE Cas
    BY <1>6, <2>5, <2>8, CasGoes DEF Cas, CasLink, CasLook, CasUnlink, CasInstall, CasSettle, CasStep
  <2>9. CASE FaultBefore \/ FaultAfter
    BY <2>5, <2>9 DEF FaultBefore, FaultAfter
  <2> QED
    BY <2>2, <2>3, <2>4, <2>6, <2>7, <2>8, <2>9 DEF Next, Process
<1> QED
  BY <1>5, <1>6 DEF Deciding

-----------------------------------------------------------------------------
(* What the disk promises. *)

LEMMA AfterDiffers == \A o \in Ops : After(o) # Before(o)
BY TransactionAssumption DEF After, Before, Kinds

LEMMA SidesApart == \A o \in Ops : \A f : ~(LooksBefore(o, f) /\ LooksAfter(o, f))
BY TransactionAssumption DEF LooksBefore, LooksAfter, After, Kinds

\* A journal is removed for good, or has lost its name.
Unlinked == /\ pc = "remove" \/ (pc = "install" /\ "journal" \in windows')
            /\ jrb' = [jrb EXCEPT ![home] = "none"] /\ UNCHANGED jent

\* Which steps store, create or remove journals.
LEMMA JournalsStay ==
  ASSUME TypeOK, [Next]_vars
  PROVE  /\ \/ UNCHANGED <<jrb, jent>>
            \/ pc = "create" /\ LinkJournal
            \/ pc = "install" /\ InstallJournal
            \/ Unprepare \/ Unlinked
         /\ windows \subseteq windows'
<1> USE DEF disk, bounds
<1>1. CASE Prepare \/ RootOpen \/ RootRefused \/ RootWrite \/ JournalDetach
  BY <1>1 DEF Prepare, RootOpen, RootRefused, RootWrite, JournalDetach
<1>2. CASE Cas
  BY <1>2 DEF Cas, CasLink, CasLook, CasUnlink, CasInstall, CasSettle, CasStep, MayLeaveName
<1>3. CASE Reverse \/ Stage \/ LinkBackup \/ RemoveBackup \/ RemoveMarks
  BY <1>3 DEF Reverse, Stage, LinkBackup, RemoveBackup, RemoveMarks
<1>4. CASE Recover \/ FaultBefore \/ UserEdit \/ UNCHANGED vars
  BY <1>4 DEF Recover, FaultBefore, MayLeaveName, UserEdit, vars
<1>5. CASE CreateJournal \/ JournalInstall
  BY <1>5 DEF CreateJournal, JournalInstall
<1>6. CASE FaultAfter
  BY <1>6 DEF FaultAfter, MayLeaveName
<1>7. CASE Unprepare
  BY <1>7 DEF Unprepare
<1>8. CASE RemoveJournal
  BY <1>8 DEF RemoveJournal, Unlinked
<1>9. CASE Crash
  BY <1>9, Killed DEF Unlinked
<1> QED
  BY <1>1, <1>2, <1>3, <1>4, <1>5, <1>6, <1>7, <1>8, <1>9 DEF Next, Process

LEMMA JournaledStep ==
  TypeOK /\ Flow /\ Standing /\ Journaled /\ WriteAhead /\ [Next]_vars => Journaled'
<1> SUFFICES ASSUME TypeOK, Flow, Standing, Journaled, WriteAhead, [Next]_vars,
                    pc' \in CasPcs, op' \notin touched'
             PROVE  jent'[op'].status # "planned"
  BY DEF Journaled, Untouched
<1> USE DEF CasPcs, WritePcs, ActivePcs, Goto
<1>1. op \in Ops /\ (op \notin touched' => op \notin touched)
  BY FilesStay DEF TypeOK, CtlOK
<1>2. ~\E status : End(status)
  BY DEF End
<1>3. ASSUME NEW f, Raise(f), pc \in ActivePcs \cup {"create", "remove", "unlink"} PROVE FALSE
  BY <1>2, <1>3, RaiseGoes
<1>4. CASE Cas
  <2>1. pc \in CasPcs /\ op' = op /\ UNCHANGED jent
    BY <1>3, <1>4, CasGoes DEF Cas, CasLink, CasLook, CasUnlink, CasInstall, CasSettle, CasStep
  <2> QED
    BY <1>1, <2>1 DEF Journaled, Untouched
<1>5. CASE JournalInstall
  <2>1. task = "applying" /\ op' = op /\ pc = "install"
    BY <1>5 DEF JournalInstall, AfterJournal, ToApply, ToReverse, ToBulk
  <2>2. HomeOf[op] = home
    BY <2>1 DEF Flow, OpTasks, ApplyTasks
  <2>3. jent'[op] = Pending[op]
    BY <1>1, <1>5, <2>2 DEF JournalInstall, InstallJournal
  <2>4. Pending[op].status = "applying"
    BY <1>1, <2>1, PendingPlanned
  <2> QED
    BY <2>1, <2>3, <2>4
<1>6. CASE Reverse
  <2>1. op' = op /\ UNCHANGED jent /\ LooksAfter(op, file[op]) /\ pc = "reverse"
    BY <1>3, <1>6 DEF Reverse, disk
  <2>2. Dirty(op)
    BY <1>1, <2>1, AfterDiffers DEF Dirty, Untouched, LooksAfter
  <2>3. "journal" \notin windows /\ Present = Homes
    BY <2>1 DEF Standing
  <2> QED
    BY <1>1, <2>1, <2>2, <2>3, HomeOfOp DEF WriteAhead
<1>7. CASE UserEdit \/ UNCHANGED vars
  BY <1>1, <1>7 DEF UserEdit, vars, ctl, disk, Journaled, Untouched
<1>8. CASE Prepare \/ CreateJournal \/ Unprepare \/ RootOpen \/ RootWrite \/ Recover
  BY <1>2, <1>8 DEF Prepare, CreateJournal, Unprepare, RootOpen, RootWrite, AfterSeal, Recover,
     Resume, ToApply, ctl
<1>9. CASE RootRefused \/ JournalDetach \/ Stage \/ FaultBefore \/ FaultAfter
  BY <1>2, <1>3, <1>9 DEF RootRefused, JournalDetach, Stage, FaultBefore, FaultAfter
<1>10. CASE LinkBackup \/ RemoveBackup \/ RemoveJournal \/ RemoveMarks \/ Crash
  BY <1>2, <1>10 DEF LinkBackup, RemoveBackup, RemoveJournal, RemoveMarks, Crash, ctl
<1> QED
  BY <1>4, <1>5, <1>6, <1>7, <1>8, <1>9, <1>10 DEF Next, Process

LEMMA WriteAheadStep ==
  /\ TypeOK /\ Flow /\ Standing /\ Clearing /\ StartClean /\ MemoryAhead /\ Journaled
  /\ WriteAhead /\ [Next]_vars
  => WriteAhead'
<1> SUFFICES ASSUME TypeOK, Flow, Standing, Clearing, StartClean, MemoryAhead, Journaled,
                    WriteAhead, [Next]_vars,
                    NEW o \in Ops, o \notin touched', file'[o] # Before(o),
                    "journal" \notin windows'
             PROVE  \/ HomeOf[o] \in Present' /\ jent'[o].status # "planned"
                    \/ HomeOf[o] \notin Present' /\ \A h \in Present' : Sealed(h)'
  BY DEF WriteAhead, Dirty, Untouched
<1> USE DEF CasPcs, WritePcs, ActivePcs, Goto
<1>1. /\ jrb \in [Homes -> {"none", "not-started", "in-progress", "cleanup"}]
      /\ home \in Homes /\ HomeOf[o] \in Homes /\ op \in Ops
  BY HomeOfOp DEF TypeOK, DiskOK, CtlOK
<1>2. o \notin touched /\ (file'[o] = file[o] \/ (o = op /\ pc \in CasPcs /\ (Cas \/ FaultBefore)))
  BY FilesStay
<1>3. CASE pc \in CasPcs
  <2>1. o = op => jent[o].status # "planned" /\ HomeOf[o] \in Present
    BY <1>1, <1>2, <1>3 DEF Journaled, Untouched, Standing
  <2>2. Dirty(o) => jent[o].status # "planned" /\ HomeOf[o] \in Present
    BY <1>1, <1>3 DEF Standing, WriteAhead
  <2>3. UNCHANGED <<jrb, jent>>
    BY <1>3, JournalsStay DEF Unprepare, Unlinked
  <2> QED
    BY <1>2, <2>1, <2>2, <2>3 DEF Present, Dirty, Untouched
<1>4. CASE pc \notin CasPcs
  <2>1. Dirty(o) /\ pc \notin {"start", "create", "unprepare"}
    BY <1>2, <1>4 DEF Dirty, Untouched, StartClean
  <2> "journal" \notin windows
    BY JournalsStay
  <2>2. CASE UNCHANGED <<jrb, jent>>
    BY <2>1, <2>2 DEF WriteAhead, Present, Sealed
  <2>3. CASE pc = "install" /\ InstallJournal
    <3>1. NewStatus # "none"
      BY DEF NewStatus
    <3>2. Present' = Homes
      BY <1>1, <2>3, <3>1 DEF InstallJournal, Present, Standing
    <3>3. jent'[o].status = "planned" => HomeOf[o] = home /\ Pending[o].status = "planned"
      BY <1>1, <2>1, <2>3 DEF InstallJournal, WriteAhead, Standing
    <3>4. Pending[o].status # "planned"
      BY <1>2, <2>1, <2>3, PendingPlanned DEF MemoryAhead, Dirty
    <3> QED
      BY <1>1, <3>2, <3>3, <3>4
  <2>4. CASE Unlinked
    <3>1. jrb' = [jrb EXCEPT ![home] = "none"] /\ UNCHANGED jent /\ pc = "remove"
      BY <2>4 DEF Unlinked
    <3>2. \A h \in Present' : Sealed(h)'
      BY <1>1, <3>1 DEF Clearing, Present, Sealed
    <3>3. HomeOf[o] \in Present' => HomeOf[o] \in Present
      BY <1>1, <3>1 DEF Present
    <3> QED
      BY <2>1, <3>1, <3>2, <3>3 DEF WriteAhead
  <2>5. CASE Unprepare \/ pc = "create"
    BY <2>1, <2>5 DEF Unprepare
  <2> QED
    BY <2>2, <2>3, <2>4, <2>5, <2>5, JournalsStay
<1> QED
  BY <1>3, <1>4

LEMMA BackupKeptStep ==
  /\ TypeOK /\ Flow /\ Standing /\ Clearing /\ StartClean /\ BackupsHeld /\ SealInv
  /\ BackupKept /\ [Next]_vars
  => BackupKept'
<1> SUFFICES ASSUME TypeOK, Flow, Standing, Clearing, StartClean, BackupsHeld, SealInv,
                    BackupKept, [Next]_vars,
                    NEW h \in Homes, jrb'[h] \notin {"none", "cleanup"},
                    NEW o \in Ops, o \notin touched', file'[o] # Before(o), HasBackup(o)
             PROVE  backup'[o]
  BY DEF BackupKept, Dirty, Untouched, Present, Sealed
<1> USE DEF CasPcs, WritePcs, ActivePcs, Goto
<1>1. /\ jrb \in [Homes -> {"none", "not-started", "in-progress", "cleanup"}]
      /\ home \in Homes /\ op \in Ops
  BY DEF TypeOK, DiskOK, CtlOK
<1>2. o \notin touched /\ (file'[o] = file[o] \/ (o = op /\ pc \in CasPcs /\ (Cas \/ FaultBefore)))
  BY FilesStay
<1>3. CASE pc \in CasPcs
  <2>1. backup[o]
    BY <1>3 DEF BackupsHeld, Flow
  <2>2. UNCHANGED backup
    BY <1>3 DEF Next, Process, Prepare, CreateJournal, Unprepare, RootOpen, RootRefused, RootWrite,
       JournalDetach, JournalInstall, Cas, CasLink, CasLook, CasUnlink, CasInstall, CasSettle, CasStep,
       Reverse, Stage, LinkBackup, RemoveBackup, RemoveJournal, RemoveMarks, Recover, FaultBefore,
       FaultAfter, Crash, UserEdit, vars, disk
  <2> QED
    BY <2>1, <2>2
<1>4. CASE pc \notin CasPcs
  <2>1. Dirty(o) /\ pc \notin {"start", "create", "unprepare"}
    BY <1>2, <1>4 DEF Dirty, Untouched, StartClean
  <2>2. \E g \in Present : ~Sealed(g)
    <3>1. CASE UNCHANGED jrb
      BY <3>1 DEF Present, Sealed
    <3>2. CASE pc = "install" /\ InstallJournal
      <4>1. CASE task = "cleanup"
        BY <1>1, <3>2, <4>1 DEF InstallJournal, NewStatus, Present, Sealed
      <4>2. CASE task # "cleanup"
        BY <3>2, <4>2 DEF SealInv, Standing
      <4> QED
        BY <4>1, <4>2
    <3>3. CASE Unlinked
      BY <1>1, <3>3 DEF Unlinked, Present, Sealed
    <3> QED
      BY <2>1, <3>1, <3>2, <3>3, JournalsStay DEF Unprepare
  <2>3. backup[o]
    BY <2>1, <2>2 DEF BackupKept
  <2>4. pc \notin {"remove", "unlink"}
    BY <2>2 DEF Clearing
  <2>5. UNCHANGED backup
    BY <2>1, <2>4 DEF Next, Process, Prepare, CreateJournal, Unprepare, RootOpen, RootRefused, RootWrite,
       JournalDetach, JournalInstall, Cas, CasLink, CasLook, CasUnlink, CasInstall, CasSettle, CasStep,
       Reverse, Stage, LinkBackup, RemoveBackup, RemoveJournal, RemoveMarks, Recover, FaultBefore,
       FaultAfter, Crash, UserEdit, vars, disk
  <2> QED
    BY <2>3, <2>5
<1> QED
  BY <1>3, <1>4

LEMMA DecisionStep ==
  /\ TypeOK /\ Flow /\ SealInv /\ Deciding /\ DecisionUniform /\ [Next]_vars
  => DecisionUniform'
<1> SUFFICES ASSUME TypeOK, Flow, SealInv, Deciding, DecisionUniform, [Next]_vars,
                    NEW h \in Homes, jrb'[h] = "cleanup"
             PROVE  IF FinalOf(h)' = "applied" THEN AllAfter' ELSE AllBefore'
  BY DEF DecisionUniform, Present, Sealed
<1> USE DEF CasPcs, WritePcs, ActivePcs, Goto
<1>1. /\ jrb \in [Homes -> {"none", "not-started", "in-progress", "cleanup"}]
      /\ home \in Homes /\ op \in Ops
  BY DEF TypeOK, DiskOK, CtlOK
<1>2. \A o \in Ops : o \notin touched' =>
        o \notin touched /\ (file'[o] = file[o] \/ (o = op /\ pc \in CasPcs))
  BY FilesStay
<1>3. ASSUME pc \notin CasPcs
      PROVE  (AllAfter => AllAfter') /\ (AllBefore => AllBefore')
  BY <1>2, <1>3 DEF AllAfter, AllBefore, Untouched
<1>4. CASE jrb[h] = "cleanup" /\ \A o \in OpsOf(h) : jent'[o] = jent[o]
  <2>1. FinalOf(h)' = FinalOf(h)
    BY <1>4 DEF FinalOf
  <2>2. pc \notin CasPcs
    BY <1>4 DEF SealInv, Present, Sealed
  <2> QED
    BY <1>3, <1>4, <2>1, <2>2 DEF DecisionUniform, Present, Sealed
<1>5. CASE task = "cleanup" /\ h = home /\ pc = "install" /\ InstallJournal
  <2>1. ~err
    BY <1>5 DEF Flow, UndoTasks
  <2>2. \A o \in OpsOf(h) : jent'[o] = ment[o] /\ o \in Ops
    BY <1>5, PendingPlanned DEF InstallJournal, OpsOf
  <2>3. CASE AllAfter /\ \A o \in Ops : ment[o].status = "applied"
    <3>1. FinalOf(h)' = "applied"
      BY <2>2, <2>3 DEF FinalOf
    <3> QED
      BY <1>3, <1>5, <2>3, <3>1
  <2>4. CASE AllBefore /\ \A o \in Ops : ment[o].status = "rolled-back"
    <3>1. PICK o \in Ops : o \in OpsOf(h)
      BY TransactionAssumption DEF OpsOf
    <3>2. FinalOf(h)' # "applied"
      BY <2>2, <2>4, <3>1 DEF FinalOf
    <3> QED
      BY <1>3, <1>5, <2>4, <3>2
  <2> QED
    BY <1>5, <2>1, <2>3, <2>4 DEF Deciding
<1>6. CASE UNCHANGED <<jrb, jent>>
  BY <1>4, <1>6
<1>7. CASE pc = "install" /\ InstallJournal
  <2>1. CASE h = home
    BY <1>1, <1>5, <1>7, <2>1 DEF InstallJournal, NewStatus
  <2>2. CASE h # home
    <3>1. jrb[h] = "cleanup"
      BY <1>1, <1>7, <2>2 DEF InstallJournal
    <3>2. \A o \in OpsOf(h) : jent'[o] = jent[o]
      BY <1>7, <2>2 DEF InstallJournal, OpsOf
    <3> QED
      BY <1>4, <3>1, <3>2
  <2> QED
    BY <2>1, <2>2
<1>8. CASE pc = "create" /\ LinkJournal
  <2>1. jrb[h] = "cleanup"
    BY <1>1, <1>8 DEF LinkJournal
  <2> QED
    BY <1>8, <2>1 DEF SealInv, Present, Sealed
<1>9. CASE Unprepare \/ Unlinked
  BY <1>1, <1>4, <1>9 DEF Unprepare, Unlinked
<1> QED
  BY <1>6, <1>7, <1>8, <1>9, JournalsStay

-----------------------------------------------------------------------------
(* What is reported, and what is left when nobody runs. *)

LEMMA ReportedStep ==
  TypeOK /\ Flow /\ Clearing /\ Deciding /\ Reported /\ [Next]_vars => Reported'
<1> SUFFICES ASSUME TypeOK, Flow, Clearing, Deciding, Reported, [Next]_vars, exit' = "success"
             PROVE  pc' = "down" /\ Present' = {} /\ AllAfter'
  BY DEF Reported
<1> USE DEF CasPcs, WritePcs, ActivePcs, Goto
<1>1. ASSUME pc \notin CasPcs
      PROVE  AllAfter => AllAfter'
  BY <1>1, FilesStay DEF AllAfter, Untouched
<1>2. CASE RemoveMarks
  <2>1. mode = "apply"
    BY <1>2 DEF RemoveMarks, End
  <2>2. pc = "marks" /\ pc' = "down" /\ UNCHANGED jrb
    BY <1>2 DEF RemoveMarks, End
  <2> QED
    BY <1>1, <2>1, <2>2 DEF Deciding, Clearing, Present
<1>3. CASE ~RemoveMarks
  <2>1. ASSUME NEW f, Raise(f), pc \in ActivePcs \cup {"create", "remove", "unlink"}
        PROVE  UNCHANGED exit
    BY <2>1, RaiseGoes DEF End
  <2>2. UNCHANGED exit
    <3>1. CASE Prepare \/ CreateJournal \/ Unprepare \/ Crash
      BY <3>1 DEF Prepare, CreateJournal, Unprepare, Crash, End
    <3>2. CASE RootOpen \/ RootRefused \/ RootWrite \/ JournalDetach \/ JournalInstall
      BY <2>1, <3>2 DEF RootOpen, RootRefused, RootWrite, JournalDetach, JournalInstall
    <3>3. CASE Cas
      BY <2>1, <3>3, CasGoes DEF Cas, CasLink, CasLook, CasUnlink, CasInstall, CasSettle, CasStep
    <3>4. CASE Reverse \/ Stage \/ LinkBackup \/ RemoveBackup \/ RemoveJournal
      BY <2>1, <3>4 DEF Reverse, Stage, LinkBackup, RemoveBackup, RemoveJournal, End
    <3>5. CASE Recover
      <4>1. \A o : Verdict(o) # "success"
        BY DEF Verdict
      <4> QED
        BY <3>5, <4>1 DEF Recover, Resume, End
    <3>6. CASE FaultBefore \/ FaultAfter
      BY <2>1, <3>6 DEF FaultBefore, FaultAfter
    <3>7. CASE UserEdit \/ UNCHANGED vars
      BY <3>7 DEF UserEdit, vars
    <3> QED
      BY <1>3, <3>1, <3>2, <3>3, <3>4, <3>5, <3>6, <3>7 DEF Next, Process
  <2>3. pc = "down" /\ Present = {} /\ AllAfter
    BY <2>2 DEF Reported
  <2>4. UserEdit \/ UNCHANGED vars
    BY <2>3 DEF Next, Process, Prepare, CreateJournal, Unprepare, RootOpen, RootRefused, RootWrite,
       JournalDetach, JournalInstall, Cas, CasLink, CasLook, CasUnlink, CasInstall, CasSettle, CasStep,
       Reverse, Stage, LinkBackup, RemoveBackup, RemoveJournal, RemoveMarks, Recover, FaultBefore,
       FaultAfter, Crash, Running, End
  <2>5. UNCHANGED <<pc, jrb>>
    BY <2>4 DEF UserEdit, vars, ctl, disk
  <2> QED
    BY <1>1, <2>3, <2>5 DEF Present
<1> QED
  BY <1>2, <1>3

LEMMA SettledStep ==
  /\ TypeOK /\ Flow /\ Standing /\ StartClean /\ Deciding /\ SettledAtomic /\ [Next]_vars
  => SettledAtomic'
<1> SUFFICES ASSUME TypeOK, Flow, Standing, StartClean, Deciding, SettledAtomic, [Next]_vars,
                    pc' = "down", Present' = {}, "journal" \notin windows'
             PROVE  AllBefore' \/ AllAfter'
  BY DEF SettledAtomic
<1> USE DEF CasPcs, WritePcs, ActivePcs
<1>1. /\ jrb \in [Homes -> {"none", "not-started", "in-progress", "cleanup"}]
      /\ home \in Homes /\ 1 \in Homes
  BY FirstOnes DEF TypeOK, DiskOK, CtlOK
<1>2. ASSUME pc \notin CasPcs
      PROVE  (AllAfter => AllAfter') /\ (AllBefore => AllBefore')
  BY <1>2, FilesStay DEF AllAfter, AllBefore, Untouched
<1>3. CASE pc \in ActivePcs
  <2>1. Present = Homes
    BY <1>3 DEF Standing
  <2>2. CASE UNCHANGED jrb
    BY <1>1, <2>1, <2>2 DEF Present
  <2>3. CASE pc = "install" /\ InstallJournal
    BY <1>1, <2>1, <2>3 DEF Present, InstallJournal, NewStatus
  <2> QED
    BY <1>3, <2>2, <2>3, JournalsStay DEF Unprepare, Unlinked
<1>4. CASE pc \in {"start", "create", "unprepare"}
  <2>1. AllBefore
    BY <1>4 DEF StartClean, AllBefore, Dirty, Untouched, LooksBefore, Before
  <2> QED
    BY <1>2, <1>4, <2>1
<1>5. CASE pc \in {"remove", "unlink", "marks"}
  BY <1>2, <1>5 DEF Deciding
<1>6. CASE pc = "down"
  <2>1. UNCHANGED <<jrb, windows>>
    BY <1>6 DEF Next, Process, Prepare, CreateJournal, Unprepare, RootOpen, RootRefused, RootWrite,
       JournalDetach, JournalInstall, Cas, CasLink, CasLook, CasUnlink, CasInstall, CasSettle, CasStep,
       Reverse, Stage, LinkBackup, RemoveBackup, RemoveJournal, RemoveMarks, Recover, FaultBefore,
       FaultAfter, Crash, Running, UserEdit, vars, disk, bounds
  <2> QED
    BY <1>2, <1>6, <2>1 DEF SettledAtomic, Present
<1> QED
  BY <1>3, <1>4, <1>5, <1>6 DEF TypeOK, CtlOK, Pcs

-----------------------------------------------------------------------------
(* The invariant. *)

\* What holds of the journals, of memory and of the files at every moment.
Consistent ==
  /\ Flow /\ SealInv /\ Standing /\ Clearing /\ BackupsHeld /\ Entries
  /\ StartClean /\ MemoryAhead /\ Applying /\ Undoing /\ Deciding /\ Journaled /\ Reported

\* What the disk promises whoever reads it next.
Promised == WriteAhead /\ BackupKept /\ DecisionUniform /\ SettledAtomic

AtomicInv == Consistent /\ Promised

LEMMA AtomicInit == Init => AtomicInv
<1> SUFFICES ASSUME Init PROVE AtomicInv
  OBVIOUS
<1> USE DEF Init, CasPcs, WritePcs, ActivePcs
<1>1. Present = {} /\ \A o \in Ops : ~Dirty(o) /\ ment[o].status = "planned"
  BY DEF Present, Dirty, Planned, Untouched
<1>2. Flow
  BY DEF Flow, ApplyTasks, UndoTasks, OpTasks
<1>3. SealInv /\ Standing /\ Clearing /\ BackupsHeld
  BY <1>1 DEF SealInv, Standing, Clearing, BackupsHeld
<1>4. RootsOK(slot)
  BY DEF RootsOK, NoAnchor, IsProgress
<1>5. Entries
  BY <1>4, PlannedOK DEF Entries
<1>6. StartClean /\ MemoryAhead /\ Applying /\ Undoing /\ Deciding /\ Journaled /\ Reported
  BY <1>1 DEF StartClean, MemoryAhead, Applying, Undoing, Deciding, Journaled, Reported
<1>7. Promised
  BY <1>1 DEF Promised, WriteAhead, BackupKept, DecisionUniform, SettledAtomic
<1> QED
  BY <1>2, <1>3, <1>5, <1>6, <1>7 DEF AtomicInv, Consistent

LEMMA AtomicStep == TypeOK /\ AtomicInv /\ [Next]_vars => AtomicInv'
<1> SUFFICES ASSUME TypeOK, AtomicInv, [Next]_vars PROVE AtomicInv'
  OBVIOUS
<1> USE DEF AtomicInv, Consistent, Promised
<1>1. Flow' /\ SealInv' /\ Standing' /\ Clearing' /\ BackupsHeld' /\ Entries'
  BY FlowStep, SealStep, StandingStep, ClearingStep, BackupsStep, EntriesStep
<1>2. StartClean' /\ MemoryAhead' /\ Applying' /\ Undoing' /\ Deciding' /\ Journaled' /\ Reported'
  BY StartStep, MemoryAheadStep, ApplyingStep, UndoingStep, DecidingStep, JournaledStep,
     ReportedStep
<1>3. WriteAhead' /\ BackupKept' /\ DecisionUniform' /\ SettledAtomic'
  BY WriteAheadStep, BackupKeptStep, DecisionStep, SettledStep
<1> QED
  BY <1>1, <1>2, <1>3

\* The journals, the memory of the process and the files agree at every moment.
THEOREM JournalsTellTheFiles == Spec => []AtomicInv
BY AtomicInit, AtomicStep, TypeCorrect, PTL DEF Spec

\* Whatever is killed, raises or is edited, in any number and at any point but
\* while a journal has no name: once no journal is left and nobody runs, the
\* files the user left alone are all as before or all as after the transaction.
THEOREM Atomicity == Spec => []SettledAtomic
<1>1. AtomicInv => SettledAtomic
  BY DEF AtomicInv, Promised
<1> QED
  BY <1>1, JournalsTellTheFiles, PTL

\* From the first cleanup journal on the files of every home are as it says.
THEOREM OneDecision == Spec => []DecisionUniform
<1>1. AtomicInv => DecisionUniform
  BY DEF AtomicInv, Promised
<1> QED
  BY <1>1, JournalsTellTheFiles, PTL

\* No backup goes while a journal that could still be rolled back needs it.
THEOREM BackupsOutliveTheirUse == Spec => []BackupKept
<1>1. AtomicInv => BackupKept
  BY DEF AtomicInv, Promised
<1> QED
  BY <1>1, JournalsTellTheFiles, PTL

\* No file changes before its journal says so.
THEOREM JournalComesFirst == Spec => []WriteAhead
<1>1. AtomicInv => WriteAhead
  BY DEF AtomicInv, Promised
<1> QED
  BY <1>1, JournalsTellTheFiles, PTL

\* An installation that reports success has installed every file.
THEOREM SuccessIsReal == Spec => []SuccessMeansInstalled
<1>1. AtomicInv => SuccessMeansInstalled
  BY DEF AtomicInv, Consistent, Reported, SuccessMeansInstalled
<1> QED
  BY <1>1, JournalsTellTheFiles, PTL

-----------------------------------------------------------------------------
(***************************************************************************)
(* The journaled transaction implements AtomicCommit, for every number of  *)
(* homes and operations and every bound on crashes and faults, as long as  *)
(* the user edits no managed file while it is under way.                   *)
(***************************************************************************)
\* Nobody but the installer has changed managed files, and no process has died
\* while a journal had no name.
Quiet == edits = 0 /\ touched = {} /\ "journal" \notin windows

\* The outcome is decided: by a cleanup journal, or because no journal is left.
Closed ==
  \/ \E h \in Present : Sealed(h)
  \/ Present = {} /\ pc \notin {"start", "create"}

-----------------------------------------------------------------------------
(* The outcome and the files. *)

\* What is decided is one outcome for every file.
LEMMA ClosedIsUniform == TypeOK /\ AtomicInv /\ Quiet /\ Closed => AllAfter \/ AllBefore
<1> SUFFICES ASSUME TypeOK, AtomicInv, Quiet, Closed PROVE AllAfter \/ AllBefore
  OBVIOUS
<1> USE DEF AtomicInv, Consistent, Promised, Quiet
<1>1. CASE \E h \in Present : Sealed(h)
  BY <1>1 DEF DecisionUniform
<1>2. CASE Present = {} /\ pc \notin {"start", "create"}
  <2>1. pc \notin ActivePcs
    BY <1>2, FirstOnes DEF Standing
  <2>2. CASE pc = "down"
    BY <1>2, <2>2 DEF SettledAtomic
  <2>3. CASE pc = "unprepare"
    BY <2>3 DEF StartClean, AllBefore, Dirty, Untouched, LooksBefore, Before
  <2>4. CASE pc \in {"remove", "unlink", "marks"}
    BY <2>4 DEF Deciding
  <2> QED
    BY <1>2, <2>1, <2>2, <2>3, <2>4
       DEF TypeOK, CtlOK, Pcs, ActivePcs, WritePcs, CasPcs
<1> QED
  BY <1>1, <1>2 DEF Closed

\* The outcome a reader of the disk sees, and the files it stands for.
Told ==
  /\ ~Closed => Outcome = "open"
  /\ Closed /\ AllAfter => Outcome = "commit"
  /\ Closed /\ AllBefore => Outcome = "abort"
  /\ AllAfter => View = [o \in Ops |-> "after"]
  /\ AllBefore => View = [o \in Ops |-> "before"]

LEMMA OutcomeTells == TypeOK /\ AtomicInv /\ Quiet => Told
<1> SUFFICES ASSUME TypeOK, AtomicInv, Quiet PROVE Told
  OBVIOUS
<1>1. Untouched = Ops /\ 1 \in Ops
  BY FirstOnes DEF Untouched, Quiet
<1>2. ~(AllAfter /\ AllBefore)
  BY <1>1, SidesApart DEF AllAfter, AllBefore
<1>3. ASSUME NEW h \in Present, Sealed(h)
      PROVE  IF FinalOf(h) = "applied" THEN AllAfter ELSE AllBefore
  BY <1>3 DEF AtomicInv, Promised, DecisionUniform
<1>4. ~Closed => Outcome = "open"
  BY DEF Closed, Outcome
<1>5. Closed /\ AllAfter => Outcome = "commit"
  BY <1>1, <1>2, <1>3 DEF Closed, Outcome, AllAfter
<1>6. Closed /\ AllBefore => Outcome = "abort"
  BY <1>1, <1>2, <1>3, SidesApart DEF Closed, Outcome, AllBefore
<1>7. AllAfter => View = [o \in Ops |-> "after"]
  BY <1>1, SidesApart DEF AllAfter, View
<1>8. AllBefore => View = [o \in Ops |-> "before"]
  BY <1>1 DEF AllBefore, View
<1> QED
  BY <1>4, <1>5, <1>6, <1>7, <1>8 DEF Told

\* The same of the state after a step.
LEMMA NextIsUniform == (TypeOK /\ AtomicInv /\ Quiet /\ Closed => AllAfter \/ AllBefore)'
BY ClosedIsUniform, PTL

LEMMA NextTells == (TypeOK /\ AtomicInv /\ Quiet => Told)'
BY OutcomeTells, PTL

-----------------------------------------------------------------------------
(* Steps. *)

\* A step changes the file of one operation at most, and only while the
\* outcome is open before and after it.
LEMMA FilesMove ==
  ASSUME TypeOK, AtomicInv, [Next]_vars, UNCHANGED edits
  PROVE  \/ UNCHANGED file
         \/ /\ \E o \in Ops : \A p \in Ops : p # o => file'[p] = file[p]
            /\ ~Closed /\ ~Closed'
<1>1. CASE UNCHANGED file
  BY <1>1
<1>2. CASE UserEdit
  BY <1>2 DEF UserEdit, TypeOK, BoundsOK
<1>3. ASSUME pc \in CasPcs, UNCHANGED jrb
      PROVE  ~Closed /\ ~Closed'
  <2>1. Present = Homes /\ Present' = Homes /\ Homes # {}
    BY <1>3, FirstOnes DEF AtomicInv, Consistent, Standing, ActivePcs, Present
  <2>2. ~\E h \in Present : Sealed(h)
    BY <1>3 DEF AtomicInv, Consistent, SealInv, CasPcs
  <2> QED
    BY <1>3, <2>1, <2>2 DEF Closed, Sealed
<1>4. op \in Ops
  BY DEF TypeOK, CtlOK
<1>5. CASE Cas
  BY <1>3, <1>4, <1>5, CasTouches
     DEF CasPcs, Cas, CasLink, CasLook, CasUnlink, CasInstall, CasSettle, CasStep
<1>6. CASE FaultBefore
  BY <1>3, <1>4, <1>6, FaultTouches DEF CasPcs, FaultBefore
<1> QED
  BY <1>1, <1>2, <1>5, <1>6, OthersTouchNothing

\* What is decided stays decided.
LEMMA ClosedStays ==
  ASSUME TypeOK, AtomicInv, [Next]_vars, "journal" \notin windows', Closed
  PROVE  Closed'
<1> USE DEF AtomicInv, Consistent, Goto
<1>1. CASE \E h \in Present : Sealed(h)
  <2>1. /\ pc \in {"down", "detach", "install", "remove", "unlink", "marks"}
        /\ pc \in {"detach", "install"} => task = "cleanup"
    BY <1>1 DEF SealInv
  <2>2. ASSUME UNCHANGED jrb
        PROVE  Closed'
    BY <1>1, <2>2 DEF Closed, Present, Sealed
  <2>3. ASSUME pc = "install", InstallJournal
        PROVE  Closed'
    <3>1. jrb' = [jrb EXCEPT ![home] = "cleanup"]
      BY <2>1, <2>3 DEF InstallJournal, NewStatus
    <3> QED
      BY <1>1, <3>1 DEF Closed, Present, Sealed, TypeOK, DiskOK
  <2>4. CASE RemoveJournal
    <3>1. \A h \in Present : Sealed(h)
      BY <2>4 DEF RemoveJournal, Clearing
    <3>2. jrb' = [jrb EXCEPT ![home] = "none"]
      BY <2>4 DEF RemoveJournal
    <3>3. \A h \in Present' : Sealed(h)'
      BY <3>1, <3>2 DEF Present, Sealed, TypeOK, DiskOK
    <3>4. pc' \in {"remove", "unlink", "marks"}
      BY <2>4 DEF RemoveJournal
    <3> QED
      BY <3>3, <3>4 DEF Closed
  <2>5. CASE Crash
    <3>1. CASE UNCHANGED jrb
      BY <2>2, <3>1
    <3>2. CASE pc = "install" /\ InstallJournal
      BY <2>3, <3>2
    <3>3. CASE pc = "remove" /\ jrb' = [jrb EXCEPT ![home] = "none"]
      <4>1. \A h \in Present : Sealed(h)
        BY <3>3 DEF Clearing
      <4>2. \A h \in Present' : Sealed(h)'
        BY <3>3, <4>1 DEF Present, Sealed, TypeOK, DiskOK
      <4>3. pc' = "down"
        BY <2>5, Killed DEF End
      <4> QED
        BY <4>2, <4>3 DEF Closed
    <3> QED
      BY <2>1, <2>5, <3>1, <3>2, <3>3, Killed
  <2> QED
    BY <2>1, <2>2, <2>3, <2>4, <2>5 DEF Next, Process, Prepare, CreateJournal, Unprepare,
       RootOpen, RootRefused, RootWrite, JournalDetach, JournalInstall, Cas, CasLink,
       CasLook, CasUnlink, CasInstall, CasSettle, CasStep, Reverse, Stage, LinkBackup,
       RemoveBackup, RemoveMarks, Recover, FaultBefore, FaultAfter, UserEdit, vars, disk
<1>2. CASE Present = {} /\ pc \notin {"start", "create"}
  <2>1. pc \in {"unprepare", "remove", "unlink", "marks", "down"}
    <3>1. pc \notin ActivePcs
      BY <1>2, FirstOnes DEF Standing
    <3> QED
      BY <1>2, <3>1 DEF TypeOK, CtlOK, Pcs, ActivePcs, WritePcs, CasPcs
  <2>2. ASSUME UNCHANGED jrb, pc' \notin {"start", "create"}
        PROVE  Closed'
    BY <1>2, <2>2 DEF Closed, Present
  <2>3. ASSUME NEW h \in Homes, jrb' = [jrb EXCEPT ![h] = "none"], pc' \notin {"start", "create"}
        PROVE  Closed'
    BY <1>2, <2>3 DEF Closed, Present, TypeOK, DiskOK
  <2>4. CASE Unprepare
    BY <1>2, <2>2, <2>3, <2>4 DEF Unprepare, End, ctl
  <2>5. CASE RemoveJournal
    BY <2>3, <2>5 DEF RemoveJournal, TypeOK, CtlOK
  <2>6. CASE RemoveMarks
    BY <2>2, <2>6 DEF RemoveMarks, End
  <2>7. CASE LinkBackup \/ RemoveBackup \/ UserEdit \/ UNCHANGED vars
    BY <1>2, <2>2, <2>7 DEF LinkBackup, RemoveBackup, UserEdit, vars, disk, ctl
  <2>8. CASE FaultBefore
    <3>1. pc \in {"remove", "unlink"}
      BY <2>1, <2>8 DEF FaultBefore, CasPcs
    <3> QED
      BY <2>2, <2>8, <3>1, RaiseGoes DEF FaultBefore, End, ActivePcs, WritePcs, CasPcs
  <2>9. CASE Crash
    <3>1. pc' = "down"
      BY <2>9, Killed DEF End
    <3>2. UNCHANGED jrb \/ jrb' = [jrb EXCEPT ![home] = "none"]
      BY <2>1, <2>9, Killed
    <3>3. home \in Homes
      BY DEF TypeOK, CtlOK
    <3> QED
      BY <2>2, <2>3, <3>1, <3>2, <3>3
  <2>10. CASE Recover
    <3>1. UNCHANGED jrb /\ End("blocked")
      BY <1>2, <2>10 DEF Recover, disk
    <3> QED
      BY <2>2, <3>1 DEF End
  <2> QED
    BY <1>2, <2>1, <2>4, <2>5, <2>6, <2>7, <2>8, <2>9, <2>10 DEF Next, Process, Prepare, CreateJournal,
       RootOpen, RootRefused, RootWrite, JournalDetach, JournalInstall, Cas, CasLink,
       CasLook, CasUnlink, CasInstall, CasSettle, CasStep, Reverse, Stage, FaultAfter
<1> QED
  BY <1>1, <1>2 DEF Closed

-----------------------------------------------------------------------------
(* The refinement. *)

LEMMA InitRefines == Init => Abstract!ACInit
BY DEF Init, Abstract!ACInit, View, Outcome, LooksBefore, Before, Present, Sealed

\* Every step is a change of one file, the decision, or nothing.
LEMMA StepRefines ==
  ASSUME TypeOK, AtomicInv, Quiet, TypeOK', AtomicInv', Quiet', [Next]_vars
  PROVE  [Abstract!ACNext]_<<View, Outcome>>
<1> USE DEF Abstract!ACNext, Abstract!Commit, Abstract!Abort, Abstract!Change, Abstract!Views
<1>0. UNCHANGED edits /\ "journal" \notin windows' /\ Told /\ Told' /\ Untouched = Untouched'
  BY OutcomeTells, NextTells DEF Quiet, Untouched
<1>1. CASE Closed
  <2>1. Closed' /\ UNCHANGED file
    BY <1>0, <1>1, ClosedStays, FilesMove
  <2>2. AllAfter \/ AllBefore
    BY <1>1, ClosedIsUniform
  <2>3. (AllAfter <=> AllAfter') /\ (AllBefore <=> AllBefore') /\ UNCHANGED View
    BY <1>0, <2>1 DEF AllAfter, AllBefore, View
  <2>4. UNCHANGED Outcome
    <3>1. CASE AllAfter
      <4>1. Outcome = "commit" /\ Outcome' = "commit"
        BY <1>0, <1>1, <2>1, <2>3, <3>1 DEF Told
      <4> QED
        BY <4>1
    <3>2. CASE AllBefore
      <4>1. Outcome = "abort" /\ Outcome' = "abort"
        BY <1>0, <1>1, <2>1, <2>3, <3>2 DEF Told
      <4> QED
        BY <4>1
    <3> QED
      BY <2>2, <3>1, <3>2
  <2> QED
    BY <2>3, <2>4
<1>2. CASE ~Closed /\ Closed'
  <2>1. UNCHANGED file /\ Outcome = "open"
    BY <1>0, <1>2, FilesMove DEF Told
  <2>2. UNCHANGED View
    BY <2>1 DEF View
  <2>3. (AllAfter \/ AllBefore)'
    BY <1>2, NextIsUniform
  <2>4. CASE AllAfter'
    <3>1. Outcome' = "commit" /\ View' = [o \in Ops |-> "after"]
      BY <1>0, <1>2, <2>4 DEF Told
    <3> QED
      BY <2>1, <2>2, <3>1
  <2>5. CASE AllBefore'
    <3>1. Outcome' = "abort" /\ View' = [o \in Ops |-> "before"]
      BY <1>0, <1>2, <2>5 DEF Told
    <3> QED
      BY <2>1, <2>2, <3>1
  <2> QED
    BY <2>3, <2>4, <2>5
<1>3. CASE ~Closed /\ ~Closed'
  <2>1. Outcome = "open" /\ Outcome' = "open"
    BY <1>0, <1>3 DEF Told
  <2>2. CASE UNCHANGED file
    BY <2>1, <2>2 DEF View
  <2>3. ASSUME NEW o \in Ops, \A p \in Ops : p # o => file'[p] = file[p]
        PROVE  [\E i \in Ops : Abstract!Change(i)]_<<View, Outcome>>
    <3>1. View' = [View EXCEPT ![o] = View'[o]]
      BY <2>3 DEF View
    <3>2. View'[o] \in {"before", "between", "after"}
      BY DEF View
    <3>3. CASE View'[o] = View[o]
      BY <2>1, <3>1, <3>3 DEF View
    <3>4. CASE View'[o] # View[o]
      BY <2>1, <3>1, <3>2, <3>4
    <3> QED
      BY <3>3, <3>4
  <2> QED
    BY <1>0, <2>2, <2>3, FilesMove
<1> QED
  BY <1>1, <1>2, <1>3

\* A behaviour in which no process dies while a journal has no name and nobody
\* edits a managed file is, seen through the journals and the files, one atomic
\* commit or abort: files change only while the outcome is open, it is decided
\* once and when all of them agree, and nothing changes after it.
THEOREM CommitRefined == NamedSpec /\ [](edits = 0) => ImplementsAtomicCommit
<1>1. NamedSpec => Spec
  <2>1. [Next /\ "journal" \notin windows']_vars => [Next]_vars
    OBVIOUS
  <2> QED
    BY <2>1, PTL DEF NamedSpec, Spec
<1>2. Init => Quiet
  BY DEF Init, Quiet
<1>3. TypeOK /\ Quiet /\ (edits = 0)' /\ [Next /\ "journal" \notin windows']_vars => Quiet'
  <2> SUFFICES ASSUME TypeOK, Quiet, edits' = 0, [Next /\ "journal" \notin windows']_vars
               PROVE  Quiet'
    OBVIOUS
  <2>1. ~UserEdit
    BY DEF UserEdit, Quiet
  <2>2. UNCHANGED touched
    BY <2>1 DEF Next, Process, Prepare, CreateJournal, Unprepare, RootOpen, RootRefused,
       RootWrite, JournalDetach, JournalInstall, Cas, CasLink, CasLook, CasUnlink, CasInstall,
       CasSettle, CasStep, Reverse, Stage, LinkBackup, RemoveBackup, RemoveJournal,
       RemoveMarks, Recover, FaultBefore, FaultAfter, MayLeaveName, Crash, vars, bounds
  <2>3. "journal" \notin windows'
    BY DEF vars, bounds, Quiet
  <2> QED
    BY <2>2, <2>3 DEF Quiet
<1>4. NamedSpec => []TypeOK /\ []AtomicInv
  BY <1>1, TypeCorrect, JournalsTellTheFiles, PTL
<1>5. NamedSpec /\ [](edits = 0) => []Quiet
  BY <1>2, <1>3, <1>4, PTL DEF NamedSpec
<1>6. /\ TypeOK /\ AtomicInv /\ Quiet /\ (TypeOK /\ AtomicInv /\ Quiet)'
      /\ [Next /\ "journal" \notin windows']_vars
      => [Abstract!ACNext]_<<View, Outcome>>
  BY StepRefines
<1> QED
  BY <1>4, <1>5, <1>6, InitRefines, PTL DEF NamedSpec, ImplementsAtomicCommit, Abstract!ACSpec
=============================================================================
