------------------------ MODULE CompareAndSwapProofs ------------------------
(***************************************************************************)
(* compare_and_swap for any number of steps of the user and of system      *)
(* calls that raise: what a look has found still holds at the call that    *)
(* relies on it, or the user changed it in between.                        *)
(***************************************************************************)
EXTENDS CompareAndSwap, FiniteSetTheorems, TLAPS

-----------------------------------------------------------------------------
(* The invariant: what each step of the call has found, and what the user   *)
(* may have done since.                                                     *)

Target == entry["target"]
Temporary == entry["temporary"]
Quarantine == entry["quarantine"]

\* The steps before the path gets a second name; those at which it has one and has
\* lost none; and those before the new file can be at the path.
Early == {"compare", "temporary", "write", "recheck", "source", "link"}
Reserved == {"stat", "verify", "unreserve", "unreserve-unlink", "boundary", "withdraw",
             "withdraw-unlink", "handler", "handler-unlink"}
Uninstalled == Early \cup Reserved \cup {"unlink", "capture", "install"}
\* The error handling of a replacement.
Undoing == {"retract", "retract-unlink", "restore", "relink", "restore-unlink",
            "leave", "leave-unlink"}
Finishing == {"finish", "finish-unlink", "final"}
Places == Uninstalled \cup Undoing \cup Finishing \cup Ended
            \cup {"drop", "drop-unlink", "proof", "discard", "discard-unlink"}

TypeOK ==
  /\ action \in {"create", "replace", "unlink"}
  /\ entry \in [Names -> {0} \cup Inodes]
  /\ elsewhere \in [Inodes -> Nat] /\ data \in [Inodes -> 0..meddles]
  /\ since \in [Inodes -> Places] /\ dropped \subseteq {0} \cup Inodes
  /\ pc \in Places /\ again \in BOOLEAN
  /\ held \in [inode : {0} \cup Inodes, data : 0..meddles, links : Nat]
  /\ meddles \in 0..MaxMeddles /\ faults \in 0..MaxFaults

\* An inode the user has not put there yet has no name, and nobody has dropped it.
Fresh ==
  \A i \in Inodes : i > New + meddles =>
    /\ \A n \in Names : entry[n] # i
    /\ elsewhere[i] = 0 /\ i \notin dropped

\* The private names are the call's: what it is called for says which it uses.
Private ==
  /\ Temporary \in {0, New}
  /\ Installed /\ pc \notin {"compare", "temporary", "final"} \cup Ended => Temporary = New
  /\ action = "create" =>
       /\ Quarantine = 0 /\ Target # Original /\ elsewhere[Original] = 0
       /\ pc \notin Reserved \cup Undoing
                      \cup {"source", "link", "unlink", "capture", "drop", "drop-unlink", "proof"}
  /\ action = "unlink" =>
       /\ Temporary = 0
       /\ pc \notin Undoing \cup {"temporary", "write", "install", "proof", "finish",
                                  "finish-unlink", "discard", "discard-unlink"}
  /\ (pc \in Uninstalled \/ action = "unlink") =>
       Target # New /\ elsewhere[New] = 0 /\ data[New] = 0 /\ New \notin dropped
  /\ Quarantine # New
  /\ pc \in Early \cup Finishing \cup {"done"} => Quarantine = 0

\* The file a name was given to or taken from is still at the path, or the user took
\* it away.
Stays(i) == i = Target \/ i \in dropped
Kept ==
  /\ pc \in Reserved \cup {"unlink", "restore-unlink"} => Quarantine # 0 /\ Stays(Quarantine)
  /\ pc \in {"drop", "drop-unlink", "proof", "finish", "finish-unlink"} /\ Installed =>
       Stays(New)
  /\ pc = "leave-unlink" => Target # 0 \/ dropped # {}

\* The path has lost the original, which the call still holds.
Detached == pc \in {"drop", "drop-unlink"} \/ (pc = "install" /\ action = "replace")
\* Which file is in the quarantine.
Detained ==
  /\ Detached \/ pc \in {"boundary", "unlink", "capture", "relink", "leave-unlink"} =>
       Quarantine = Original
  /\ pc \in Undoing \cup {"proof"} => Quarantine \in {0, Original}

Edited(i, places) == data[i] # 0 => since[i] \in places
\* Every name the call takes away was looked at: an edit came since.
Looked ==
  /\ pc = "unlink" => Target \in {0, Original} \/ since[Target] = "unlink"
  /\ pc \in {"unlink", "capture"} => Edited(Original, {"unlink", "capture"})
  /\ Detached /\ data[Original] = held.data => Edited(Original, {"unlink", "capture"})
  /\ pc = "drop-unlink" => data[Original] = held.data \/ since[Original] = "drop-unlink"
  /\ pc = "retract-unlink" /\ Target # 0 => Edited(Target, {"retract-unlink"})
  /\ pc = "leave-unlink" => Edited(Original, {"leave-unlink"})
  /\ pc = "discard-unlink" => data[New] = 0 /\ Target # New

\* Without the user's edits and with one exception, a replacement never leaves the
\* path empty: what it has done is undone.
Alone == action = "replace" /\ meddles = 0 /\ faults <= 1
Untouched == meddles = 0 =>
  /\ \A i \in Inodes : data[i] = 0 /\ elsewhere[i] = 0
  /\ dropped = {}
  /\ Target \in CASE action = "create" -> {0, New}
                  [] action = "replace" -> {0, Original, New}
                  [] action = "unlink" -> {0, Original}
  /\ Quarantine \in {0, Original}
Undone == Alone =>
  /\ pc \in Early \cup Reserved \cup {"unlink", "restore-unlink", "leave", "leave-unlink",
                                      "discard", "discard-unlink"} => Target = Original
  /\ pc \in {"capture", "install", "relink"} => Target = 0
  /\ pc \in {"drop", "drop-unlink", "proof"} \cup Finishing => Target = New
  /\ pc \in {"install", "drop", "drop-unlink"} => held = Proof(Original, 1)
  /\ pc \in {"retract", "retract-unlink"} => Target = New
  /\ pc \in {"retract", "retract-unlink"} => Quarantine = Original
  /\ pc = "restore" => {Target, Quarantine} = {0, Original}
  /\ pc \in Undoing \cup {"proof"} => faults = 1
  /\ pc \in {"failed", "done"} => Target # 0

IInv ==
  TypeOK /\ Fresh /\ Private /\ Kept /\ Detained /\ Looked /\ Untouched /\ Undone

-----------------------------------------------------------------------------
(* How many names an inode has.                                             *)

One(b) == IF b THEN 1 ELSE 0
NamesOf(e, i) == {n \in Names : e[n] = i}

\* The three names of an inode, counted.
LEMMA NamesCounted ==
  ASSUME NEW e, NEW i
  PROVE  Cardinality(NamesOf(e, i)) =
           One(e["target"] = i) + One(e["temporary"] = i) + One(e["quarantine"] = i)
<1> DEFINE
      A == {n \in {"target"} : e[n] = i}
      B == {n \in {"target", "temporary"} : e[n] = i}
      C == {n \in Names : e[n] = i}
<1>1. IsFiniteSet(A) /\ Cardinality(A) = One(e["target"] = i)
  <2>1. CASE e["target"] = i
    <3>1. A = {} \cup {"target"}
      BY <2>1
    <3> QED
      BY <2>1, <3>1, FS_EmptySet, FS_AddElement DEF One
  <2>2. CASE e["target"] # i
    <3>1. A = {}
      BY <2>2
    <3> QED
      BY <2>2, <3>1, FS_EmptySet DEF One
  <2> QED
    BY <2>1, <2>2
<1>2. IsFiniteSet(B) /\ Cardinality(B) = Cardinality(A) + One(e["temporary"] = i)
  <2>1. CASE e["temporary"] = i
    <3>1. B = A \cup {"temporary"} /\ "temporary" \notin A
      BY <2>1
    <3> HIDE DEF A, B
    <3>2. Cardinality(A) \in Nat
      BY <1>1, FS_CardinalityType
    <3> QED
      BY <1>1, <2>1, <3>1, <3>2, FS_AddElement DEF One
  <2>2. CASE e["temporary"] # i
    <3>1. B = A
      BY <2>2
    <3> HIDE DEF A, B
    <3>2. Cardinality(A) \in Nat
      BY <1>1, FS_CardinalityType
    <3> QED
      BY <1>1, <2>2, <3>1, <3>2 DEF One
  <2> QED
    BY <2>1, <2>2
<1>3. IsFiniteSet(C) /\ Cardinality(C) = Cardinality(B) + One(e["quarantine"] = i)
  <2>1. CASE e["quarantine"] = i
    <3>1. C = B \cup {"quarantine"} /\ "quarantine" \notin B
      BY <2>1 DEF Names
    <3> HIDE DEF B, C
    <3>2. Cardinality(B) \in Nat
      BY <1>2, FS_CardinalityType
    <3> QED
      BY <1>2, <2>1, <3>1, <3>2, FS_AddElement DEF One
  <2>2. CASE e["quarantine"] # i
    <3>1. C = B
      BY <2>2 DEF Names
    <3> HIDE DEF B, C
    <3>2. Cardinality(B) \in Nat
      BY <1>2, FS_CardinalityType
    <3> QED
      BY <1>2, <2>2, <3>1, <3>2 DEF One
  <2> QED
    BY <2>1, <2>2
<1> HIDE DEF A, B, C
<1>4. Cardinality(C) = One(e["target"] = i) + One(e["temporary"] = i) + One(e["quarantine"] = i)
  BY <1>1, <1>2, <1>3
<1> QED
  BY <1>4 DEF C, NamesOf

\* st_nlink: those of the call and those of the user.
LEMMA LinksCounted ==
  ASSUME NEW i
  PROVE  Links(i) = One(Target = i) + One(Temporary = i) + One(Quarantine = i) + elsewhere[i]
<1>1. Links(i) = Cardinality(NamesOf(entry, i)) + elsewhere[i]
  BY DEF Links, NamesOf
<1> QED
  BY <1>1, NamesCounted DEF Target, Temporary, Quarantine

\* An inode without a link has no name, neither of the call's nor of the user's.
LEMMA LinksType ==
  ASSUME TypeOK, NEW i \in Inodes
  PROVE  Links(i) \in Nat /\ (Links(i) = 0 <=> (\A n \in Names : entry[n] # i) /\ elsewhere[i] = 0)
BY LinksCounted DEF TypeOK, One, Names, Target, Temporary, Quarantine

\* What a look at a name returns.
LEMMA Looks ==
  ASSUME TypeOK, NEW n \in Names
  PROVE  /\ At(n) \in [inode : {0} \cup Inodes, data : 0..meddles, links : Nat]
         /\ At(n).inode = entry[n]
         /\ entry[n] # 0 => /\ entry[n] \in Inodes /\ At(n).data = data[entry[n]]
                            /\ At(n).links = Links(entry[n])
         /\ entry[n] = 0 => At(n).links = 0
<1>1. entry[n] \in {0} \cup Inodes
  BY DEF TypeOK
<1>2. CASE entry[n] = 0
  BY <1>1, <1>2 DEF At, Nothing, TypeOK
<1>3. CASE entry[n] # 0
  <2>1. Links(entry[n]) \in Nat /\ data[entry[n]] \in 0..meddles
    BY <1>1, <1>3, LinksType DEF TypeOK
  <2> QED
    BY <1>1, <1>3, <2>1 DEF At
<1> QED
  BY <1>2, <1>3

\* What it means that a look shows the evidence that was expected.
LEMMA Proved ==
  ASSUME TypeOK, NEW n \in Names, NEW i \in Inodes, NEW l, At(n) = Proof(i, l)
  PROVE  entry[n] = i /\ data[i] = 0 /\ Links(i) = l
<1>1. At(n).inode = i /\ At(n).data = 0 /\ At(n).links = l
  BY DEF Proof
<1>2. i # 0
  BY DEF Inodes
<1> QED
  BY <1>1, <1>2, Looks

-----------------------------------------------------------------------------
(* The types, and what is private to the call.                              *)

\* The first state: the caller has the evidence of the path, and nothing has been made yet.
LEMMA InitOK == Init => IInv
<1> SUFFICES ASSUME Init PROVE IInv
  OBVIOUS
<1>0. 1 \in Inodes /\ 2 \in Inodes
  BY SwapAssumption DEF Inodes
<1>1. TypeOK
  <2>1. entry \in [Names -> {0} \cup Inodes]
    BY <1>0 DEF Init, Original
  <2>2. held \in [inode : {0} \cup Inodes, data : 0..meddles, links : Nat]
    BY DEF Init, Nothing
  <2>3. pc \in Places /\ since \in [Inodes -> Places] /\ data \in [Inodes -> 0..meddles]
    BY DEF Init, Places, Uninstalled, Early
  <2>4. meddles \in 0..MaxMeddles /\ faults \in 0..MaxFaults
    BY SwapAssumption DEF Init
  <2>5. elsewhere \in [Inodes -> Nat] /\ dropped \subseteq {0} \cup Inodes /\ again \in BOOLEAN
    BY DEF Init
  <2>6. action \in {"create", "replace", "unlink"}
    BY DEF Init
  <2> QED
    BY <2>1, <2>2, <2>3, <2>4, <2>5, <2>6 DEF TypeOK
<1>2. /\ Target = IF action = "create" THEN 0 ELSE 1
      /\ Temporary = 0 /\ Quarantine = 0 /\ \A n \in Names : entry[n] \in {0, 1}
  BY DEF Init, Target, Temporary, Quarantine, Names, Original
<1>3. Fresh /\ Private
  BY <1>0, <1>2 DEF Init, Ended, Fresh, Private, Inodes, Original, New,
     Reserved, Undoing, Early, Finishing
<1>4. Kept /\ Detained /\ Looked
  BY DEF Init, Kept, Detained, Detached, Looked, Reserved, Undoing
<1>5. Untouched /\ Undone
  BY <1>2 DEF Init, Untouched, Undone, Alone, Original, New, Early,
     Reserved, Finishing, Undoing
<1> QED
  BY <1>1, <1>3, <1>4, <1>5 DEF IInv

\* The steps that change what the call has found or a name of it, and those that only
\* look.
Looking ==
  \/ Compare \/ WriteTemporary \/ Recheck \/ OpenSource \/ CheckCreated \/ Boundary
  \/ Withdraw \/ Handler \/ Drop \/ Prove \/ Finish \/ Final \/ Retract \/ Leave \/ Discard
Removing ==
  \/ RemoveCreated \/ WithdrawUnlink \/ HandlerUnlink \/ DropUnlink \/ FinishUnlink
  \/ LeaveUnlink \/ DiscardUnlink
Changing ==
  \/ OpenTemporary \/ LinkQuarantine \/ StatQuarantine \/ VerifyQuarantine \/ UnlinkTarget
  \/ Capture \/ Install \/ RetractUnlink \/ Restore \/ Relink \/ RestoreUnlink

\* Where a look leads.
LEMMA LookingSteps ==
  ASSUME Looking
  PROVE  /\ UNCHANGED <<action, disk, held, again, meddles, faults>>
         /\ \/ pc = "compare" /\ At("target") = Before
               /\ pc' = IF Installed THEN "temporary" ELSE "recheck"
            \/ pc = "write" /\ pc' = "recheck"
            \/ pc = "recheck" /\ At("target") = Before
               /\ pc' = IF action = "create" THEN "install" ELSE "source"
            \/ pc = "source" /\ Target = Original /\ pc' = "link"
            \/ pc = "unreserve" /\ pc' = "unreserve-unlink"
            \/ pc = "boundary" /\ At("target") = Linked /\ pc' = "unlink"
            \/ pc = "boundary" /\ At("target") # Linked /\ pc' = "withdraw"
            \/ pc = "withdraw" /\ pc' \in {"withdraw-unlink", "handler"}
            \/ pc = "handler" /\ pc' = "handler-unlink"
            \/ pc \in {"recheck", "source", "unreserve", "handler"} /\ pc' = GiveUp
            \/ pc = "drop" /\ At("quarantine") = held /\ pc' = "drop-unlink"
            \/ pc = "drop" /\ At("quarantine") # held /\ pc' = AfterDrop
            \/ pc = "proof" /\ At("target") = Proof(New, 2) /\ Quarantine = 0 /\ pc' = "finish"
            \/ pc = "proof" /\ ~(At("target") = Proof(New, 2) /\ Quarantine = 0)
               /\ pc' = "retract"
            \/ pc = "finish" /\ Ours("temporary", {1, 2}) /\ pc' = "finish-unlink"
            \/ pc = "final" /\ pc' = "done"
               /\ IF Installed THEN At("target") = Proof(New, 1) ELSE Target = 0
            \/ pc = "retract" /\ Ours("target", {1, 2}) /\ pc' = "retract-unlink"
            \/ pc = "retract" /\ ~Ours("target", {1, 2}) /\ pc' = "restore"
            \/ pc = "leave" /\ Target # 0 /\ At("quarantine") = Before /\ pc' = "leave-unlink"
            \/ pc = "leave" /\ pc' = "discard"
            \/ pc = "discard" /\ Ours("temporary", {1}) /\ pc' = "discard-unlink"
            \/ pc \in {"compare", "finish", "final", "discard"} /\ pc' = "failed"
BY DEF Looking, Compare, WriteTemporary, Recheck, OpenSource, CheckCreated, Boundary,
   Withdraw, Handler, Drop, Prove, Finish, Final, Retract, Leave, Discard, Check, Reads, Goto,
   disk, Target, Quarantine

Still == UNCHANGED <<action, elsewhere, data, since, dropped, meddles, faults>>

\* A name gets another inode, or none.
LEMMA NameChanges ==
  ASSUME TypeOK, NEW n \in Names, NEW i, entry' = [entry EXCEPT ![n] = i]
  PROVE  /\ Target' = IF n = "target" THEN i ELSE Target
         /\ Temporary' = IF n = "temporary" THEN i ELSE Temporary
         /\ Quarantine' = IF n = "quarantine" THEN i ELSE Quarantine
         /\ \A m \in Names : entry'[m] = IF m = n THEN i ELSE entry[m]
         /\ i \in {0} \cup Inodes => entry' \in [Names -> {0} \cup Inodes]
BY DEF TypeOK, Names, Target, Temporary, Quarantine

\* The steps that take a private name away.
LEMMA RemovingSteps ==
  ASSUME TypeOK, Removing
  PROVE  /\ Still /\ UNCHANGED <<held, again>>
         /\ \/ /\ pc \in {"unreserve-unlink", "withdraw-unlink", "handler-unlink"} /\ pc' = GiveUp
               /\ entry' = [entry EXCEPT !["quarantine"] = 0]
            \/ /\ pc = "drop-unlink" /\ pc' = IF Installed THEN "finish" ELSE "final"
               /\ entry' = [entry EXCEPT !["quarantine"] = 0]
            \/ /\ pc = "leave-unlink" /\ pc' = "discard"
               /\ entry' = [entry EXCEPT !["quarantine"] = 0]
            \/ /\ pc = "finish-unlink" /\ pc' = "final"
               /\ entry' = [entry EXCEPT !["temporary"] = 0]
            \/ /\ pc = "discard-unlink" /\ pc' = "failed"
               /\ entry' = [entry EXCEPT !["temporary"] = 0]
BY DEF Removing, RemoveCreated, WithdrawUnlink, HandlerUnlink, DropUnlink, FinishUnlink,
   LeaveUnlink, DiscardUnlink, Remove, Unlink, Goto, Still

\* The others of the preparation, the exchange and the restoration.
LEMMA ChangingSteps ==
  ASSUME TypeOK, Changing
  PROVE  /\ Still
         /\ \/ /\ pc = "temporary" /\ pc' = "write"
               /\ entry' = [entry EXCEPT !["temporary"] = New] /\ UNCHANGED <<held, again>>
            \/ /\ pc = "link" /\ Target # 0 /\ pc' = "stat"
               /\ entry' = [entry EXCEPT !["quarantine"] = Target] /\ UNCHANGED <<held, again>>
            \/ /\ pc = "link" /\ pc' = GiveUp /\ UNCHANGED <<entry, held, again>>
            \/ /\ pc = "stat" /\ pc' = "verify" /\ held' = At("quarantine")
               /\ UNCHANGED <<entry, again>>
            \/ /\ pc = "verify" /\ pc' = "boundary" /\ held' = Linked
               /\ At("quarantine") = Linked /\ UNCHANGED <<entry, again>>
            \/ /\ pc = "verify" /\ pc' = "unreserve" /\ UNCHANGED <<entry, held, again>>
            \/ /\ pc = "unlink" /\ Target # 0 /\ pc' = "capture"
               /\ entry' = [entry EXCEPT !["target"] = 0] /\ UNCHANGED <<held, again>>
            \/ /\ pc = "unlink" /\ Target = 0 /\ pc' = "handler" /\ UNCHANGED <<entry, held, again>>
            \/ /\ pc = "capture" /\ held' = At("quarantine")
               /\ At("quarantine").links = Before.links
               /\ pc' = IF Installed THEN "install" ELSE "drop"
               /\ UNCHANGED <<entry, again>>
            \/ /\ pc = "capture" /\ At("quarantine").links # Before.links
               /\ pc' = AfterUnlink /\ UNCHANGED <<entry, held, again>>
            \/ /\ pc = "install" /\ Target = 0 /\ entry' = [entry EXCEPT !["target"] = Temporary]
               /\ pc' = IF action = "create" THEN "finish" ELSE "drop"
               /\ UNCHANGED <<held, again>>
            \/ /\ pc = "install" /\ Target # 0 /\ UNCHANGED <<entry, held, again>>
               /\ pc' = IF action = "create" THEN "discard" ELSE "restore"
            \/ /\ pc = "retract-unlink" /\ pc' = "restore" /\ again' \in BOOLEAN
               /\ entry' = [entry EXCEPT !["target"] = 0] /\ UNCHANGED held
            \/ /\ pc = "restore" /\ At("quarantine") = Before /\ pc' = "relink"
               /\ UNCHANGED <<entry, held, again>>
            \/ /\ pc = "restore" /\ At("quarantine") # Before /\ pc' \in {"restore", "leave"}
               /\ UNCHANGED <<entry, held>> /\ again' \in BOOLEAN
            \/ /\ pc = "relink" /\ Target = 0 /\ pc' = "restore-unlink"
               /\ entry' = [entry EXCEPT !["target"] = Quarantine] /\ UNCHANGED <<held, again>>
            \/ /\ pc = "relink" /\ Target # 0 /\ pc' \in {"restore", "leave"}
               /\ UNCHANGED <<entry, held>> /\ again' \in BOOLEAN
            \/ /\ pc = "restore-unlink" /\ pc' \in {"restore", "leave"}
               /\ entry' = [entry EXCEPT !["quarantine"] = 0]
               /\ UNCHANGED held /\ again' \in BOOLEAN
<1> USE DEF Goto, Reads, Link, Unlink, Still, Target, Temporary, Quarantine
<1>1. CASE OpenTemporary \/ LinkQuarantine \/ StatQuarantine \/ VerifyQuarantine
  BY <1>1 DEF OpenTemporary, LinkQuarantine, StatQuarantine, VerifyQuarantine
<1>2. CASE UnlinkTarget
  BY <1>2 DEF UnlinkTarget
<1>4. CASE Capture
  <2>1. CASE At("quarantine").links = Before.links
    BY <1>4, <2>1 DEF Capture
  <2>2. CASE At("quarantine").links # Before.links
    BY <1>4, <2>2 DEF Capture
  <2> QED
    BY <2>1, <2>2
<1>5. CASE Install
  <2>1. CASE Target = 0
    BY <1>5, <2>1 DEF Install
  <2>2. CASE Target # 0
    BY <1>5, <2>2 DEF Install
  <2> QED
    BY <2>1, <2>2
<1>3. CASE RetractUnlink \/ Restore \/ Relink \/ RestoreUnlink
  BY <1>3 DEF RetractUnlink, Restore, Relink, RestoreUnlink, Restored
<1> QED
  BY <1>1, <1>2, <1>3, <1>4, <1>5 DEF Changing

\* A system call raises.
LEMMA FaultSteps ==
  ASSUME TypeOK, Fault
  PROVE  /\ UNCHANGED <<action, elsewhere, data, since, dropped, held, meddles>>
         /\ faults' = faults + 1 /\ faults' \in 0..MaxFaults /\ again' \in BOOLEAN
         /\ \/ entry' = entry
            \/ pc = "drop-unlink" /\ entry' = [entry EXCEPT !["quarantine"] = 0]
         /\ \/ /\ pc \in {"compare", "temporary", "write", "discard", "discard-unlink",
                          "finish", "finish-unlink", "final", "proof"}
               /\ pc' = "failed"
            \/ /\ pc \in {"recheck", "source", "link", "stat", "unreserve", "unreserve-unlink",
                          "handler", "handler-unlink"}
               /\ pc' = GiveUp
            \/ /\ pc = "verify" /\ pc' = "unreserve"
            \/ /\ pc \in {"boundary", "withdraw", "withdraw-unlink", "unlink"} /\ pc' = "handler"
            \/ /\ pc = "capture" /\ pc' = AfterUnlink
            \/ /\ pc = "install" /\ pc' = IF action = "create" THEN "discard" ELSE "restore"
            \/ /\ pc \in {"drop", "drop-unlink"} /\ pc' = AfterDrop
            \/ /\ pc = "proof" /\ pc' = "retract"
            \/ /\ pc \in {"retract", "retract-unlink"} /\ pc' = "restore"
            \/ /\ pc \in {"restore", "relink", "restore-unlink"} /\ pc' \in {"restore", "leave"}
            \/ /\ pc \in {"leave", "leave-unlink"} /\ pc' = "discard"
<1>1. pc' \in Handlers /\ pc \in Places \ Ended
  BY DEF Fault, TypeOK
<1>2. faults' \in 0..MaxFaults
  BY SwapAssumption DEF Fault, TypeOK
<1> QED
  BY <1>1, <1>2 DEF Fault, Handlers, TypeOK, Reserved, Places, Uninstalled, Early, Undoing, Finishing, Ended

-----------------------------------------------------------------------------
(* The user.                                                                *)

NewInode == New + meddles + 1

\* What the user does to the path, to the original, or with a file of his own.
LEMMA UserSteps ==
  ASSUME TypeOK, Meddle
  PROVE  /\ UNCHANGED <<action, pc, held, again, faults>> /\ pc \notin Ended
         /\ meddles' = meddles + 1 /\ meddles' \in 0..MaxMeddles
         /\ NewInode \in Inodes /\ Original \in Inodes /\ New \in Inodes
         /\ Target # 0 => Target \in Inodes
         /\ \/ \E i \in {Target, Original} \ {0} :
                 /\ Links(i) > 0 /\ data' = [data EXCEPT ![i] = meddles']
                 /\ since' = [since EXCEPT ![i] = pc]
                 /\ UNCHANGED <<entry, elsewhere, dropped>>
            \/ /\ entry' = [entry EXCEPT !["target"] = NewInode]
               /\ data' = [data EXCEPT ![NewInode] = meddles']
               /\ since' = [since EXCEPT ![NewInode] = pc]
               /\ dropped' = dropped \cup {Target} /\ UNCHANGED elsewhere
            \/ /\ Target # 0 /\ entry' = [entry EXCEPT !["target"] = 0]
               /\ dropped' = dropped \cup {Target} /\ UNCHANGED <<elsewhere, data, since>>
            \/ /\ Target # 0 /\ elsewhere' = [elsewhere EXCEPT ![Target] = @ + 1]
               /\ UNCHANGED <<entry, data, since, dropped>>
<1>1. /\ UNCHANGED <<action, pc, held, again, faults>> /\ pc \notin Ended
      /\ meddles' = meddles + 1 /\ meddles' \in 0..MaxMeddles
  BY SwapAssumption DEF Meddle, TypeOK
<1>2. /\ NewInode \in Inodes /\ Original \in Inodes /\ New \in Inodes
      /\ Target # 0 => Target \in Inodes
  BY <1>1, SwapAssumption DEF TypeOK, Inodes, NewInode, Original, New, Target, Names
<1>3. (\E i \in {entry["target"], Original} \ {0} : Write(i)) \/ Put \/ TakeAway \/ LinkElsewhere
  BY DEF Meddle
<1>4. CASE \E i \in {entry["target"], Original} \ {0} : Write(i)
  BY <1>1, <1>2, <1>4 DEF Write, Target
<1>5. CASE Put
  BY <1>1, <1>2, <1>5 DEF Put, NewInode, Target
<1>6. CASE TakeAway
  BY <1>1, <1>2, <1>6 DEF TakeAway, Target
<1>7. CASE LinkElsewhere
  BY <1>1, <1>2, <1>7 DEF LinkElsewhere, Target
<1> QED
  BY <1>3, <1>4, <1>5, <1>6, <1>7

-----------------------------------------------------------------------------
(* The types and the inodes that are not in use.                            *)

\* The original and the new file are inodes; a name without a file shows 0.
LEMMA InodesGiven == Original \in Inodes /\ New \in Inodes /\ Original # New /\ 0 \notin Inodes
BY SwapAssumption DEF Inodes, Original, New

\* Every step keeps the types.
LEMMA TypeOf ==
  ASSUME IInv, Step \/ Fault \/ Meddle
  PROVE  TypeOK'
<1> USE InodesGiven DEF IInv
<1>1. TypeOK /\ Temporary \in {0, New} /\ Target \in {0} \cup Inodes /\ Quarantine \in {0} \cup Inodes
  BY DEF Private, TypeOK, Target, Quarantine, Names
<1>2. /\ GiveUp \in Places /\ AfterUnlink \in Places /\ AfterDrop \in Places
  BY DEF GiveUp, AfterUnlink, AfterDrop, Places, Uninstalled, Undoing, Ended
<1>3. CASE Looking
  <2>1. UNCHANGED <<action, disk, held, again, meddles, faults>>
    BY <1>3, LookingSteps
  <2>2. pc' \in Places
    BY <1>2, <1>3, LookingSteps DEF Places, Uninstalled, Early, Reserved, Undoing, Finishing, Ended
  <2> QED
    BY <1>1, <2>1, <2>2 DEF TypeOK, disk
<1>4. CASE Removing
  <2>1. Still /\ UNCHANGED <<held, again>>
    BY <1>1, <1>4, RemovingSteps
  <2>2. pc' \in Places
    BY <1>1, <1>2, <1>4, RemovingSteps DEF Places, Uninstalled, Early, Undoing, Finishing, Ended
  <2>3. entry' \in [Names -> {0} \cup Inodes]
    BY <1>1, <1>4, RemovingSteps DEF TypeOK
  <2> QED
    BY <1>1, <2>1, <2>2, <2>3 DEF TypeOK, Still
<1>5. CASE Changing
  <2>1. Still
    BY <1>1, <1>5, ChangingSteps
  <2>2. pc' \in Places
    BY <1>1, <1>2, <1>5, ChangingSteps DEF Places, Uninstalled, Early, Reserved, Undoing, Finishing
  <2>3. entry' \in [Names -> {0} \cup Inodes]
    BY <1>1, <1>5, ChangingSteps DEF TypeOK
  <2>4. held' \in [inode : {0} \cup Inodes, data : 0..meddles, links : Nat]
    <3>1. Linked \in [inode : {0} \cup Inodes, data : 0..meddles, links : Nat]
      BY <1>1 DEF Linked, Proof, TypeOK
    <3>2. "quarantine" \in Names
      BY DEF Names
    <3>3. held' \in {held, At("quarantine"), Linked}
      BY <1>1, <1>5, ChangingSteps
    <3> QED
      BY <1>1, <3>1, <3>2, <3>3, Looks DEF TypeOK
  <2>5. again' \in BOOLEAN
    BY <1>1, <1>5, ChangingSteps DEF TypeOK
  <2> QED
    BY <1>1, <2>1, <2>2, <2>3, <2>4, <2>5 DEF TypeOK, Still
<1>6. CASE Fault
  <2>1. pc' \in Places
    BY <1>1, <1>2, <1>6, FaultSteps DEF Places, Uninstalled, Early, Reserved, Undoing, Finishing, Ended
  <2>2. entry' \in [Names -> {0} \cup Inodes]
    BY <1>1, <1>6, FaultSteps DEF TypeOK
  <2> QED
    BY <1>1, <1>6, <2>1, <2>2, FaultSteps DEF TypeOK
<1>7. CASE Meddle
  <2>1. pc' \in Places /\ action' = action /\ again' = again
    BY <1>1, <1>7, UserSteps DEF TypeOK
  <2>2. held' \in [inode : {0} \cup Inodes, data : 0..meddles', links : Nat]
    BY <1>1, <1>7, UserSteps DEF TypeOK
  <2>3. entry' \in [Names -> {0} \cup Inodes]
    BY <1>1, <1>7, UserSteps DEF TypeOK
  <2>4. elsewhere' \in [Inodes -> Nat]
    BY <1>1, <1>7, UserSteps DEF TypeOK
  <2>5. data' \in [Inodes -> 0..meddles']
    BY <1>1, <1>7, UserSteps DEF TypeOK
  <2>6. since' \in [Inodes -> Places]
    BY <1>1, <1>7, UserSteps DEF TypeOK
  <2>7. dropped' \subseteq {0} \cup Inodes
    BY <1>1, <1>7, UserSteps DEF TypeOK
  <2> QED
    BY <1>1, <1>7, <2>1, <2>2, <2>3, <2>4, <2>5, <2>6, <2>7, UserSteps DEF TypeOK
<1> QED
  BY <1>3, <1>4, <1>5, <1>6, <1>7 DEF Step, Looking, Removing, Changing

\* What the names hold after a step of the call: what one of them held, or nothing,
\* or the new file.
LEMMA NamesFollow ==
  ASSUME TypeOK, Step \/ Fault
  PROVE  /\ UNCHANGED <<action, elsewhere, data, since, dropped, meddles>>
         /\ \A n \in Names : entry'[n] \in {0, New, Target, Temporary, Quarantine}
         /\ Target' \in {0, Target, Temporary, Quarantine}
         /\ Temporary' \in {0, New, Temporary}
         /\ Quarantine' \in {0, Quarantine} \/ (Quarantine' = Target /\ pc = "link")
         /\ Target' # Target => pc \in {"unlink", "install", "retract-unlink", "relink"}
<1>1. \A n \in Names : entry[n] \in {Target, Temporary, Quarantine}
  BY DEF Names, Target, Temporary, Quarantine
<1>2. "target" \in Names /\ "temporary" \in Names /\ "quarantine" \in Names
  BY DEF Names
<1>3. CASE Looking
  BY <1>1, <1>3, LookingSteps DEF disk, Target, Temporary, Quarantine
<1>4. CASE Removing
  BY <1>1, <1>2, <1>4, RemovingSteps, NameChanges DEF Still
<1>5. CASE Changing
  <2>1. Still
    BY <1>5, ChangingSteps
  <2>2. CASE entry' = entry
    BY <1>1, <2>1, <2>2 DEF Still, Target, Temporary, Quarantine
  <2>3. CASE entry' # entry
    <3>1. \/ entry' = [entry EXCEPT !["temporary"] = New]
          \/ entry' = [entry EXCEPT !["quarantine"] = Target] /\ pc = "link"
          \/ entry' = [entry EXCEPT !["target"] = 0] /\ pc \in {"unlink", "retract-unlink"}
          \/ entry' = [entry EXCEPT !["target"] = Temporary] /\ pc = "install"
          \/ entry' = [entry EXCEPT !["target"] = Quarantine] /\ pc = "relink"
          \/ entry' = [entry EXCEPT !["quarantine"] = 0]
      BY <1>5, <2>3, ChangingSteps
    <3> QED
      BY <1>1, <1>2, <2>1, <3>1, NameChanges DEF Still
  <2> QED
    BY <2>2, <2>3
<1>6. CASE Fault
  BY <1>1, <1>2, <1>6, FaultSteps, NameChanges DEF Target, Temporary, Quarantine
<1> QED
  BY <1>3, <1>4, <1>5, <1>6 DEF Step, Looking, Removing, Changing

\* Only Put uses an inode that was not there before.
LEMMA FreshOf ==
  ASSUME IInv, Step \/ Fault \/ Meddle
  PROVE  Fresh'
<1> USE InodesGiven DEF IInv
<1>1. /\ TypeOK /\ "target" \in Names /\ "temporary" \in Names /\ "quarantine" \in Names
      /\ Target = entry["target"] /\ Temporary = entry["temporary"]
      /\ Quarantine = entry["quarantine"]
  BY DEF Names, Target, Temporary, Quarantine
<1>2. CASE Step \/ Fault
  <2>1. UNCHANGED <<elsewhere, dropped, meddles>>
    BY <1>1, <1>2, NamesFollow
  <2>2. ASSUME NEW i \in Inodes, i > New + meddles, NEW n \in Names PROVE entry'[n] # i
    <3>1. i \notin {0, New, Target, Temporary, Quarantine}
      BY <1>1, <2>2 DEF Fresh, Inodes, New, TypeOK
    <3> QED
      BY <1>1, <1>2, <3>1, NamesFollow
  <2> QED
    BY <1>1, <2>1, <2>2 DEF Fresh
<1>3. CASE Meddle
  <2>1. meddles' = meddles + 1 /\ meddles \in Nat
    BY <1>1, <1>3, UserSteps DEF TypeOK
  <2>2. ASSUME NEW i \in Inodes, i > New + meddles'
        PROVE  (\A n \in Names : entry[n] # i) /\ elsewhere[i] = 0 /\ i \notin dropped /\ i # NewInode
    BY <2>1, <2>2 DEF Fresh, Inodes, New, NewInode
  <2>3. ASSUME NEW i \in Inodes, i > New + meddles', NEW n \in Names PROVE entry'[n] # i
    <3>1. entry' = entry \/ (\E j \in {0, NewInode} : entry' = [entry EXCEPT !["target"] = j])
      BY <1>1, <1>3, UserSteps
    <3> QED
      BY <1>1, <2>2, <2>3, <3>1, NameChanges
  <2>4. ASSUME NEW i \in Inodes, i > New + meddles' PROVE elsewhere'[i] = 0 /\ i \notin dropped'
    <3>1. Target # i
      BY <1>1, <2>2, <2>4
    <3> QED
      BY <1>1, <1>3, <2>2, <2>4, <3>1, UserSteps DEF TypeOK
  <2> QED
    BY <2>3, <2>4 DEF Fresh
<1> QED
  BY <1>2, <1>3

\* The random names are changed by the call alone, in the order of its steps.
LEMMA PrivateOf ==
  ASSUME IInv, Step \/ Fault \/ Meddle
  PROVE  Private'
<1> USE InodesGiven DEF IInv
<1>1. /\ TypeOK /\ "target" \in Names /\ "temporary" \in Names /\ "quarantine" \in Names
      /\ Target = entry["target"] /\ Temporary = entry["temporary"]
      /\ Quarantine = entry["quarantine"] /\ pc \in Places
      /\ action \in {"create", "replace", "unlink"}
  BY DEF Names, Target, Temporary, Quarantine, TypeOK
<1>2. CASE Looking
  BY <1>1, <1>2, LookingSteps DEF Private, disk, GiveUp, AfterDrop, Installed, Target,
     Temporary, Quarantine, Uninstalled, Early, Reserved, Undoing, Finishing, Ended
<1>3. CASE Removing
  BY <1>1, <1>3, RemovingSteps, NameChanges DEF Private, Still, GiveUp, Installed,
     Uninstalled, Early, Reserved, Undoing, Finishing, Ended
<1>4. CASE Changing
  BY <1>1, <1>4, ChangingSteps, NameChanges DEF Private, Still, GiveUp, AfterUnlink, Installed,
     Uninstalled, Early, Reserved, Undoing, Finishing, Ended, Target, Temporary, Quarantine
<1>5. CASE Fault
  BY <1>1, <1>5, FaultSteps, NameChanges DEF Private, GiveUp, AfterUnlink, AfterDrop,
     Installed, Uninstalled, Early, Reserved, Undoing, Finishing, Ended, Target, Temporary, Quarantine
<1>6. CASE Meddle
  <2>1. /\ UNCHANGED <<action, pc, Temporary, Quarantine>>
        /\ Target' = Target \/ Target' \in {0, NewInode}
    <3>1. entry' = entry \/ (\E j \in {0, NewInode} : entry' = [entry EXCEPT !["target"] = j])
      BY <1>1, <1>6, UserSteps
    <3> QED
      BY <1>1, <1>6, <3>1, UserSteps, NameChanges DEF Target, Temporary, Quarantine
  <2>2. NewInode \notin {0, Original, New}
    BY <1>1 DEF NewInode, Original, New, TypeOK
  <2>3. \A i \in Inodes : i \in {Original, New} /\ Target # i => elsewhere'[i] = elsewhere[i]
    BY <1>1, <1>6, UserSteps DEF TypeOK
  <2>4. Target # New => data'[New] = data[New] /\ (New \in dropped' => New \in dropped)
    BY <1>1, <1>6, <2>2, UserSteps DEF TypeOK
  <2> QED
    BY <1>1, <2>1, <2>2, <2>3, <2>4 DEF Private, Installed
<1> QED
  BY <1>2, <1>3, <1>4, <1>5, <1>6 DEF Step, Looking, Removing, Changing

\* Before a private name is taken away its file was seen to be at the path: what has
\* happened to the path since, the user has done.
LEMMA KeptOf ==
  ASSUME IInv, Step \/ Fault \/ Meddle
  PROVE  Kept'
<1> USE InodesGiven DEF IInv
<1>1. /\ TypeOK /\ "target" \in Names /\ "temporary" \in Names /\ "quarantine" \in Names
      /\ Target = entry["target"] /\ Temporary = entry["temporary"]
      /\ Quarantine = entry["quarantine"] /\ pc \in Places
      /\ action \in {"create", "replace", "unlink"}
  BY DEF Names, Target, Temporary, Quarantine, TypeOK
<1>2. CASE Looking
  BY <1>1, <1>2, LookingSteps DEF Kept, Stays, Private, disk, GiveUp, AfterDrop, Installed, Target,
     Temporary, Quarantine, Reserved, Undoing, Early, Finishing
<1>3. CASE Removing
  BY <1>1, <1>3, RemovingSteps, NameChanges DEF Kept, Stays, Private, Still, GiveUp, Installed,
     Reserved
<1>4. CASE Changing
  <2>1. /\ Still /\ AfterUnlink \notin Reserved /\ GiveUp \notin Reserved
        /\ pc = "install" /\ action # "create" => action = "replace"
    BY <1>1, <1>4, ChangingSteps DEF GiveUp, AfterUnlink, Reserved, Private
  <2>2. \/ pc' \notin Reserved \cup {"unlink", "restore-unlink", "drop", "drop-unlink", "proof",
                                    "finish", "finish-unlink", "leave-unlink"}
        \/ pc \in {"stat", "verify", "unlink"} /\ entry' = entry /\ pc' \in Reserved
        \/ pc = "capture" /\ pc' = "drop" /\ ~Installed
        \/ pc = "link" /\ pc' = "stat" /\ Target # 0 /\ Target' = Target /\ Quarantine' = Target
        \/ pc = "install" /\ pc' \in {"drop", "finish"} /\ Target' = Temporary
        \/ pc = "relink" /\ pc' = "restore-unlink" /\ Target' = Quarantine
           /\ Quarantine' = Quarantine
    BY <1>1, <1>4, <2>1, ChangingSteps, NameChanges DEF Installed, Reserved, AfterUnlink, GiveUp
  <2>3. pc = "install" => Temporary = New
    BY <1>1, <1>4, <2>1, ChangingSteps DEF Private, Installed, Ended
  <2>4. pc = "relink" => Quarantine # 0
    BY DEF Detained, Original
  <2> HIDE DEF IInv
  <2>5. Kept
    BY DEF IInv
  <2> QED
    BY <1>1, <2>1, <2>2, <2>3, <2>4, <2>5 DEF Kept, Stays, Still, Installed, Reserved, Target, Quarantine
<1>5. CASE Fault
  BY <1>1, <1>5, FaultSteps, NameChanges DEF Kept, Stays, Private, GiveUp, AfterUnlink, AfterDrop,
     Installed, Reserved, Detained, Detached, Looked, Target, Temporary, Quarantine
<1>6. CASE Meddle
  <2>1. entry' = entry \/ (\E j \in {0, NewInode} : entry' = [entry EXCEPT !["target"] = j]
                                                     /\ dropped' = dropped \cup {Target})
    BY <1>1, <1>6, UserSteps
  <2>2. UNCHANGED <<action, pc, Temporary, Quarantine>>
    BY <1>1, <1>6, <2>1, UserSteps, NameChanges DEF Temporary, Quarantine
  <2>3. \/ Target' = Target /\ dropped \subseteq dropped'
        \/ dropped' = dropped \cup {Target}
    BY <1>1, <1>6, <2>1, UserSteps DEF Target
  <2> QED
    BY <1>1, <2>2, <2>3 DEF Kept, Stays, Installed
<1> QED
  BY <1>2, <1>3, <1>4, <1>5, <1>6 DEF Step, Looking, Removing, Changing

\* The quarantine holds the original from the last look on.
LEMMA DetainedOf ==
  ASSUME IInv, Step \/ Fault \/ Meddle
  PROVE  Detained'
<1> USE InodesGiven DEF IInv
<1>1. /\ TypeOK /\ "target" \in Names /\ "temporary" \in Names /\ "quarantine" \in Names
      /\ Target = entry["target"] /\ Temporary = entry["temporary"]
      /\ Quarantine = entry["quarantine"] /\ pc \in Places
      /\ action \in {"create", "replace", "unlink"}
  BY DEF Names, Target, Temporary, Quarantine, TypeOK
<1>2. At("quarantine") \in {Linked, Before} /\ action # "create" => Quarantine = Original
  <2>1. At("quarantine") \in {Proof(Original, 1), Proof(Original, 2)} => Quarantine = Original
    BY <1>1, Proved
  <2> QED
    BY <2>1 DEF Linked, Before
<1>3. CASE Looking
  BY <1>1, <1>2, <1>3, LookingSteps DEF Detained, Detached, Private, disk, GiveUp, AfterDrop,
     Installed, Target, Temporary, Quarantine, Undoing
<1>4. CASE Removing
  BY <1>1, <1>4, RemovingSteps, NameChanges DEF Detained, Detached, Still, GiveUp, Installed, Undoing
<1>5. CASE Changing
  <2>1. /\ Still /\ action = "create" => pc \notin Undoing \cup {"unlink", "capture", "verify"}
        /\ action = "unlink" => pc # "install"
    BY <1>1, <1>5, ChangingSteps DEF Private, Reserved
  <2>2. CASE entry' = entry
    BY <1>1, <1>2, <1>5, <2>1, <2>2, ChangingSteps DEF Detained, Detached, Still, GiveUp,
       AfterUnlink, Installed, Undoing, Quarantine
  <2>3. CASE entry' # entry
    BY <1>1, <1>5, <2>1, <2>3, ChangingSteps, NameChanges DEF Detained, Detached, Still, Undoing
  <2> QED
    BY <2>2, <2>3
<1>6. CASE Fault
  <2>1. /\ action = "create" => pc \notin {"capture", "drop", "drop-unlink"}
        /\ action = "unlink" => pc # "install"
    BY DEF Private
  <2>2. action' = action /\ Quarantine' \in {0, Quarantine}
    BY <1>1, <1>6, FaultSteps, NameChanges DEF Quarantine
  <2>3. /\ pc' \notin {"install", "drop", "drop-unlink", "boundary", "unlink", "capture", "relink",
                      "leave-unlink"}
        /\ pc' \in Undoing \cup {"proof"} =>
             \/ pc \in Undoing \cup {"proof", "capture", "drop", "drop-unlink"}
             \/ pc = "install" /\ action = "replace"
    BY <1>1, <1>6, <2>1, FaultSteps DEF GiveUp, AfterUnlink, AfterDrop, Installed, Undoing
  <2> QED
    BY <1>1, <2>2, <2>3 DEF Detained, Detached
<1>7. CASE Meddle
  <2>1. UNCHANGED <<action, pc, Quarantine>>
    <3>1. entry' = entry \/ (\E j \in {0, NewInode} : entry' = [entry EXCEPT !["target"] = j])
      BY <1>1, <1>7, UserSteps
    <3> QED
      BY <1>1, <1>7, <3>1, UserSteps, NameChanges DEF Quarantine
  <2> QED
    BY <2>1 DEF Detained, Detached
<1> QED
  BY <1>3, <1>4, <1>5, <1>6, <1>7 DEF Step, Looking, Removing, Changing

\* A file of the call that is as it made it has the links it gave it.
LEMMA OursIs ==
  ASSUME TypeOK, NEW n \in Names, NEW links, Ours(n, links)
  PROVE  entry[n] = New /\ data[New] = 0 /\ Links(New) \in links
BY DEF Ours

\* The evidence a look has compared holds at the unlink, but for edits after the look.
LEMMA LookedOf ==
  ASSUME IInv, Step \/ Fault \/ Meddle
  PROVE  Looked'
<1> USE InodesGiven DEF IInv
<1> DEFINE Closed == {"unlink", "capture", "install", "drop", "drop-unlink", "retract-unlink",
                      "leave-unlink", "discard-unlink"}
<1>1. /\ TypeOK /\ "target" \in Names /\ "temporary" \in Names /\ "quarantine" \in Names
      /\ Target = entry["target"] /\ Temporary = entry["temporary"]
      /\ Quarantine = entry["quarantine"]
      /\ action \in {"create", "replace", "unlink"}
  BY DEF Names, Target, Temporary, Quarantine, TypeOK
<1>2. pc' \notin Closed => Looked'
  BY DEF Looked, Detached
<1>3. CASE Looking
  <2>1. UNCHANGED <<action, disk, held, Target, Temporary, Quarantine>>
    BY <1>3, LookingSteps DEF disk, Target, Temporary, Quarantine
  <2>2. CASE pc = "boundary" /\ pc' = "unlink"
    <3>1. At("target") = Proof(Original, 2)
      BY <1>3, <2>2, LookingSteps DEF Linked
    <3>2. Target = Original /\ data[Original] = 0
      BY <1>1, <3>1, Proved
    <3> QED
      BY <2>1, <2>2, <3>2 DEF Looked, Detached, Edited, disk
  <2>3. CASE pc = "drop" /\ pc' = "drop-unlink"
    <3>1. At("quarantine") = held /\ Quarantine = Original
      BY <1>3, <2>3, LookingSteps DEF Detained, Detached, AfterDrop
    <3>2. data[Original] = held.data
      BY <1>1, <3>1, Looks
    <3> QED
      BY <2>1, <2>3, <3>2 DEF Looked, Detached, Edited, disk
  <2>4. CASE pc = "retract" /\ pc' = "retract-unlink"
    <3>1. Ours("target", {1, 2})
      BY <1>3, <2>4, LookingSteps
    <3>2. Target = New /\ data[New] = 0
      BY <1>1, <3>1, OursIs
    <3> QED
      BY <2>1, <2>4, <3>2 DEF Looked, Detached, Edited, disk
  <2>5. CASE pc = "leave" /\ pc' = "leave-unlink"
    <3>1. At("quarantine") = Proof(Original, 1)
      BY <1>1, <1>3, <2>5, LookingSteps DEF Before, Private, Undoing
    <3>2. data[Original] = 0
      BY <1>1, <3>1, Proved
    <3> QED
      BY <2>1, <2>5, <3>2 DEF Looked, Detached, Edited, disk
  <2>6. CASE pc = "discard" /\ pc' = "discard-unlink"
    <3>1. Ours("temporary", {1})
      BY <1>3, <2>6, LookingSteps
    <3>2. Temporary = New /\ data[New] = 0 /\ Links(New) = 1
      BY <1>1, <3>1, OursIs
    <3>3. Target # New
      BY <3>2, LinksCounted DEF One, TypeOK
    <3> QED
      BY <2>1, <2>6, <3>2, <3>3 DEF Looked, Detached, Edited, disk
  <2>7. CASE pc = "recheck" /\ pc' = "install"
    <3>1. action = "create"
      BY <1>3, <2>7, LookingSteps DEF GiveUp
    <3> QED
      BY <2>1, <2>7, <3>1 DEF Looked, Detached
  <2> QED
    BY <1>2, <1>3, <2>2, <2>3, <2>4, <2>5, <2>6, <2>7, LookingSteps DEF GiveUp, AfterDrop
<1>4. CASE Removing
  BY <1>1, <1>2, <1>4, RemovingSteps DEF GiveUp
<1>5. CASE Changing
  <2>1. CASE pc = "unlink" /\ pc' = "capture"
    BY <1>1, <1>5, <2>1, ChangingSteps DEF Looked, Detached, Edited, Still
  <2>2. CASE pc = "capture" /\ pc' \in {"install", "drop"}
    <3>1. held' = At("quarantine") /\ Quarantine = Original /\ Still
      BY <1>1, <1>5, <2>2, ChangingSteps DEF Detained, Detached, AfterUnlink
    <3> QED
      BY <2>2, <3>1 DEF Looked, Detached, Edited, Still
  <2>3. CASE pc = "install" /\ pc' = "drop"
    BY <1>1, <1>5, <2>3, ChangingSteps DEF Looked, Detached, Edited, Still, Private
  <2> QED
    BY <1>1, <1>2, <1>5, <2>1, <2>2, <2>3, ChangingSteps DEF GiveUp, AfterUnlink
<1>6. CASE Fault
  BY <1>1, <1>2, <1>6, FaultSteps DEF GiveUp, AfterUnlink, AfterDrop
<1>7. CASE Meddle
  <2>1. /\ UNCHANGED <<action, pc, held>> /\ meddles' = meddles + 1 /\ meddles \in Nat
        /\ NewInode \notin {0, Original, New} /\ NewInode \in Inodes
        /\ held.data <= meddles
    BY <1>1, <1>7, UserSteps DEF TypeOK, NewInode, New, Original
  <2>2. \A i \in Inodes : \/ data'[i] = data[i] /\ since'[i] = since[i]
                          \/ data'[i] = meddles' /\ since'[i] = pc
    BY <1>1, <1>7, UserSteps DEF TypeOK
  <2>3. \/ Target' = Target
        \/ Target' = 0
        \/ Target' = NewInode /\ since'[NewInode] = pc
    <3>1. entry' = entry \/ (\E j \in {0, NewInode} : entry' = [entry EXCEPT !["target"] = j]
                                    /\ (j # 0 => since' = [since EXCEPT ![NewInode] = pc]))
      BY <1>1, <1>7, UserSteps
    <3> QED
      BY <1>1, <2>1, <3>1, NameChanges DEF TypeOK, Target
  <2>4. data'[New] = data[New] \/ Target = New
    BY <1>1, <1>7, <2>1, UserSteps DEF TypeOK
  <2>5. Target \in {0} \cup Inodes
    BY <1>1 DEF TypeOK
  <2> QED
    BY <1>1, <2>1, <2>2, <2>3, <2>4, <2>5 DEF Looked, Detached, Edited
<1> QED
  BY <1>3, <1>4, <1>5, <1>6, <1>7 DEF Step, Looking, Removing, Changing

\* Without the user the names hold the two files of the call only.
LEMMA UntouchedOf ==
  ASSUME IInv, Step \/ Fault \/ Meddle
  PROVE  Untouched'
<1> USE InodesGiven DEF IInv
<1>1. CASE Meddle
  BY <1>1, UserSteps DEF Untouched, TypeOK
<1>2. CASE Step \/ Fault
  <2>1. UNCHANGED <<action, elsewhere, data, dropped, meddles>>
    BY <1>2, NamesFollow
  <2>2. CASE meddles = 0
    <3>1. /\ Target' \in {0, Target, Temporary, Quarantine} /\ Temporary \in {0, New}
          /\ Quarantine' \in {0, Quarantine, Target}
          /\ pc = "link" \/ Quarantine' \in {0, Quarantine}
      BY <1>2, NamesFollow DEF Private
    <3>2. pc = "link" => Target # New
      BY DEF Private, Uninstalled, Early
    <3>3. /\ action = "create" => Quarantine = 0 /\ pc # "link"
          /\ action = "unlink" => Temporary = 0
      BY DEF Private
    <3>4. action \in {"create", "replace", "unlink"}
      BY DEF TypeOK
    <3> QED
      BY <2>1, <2>2, <3>1, <3>2, <3>3, <3>4 DEF Untouched
  <2> QED
    BY <2>1, <2>2 DEF Untouched
<1> QED
  BY <1>1, <1>2

\* What a replacement without a user finds.
LEMMA AloneFinds ==
  ASSUME IInv, Alone
  PROVE  /\ Quarantine = Original /\ Target # Original =>
              At("quarantine") = Proof(Original, 1) /\ Before = Proof(Original, 1)
         /\ Target = New /\ Temporary = New =>
              At("target") = Proof(New, 2) /\ Ours("target", {1, 2})
         /\ Before.links = 1
<1> USE InodesGiven DEF IInv
<1>1. /\ Target = entry["target"] /\ Temporary = entry["temporary"]
      /\ Quarantine = entry["quarantine"] /\ Temporary \in {0, New} /\ Quarantine # New
      /\ data[Original] = 0 /\ data[New] = 0 /\ elsewhere[Original] = 0 /\ elsewhere[New] = 0
  BY DEF Target, Temporary, Quarantine, Private, Untouched, Alone
<1>2. Before = Proof(Original, 1) /\ Before.links = 1
  BY DEF Alone, Before, Proof
<1>3. ASSUME Quarantine = Original, Target # Original
      PROVE  At("quarantine") = Proof(Original, 1)
  <2>1. Links(Original) = 1
    BY <1>1, <1>3, LinksCounted DEF One
  <2> QED
    BY <1>1, <1>3, <2>1 DEF At, Proof
<1>4. ASSUME Target = New, Temporary = New
      PROVE  At("target") = Proof(New, 2) /\ Ours("target", {1, 2})
  <2>1. Links(New) = 2
    BY <1>1, <1>4, LinksCounted DEF One
  <2> QED
    BY <1>1, <1>4, <2>1 DEF At, Proof, Ours
<1> QED
  BY <1>2, <1>3, <1>4

\* One exception: the handlers put the original back, or leave the new file.
LEMMA UndoneOf ==
  ASSUME IInv, Step \/ Fault \/ Meddle
  PROVE  Undone'
<1> USE InodesGiven DEF IInv
<1> SUFFICES ASSUME Alone' PROVE Undone'
  BY DEF Undone
<1>1. /\ TypeOK /\ "target" \in Names /\ "temporary" \in Names /\ "quarantine" \in Names
      /\ Target = entry["target"] /\ Temporary = entry["temporary"]
      /\ Quarantine = entry["quarantine"] /\ faults \in Nat
  BY DEF Names, Target, Temporary, Quarantine, TypeOK
<1>2. ~Meddle
  BY <1>1, UserSteps DEF Alone, TypeOK
<1>3. Alone /\ action = "replace" /\ Installed /\ meddles = 0
  BY <1>1, <1>2, NamesFollow, FaultSteps, LookingSteps, RemovingSteps, ChangingSteps
  DEF Alone, Installed, Step, Looking, Removing, Changing, Still
<1>4. GiveUp = "discard" /\ AfterDrop = "proof" /\ AfterUnlink = "restore"
  BY <1>3 DEF GiveUp, AfterDrop, AfterUnlink
<1>5. Original # 0 /\ New # 0
  BY DEF Original, New
<1>6. /\ Undone
      /\ pc \in {"install", "proof", "retract"} => Temporary = New
      /\ pc \in {"drop", "unlink", "capture", "relink", "install"} => Quarantine = Original
      /\ pc = "proof" => Quarantine \in {0, Original}
  BY <1>3 DEF Private, Ended, Detained, Detached
<1> HIDE DEF IInv
<1>7. CASE Looking
  <2>1. UNCHANGED <<action, meddles, faults, held, Target, Temporary, Quarantine>>
    BY <1>7, LookingSteps DEF disk, Target, Temporary, Quarantine
  <2>2. ~(pc = "drop" /\ At("quarantine") # held)
    <3>1. pc = "drop" => Target = New /\ held = Proof(Original, 1) /\ Quarantine = Original
      BY <1>3, <1>6 DEF Undone
    <3> QED
      BY <1>3, <3>1, AloneFinds
  <2>3. ~(pc = "retract" /\ ~Ours("target", {1, 2}))
    <3>1. pc = "retract" => Target = New /\ Temporary = New
      BY <1>3, <1>6 DEF Undone, Finishing
    <3> QED
      BY <1>3, <3>1, AloneFinds
  <2>4. pc = "proof" /\ ~(At("target") = Proof(New, 2) /\ Quarantine = 0) => Quarantine = Original
    <3>1. pc = "proof" => Target = New /\ Temporary = New
      BY <1>3, <1>6 DEF Undone, Finishing
    <3> QED
      BY <1>3, <1>6, <3>1, AloneFinds
  <2>5. \/ pc \in {"compare", "write", "recheck", "source", "unreserve", "boundary", "withdraw",
                  "handler", "leave", "discard"}
           /\ pc' \in Early \cup Reserved \cup {"unlink", "leave-unlink", "discard",
                                            "discard-unlink", "failed"}
        \/ pc = "drop" /\ pc' = "drop-unlink"
        \/ pc \in {"proof", "finish"} /\ pc' \in {"finish", "finish-unlink", "failed"}
        \/ pc = "proof" /\ pc' = "retract" /\ Quarantine = Original
        \/ pc = "final" /\ pc' \in {"done", "failed"}
        \/ pc = "retract" /\ pc' = "retract-unlink"
    BY <1>3, <1>4, <1>7, <2>2, <2>3, <2>4, LookingSteps DEF Early, Reserved
  <2>6. CASE /\ pc \in {"compare", "write", "recheck", "source", "unreserve", "boundary",
                       "withdraw", "handler", "leave", "discard"}
             /\ pc' \in Early \cup Reserved \cup {"unlink", "leave-unlink", "discard",
                                              "discard-unlink", "failed"}
    <3>1. Target = Original /\ (pc' = "leave-unlink" => pc = "leave")
      BY <1>3, <1>4, <1>6, <1>7, <2>6, LookingSteps DEF Undone, Early, Reserved
    <3>2. pc = "leave" => faults = 1
      BY <1>3, <1>6 DEF Undone, Undoing
    <3> QED
      BY <1>5, <2>1, <2>6, <3>1, <3>2 DEF Undone, Early, Reserved, Undoing, Finishing
  <2>7. CASE pc \in {"drop", "proof", "finish", "final", "retract"}
    <3>1. Target = New
      BY <1>3, <1>6, <2>7 DEF Undone, Finishing
    <3>2. pc \in {"proof", "retract"} => faults = 1
      BY <1>3, <1>6 DEF Undone, Undoing
    <3>3. pc = "retract" => Quarantine = Original
      BY <1>3, <1>6 DEF Undone
    <3>4. pc = "drop" => held = Proof(Original, 1)
      BY <1>3, <1>6 DEF Undone
    <3> QED
      BY <1>5, <2>1, <2>5, <2>7, <3>1, <3>2, <3>3, <3>4
      DEF Undone, Early, Reserved, Undoing, Finishing
  <2> QED
    BY <2>5, <2>6, <2>7
<1>8. CASE Removing
  BY <1>1, <1>3, <1>4, <1>5, <1>6, <1>8, RemovingSteps, NameChanges
  DEF Undone, Still, Early, Reserved, Finishing, Undoing
<1>9. CASE Changing
  <2>1. Still
    BY <1>1, <1>9, ChangingSteps
  <2>2. CASE pc \in {"temporary", "link", "stat", "verify"}
    <3>1. Target' = Target /\ pc' \in Early \cup Reserved \cup {"discard"}
      BY <1>1, <1>4, <1>9, <2>2, ChangingSteps, NameChanges DEF Early, Reserved, Target
    <3> QED
      BY <1>3, <1>6, <2>1, <2>2, <3>1 DEF Undone, Early, Reserved, Undoing, Finishing
  <2>3. CASE pc = "unlink"
    <3>1. Target # 0
      BY <1>3, <1>5, <1>6, <2>3 DEF Undone
    <3>2. Target' = 0 /\ pc' = "capture"
      BY <1>1, <1>9, <2>3, <3>1, ChangingSteps, NameChanges
    <3> QED
      BY <3>2 DEF Undone, Early, Reserved, Undoing, Finishing
  <2>4. CASE pc = "capture"
    <3>1. Target = 0 /\ Quarantine = Original
      BY <1>3, <1>6, <2>4 DEF Undone
    <3>2. At("quarantine") = Proof(Original, 1) /\ Before.links = 1
      BY <1>3, <1>5, <3>1, AloneFinds
    <3>3. Target' = 0 /\ pc' = "install" /\ held' = Proof(Original, 1)
      BY <1>1, <1>3, <1>9, <2>4, <3>1, <3>2, ChangingSteps DEF Target, Proof
    <3> QED
      BY <3>3 DEF Undone, Early, Reserved, Undoing, Finishing
  <2>5. CASE pc = "install"
    <3>1. Target = 0 /\ Temporary = New /\ held = Proof(Original, 1)
      BY <1>3, <1>6, <2>5 DEF Undone
    <3>2. Target' = New /\ pc' = "drop" /\ held' = held
      BY <1>1, <1>3, <1>9, <2>5, <3>1, ChangingSteps, NameChanges
    <3> QED
      BY <3>1, <3>2 DEF Undone, Early, Reserved, Undoing, Finishing
  <2>6. CASE pc = "retract-unlink"
    <3>1. Quarantine = Original /\ faults = 1
      BY <1>3, <1>6, <2>6 DEF Undone, Undoing
    <3>2. Target' = 0 /\ Quarantine' = Quarantine /\ pc' = "restore"
      BY <1>1, <1>9, <2>6, ChangingSteps, NameChanges
    <3> QED
      BY <2>1, <3>1, <3>2 DEF Undone, Still, Early, Reserved, Undoing, Finishing
  <2>7. CASE pc = "restore"
    <3>1. faults = 1 /\ {Target, Quarantine} = {0, Original}
      BY <1>3, <1>6, <2>7 DEF Undone, Undoing
    <3>2. Quarantine = Original => Target = 0
      BY <1>5, <3>1
    <3>3. \/ pc' = "relink" /\ At("quarantine") = Before
          \/ pc' \in {"restore", "leave"} /\ At("quarantine") # Before
      BY <1>1, <1>9, <2>7, ChangingSteps
    <3>4. At("quarantine") = Before <=> Quarantine = Original
      <4>1. At("quarantine") = Before => Quarantine = Original
        BY <1>1, <1>3, InodesGiven, Proved DEF Before
      <4> QED
        BY <1>3, <1>5, <3>2, <4>1, AloneFinds
    <3>5. Target' = Target /\ Quarantine' = Quarantine
      BY <1>1, <1>9, <2>7, ChangingSteps DEF Target, Quarantine
    <3> QED
      BY <1>5, <2>1, <3>1, <3>3, <3>4, <3>5
      DEF Undone, Still, Early, Reserved, Undoing, Finishing
  <2>8. CASE pc = "relink"
    <3>1. faults = 1 /\ Target = 0 /\ Quarantine = Original
      BY <1>3, <1>6, <2>8 DEF Undone, Undoing
    <3>2. Target' = Original /\ pc' = "restore-unlink"
      BY <1>1, <1>9, <2>8, <3>1, ChangingSteps, NameChanges
    <3> QED
      BY <2>1, <3>1, <3>2 DEF Undone, Still, Early, Reserved, Undoing, Finishing
  <2>9. CASE pc = "restore-unlink"
    <3>1. faults = 1 /\ Target = Original
      BY <1>3, <1>6, <2>9 DEF Undone, Undoing
    <3>2. Target' = Target /\ Quarantine' = 0 /\ pc' \in {"restore", "leave"}
      BY <1>1, <1>9, <2>9, ChangingSteps, NameChanges
    <3> QED
      BY <2>1, <3>1, <3>2 DEF Undone, Still, Early, Reserved, Undoing, Finishing
  <2> QED
    BY <1>1, <1>9, <2>2, <2>3, <2>4, <2>5, <2>6, <2>7, <2>8, <2>9, ChangingSteps
<1>10. CASE Fault
  <2>1. faults = 0 /\ faults' = 1
    <3>1. faults' = faults + 1 /\ faults' <= 1
      BY <1>1, <1>10, FaultSteps DEF Alone
    <3> QED
      BY <1>1, <3>1
  <2>2. pc \notin Undoing \cup {"proof"}
    BY <1>3, <1>6, <2>1 DEF Undone
  <2>3. Target' = Target /\ (pc # "drop-unlink" => Quarantine' = Quarantine)
    BY <1>1, <1>10, FaultSteps, NameChanges DEF Target, Quarantine
  <2>4. \/ pc \in Early \cup Reserved \cup {"unlink", "discard", "discard-unlink"}
           /\ pc' \in Reserved \cup {"discard", "failed"}
        \/ pc \in Finishing /\ pc' = "failed"
        \/ pc = "capture" /\ pc' = "restore"
        \/ pc = "install" /\ pc' = "restore"
        \/ pc \in {"drop", "drop-unlink"} /\ pc' = "proof"
    BY <1>1, <1>3, <1>4, <1>10, <2>2, FaultSteps DEF Early, Reserved, Finishing, Undoing
  <2> QED
    BY <1>3, <1>5, <1>6, <2>1, <2>3, <2>4 DEF Undone, Early, Reserved, Undoing, Finishing
<1> QED
  BY <1>2, <1>7, <1>8, <1>9, <1>10 DEF Step, Looking, Removing, Changing

\* Every step of the call, every exception and every step of the user keeps the invariant.
LEMMA NextOK == IInv /\ [Next]_vars => IInv'
<1> SUFFICES ASSUME IInv, [Next]_vars PROVE IInv'
  OBVIOUS
<1>1. CASE Next
  BY <1>1, TypeOf, FreshOf, PrivateOf, KeptOf, DetainedOf, LookedOf, UntouchedOf, UndoneOf
  DEF Next, IInv
<1>2. CASE UNCHANGED vars
  BY <1>2 DEF vars, disk, IInv, TypeOK, Fresh, Private, Kept, Stays, Detained, Detached, Looked,
     Edited, Untouched, Undone, Alone, Installed, Target, Temporary, Quarantine
<1> QED
  BY <1>1, <1>2

-----------------------------------------------------------------------------
(* What a call may do to the files.                                         *)

\* What each step of compare_and_swap has found holds, or the user changed it since.
THEOREM CallsAreInOrder == Spec => []IInv
BY InitOK, NextOK, PTL DEF Spec

\* FailedLeaves (the handlers of compare_and_swap): a call that failed on its own left the
\* path as the engine relies on.  The places of what is undone (Undone) decide for a
\* replacement.
THEOREM FailuresLeaveAFile == Spec => []FailedLeaves
<1>1. ASSUME IInv, pc = "failed", meddles = 0, faults <= 1
      PROVE  /\ action = "create" => At("target") \in {Nothing, Proof(New, 1), Proof(New, 2)}
             /\ action = "replace" =>
                  At("target") \in {Proof(i, l) : i \in {Original, New}, l \in {1, 2}}
             /\ action = "unlink" => At("target") \in {Nothing, Proof(Original, 1), Linked}
  <2> USE <1>1, InodesGiven DEF IInv
  <2>1. /\ Target = entry["target"] /\ data[Original] = 0 /\ data[New] = 0
        /\ elsewhere[Original] = 0 /\ elsewhere[New] = 0
        /\ Temporary \in {0, New} /\ Quarantine \in {0, Original}
    BY DEF Target, Private, Untouched
  <2>2. CASE Target = 0
    <3>1. At("target") = Nothing
      BY <2>1, <2>2 DEF At
    <3>2. action # "replace"
      BY <2>2 DEF Undone, Alone
    <3> QED
      BY <3>1, <3>2
  <2>3. ASSUME NEW i \in {Original, New}, Target = i
        PROVE  At("target") \in {Proof(i, 1), Proof(i, 2)}
    <3>1. Links(i) \in {1, 2}
      BY <2>1, <2>3, LinksCounted DEF One
    <3>2. i # 0 /\ data[i] = 0
      BY <2>1, <2>3
    <3> QED
      BY <2>1, <2>3, <3>1, <3>2 DEF At, Proof
  <2>4. CASE Target = Original
    <3>1. At("target") \in {Proof(Original, 1), Proof(Original, 2)}
      BY <2>3, <2>4
    <3>2. action # "create"
      BY <2>4 DEF Private
    <3> QED
      BY <3>1, <3>2 DEF Linked
  <2>5. CASE Target = New
    <3>1. At("target") \in {Proof(New, 1), Proof(New, 2)}
      BY <2>3, <2>5
    <3>2. action # "unlink"
      BY <2>5 DEF Private
    <3> QED
      BY <3>1, <3>2
  <2>6. Target \in {0, Original, New}
    BY DEF Untouched, TypeOK
  <2> QED
    BY <2>2, <2>4, <2>5, <2>6
<1>2. IInv => FailedLeaves
  <2>1. IInv => action \in {"create", "replace", "unlink"}
    BY DEF IInv, TypeOK
  <2>2. CASE ~(pc = "failed" /\ meddles = 0 /\ faults <= 1)
    BY <2>2 DEF FailedLeaves
  <2>3. CASE IInv /\ pc = "failed" /\ meddles = 0 /\ faults <= 1
    <3>1. CASE action = "create"
      BY <1>1, <2>3, <3>1 DEF FailedLeaves
    <3>2. CASE action = "replace"
      BY <1>1, <2>3, <3>2 DEF FailedLeaves
    <3>3. CASE action = "unlink"
      BY <1>1, <2>3, <3>3 DEF FailedLeaves
    <3> QED
      BY <2>1, <2>3, <3>1, <3>2, <3>3
  <2> QED
    BY <2>2, <2>3
<1> QED
  BY <1>2, CallsAreInOrder, PTL

\* The last name of an inode is one of the three, and a step of the call takes it.
LEMMA LastName ==
  ASSUME IInv, [Next]_vars, NEW i \in Inodes, LosesLastName(i)
  PROVE  /\ \/ Target = i /\ Target' # i
            \/ Temporary = i /\ Temporary' # i
            \/ Quarantine = i /\ Quarantine' # i
         /\ i \notin {Target', Temporary', Quarantine'}
         /\ Step \/ (Fault /\ pc = "drop-unlink" /\ entry' = [entry EXCEPT !["quarantine"] = 0])
<1> USE InodesGiven DEF IInv
<1>1. TypeOK' /\ TypeOK
  BY NextOK
<1>2. meddles' = meddles /\ Links(i) # 0
  BY <1>1, LinksType DEF LosesLastName
<1>3. Links(i)' = 0
  BY DEF LosesLastName
<1>4. Cardinality(NamesOf(entry', i)) + elsewhere'[i] = 0
  BY <1>3 DEF Links, NamesOf
<1>5. One(Target' = i) + One(Temporary' = i) + One(Quarantine' = i) + elsewhere'[i] = 0
  BY <1>4, NamesCounted DEF Target, Temporary, Quarantine
<1>6. Target' # i /\ Temporary' # i /\ Quarantine' # i /\ elsewhere'[i] = 0
  BY <1>1, <1>5 DEF One, TypeOK
<1>7. ~Meddle
  BY <1>1, <1>2, UserSteps DEF TypeOK
<1>8. Step \/ Fault
  BY <1>6, <1>7, <1>2, LinksCounted DEF Next, vars, disk, One, Target, Temporary, Quarantine
<1>9. elsewhere[i] = 0
  BY <1>1, <1>6, <1>8, NamesFollow
<1>10. i \in {Target, Temporary, Quarantine}
  BY <1>2, <1>9, LinksCounted DEF One
<1>11. entry' # entry
  BY <1>6, <1>10 DEF Target, Temporary, Quarantine
<1> QED
  BY <1>1, <1>6, <1>8, <1>10, <1>11, FaultSteps

\* Where the call takes a name away, and which.
LEMMA NamesTaken ==
  ASSUME IInv, [Next]_vars, NEW i \in Inodes, LosesLastName(i)
  PROVE  \/ /\ pc \in {"unreserve-unlink", "withdraw-unlink", "handler-unlink", "restore-unlink",
                       "drop-unlink", "leave-unlink"}
            /\ Quarantine = i /\ Target # i
         \/ /\ pc \in {"unlink", "retract-unlink"}
            /\ Target = i /\ Quarantine # i
         \/ /\ pc \in {"finish-unlink", "discard-unlink"}
            /\ Temporary = i /\ Target # i
<1> USE InodesGiven DEF IInv
<1>1. TypeOK /\ "target" \in Names /\ "temporary" \in Names /\ "quarantine" \in Names
  BY DEF Names
<1>2. CASE Looking
  BY <1>2, LookingSteps, LastName DEF disk, Target, Temporary, Quarantine
<1>3. CASE Removing
  BY <1>1, <1>3, RemovingSteps, NameChanges, LastName
<1>4. CASE Changing
  <2>1. entry' # entry /\ i # 0
    BY LastName DEF Target, Temporary, Quarantine
  <2>2. CASE pc = "temporary" /\ entry' = [entry EXCEPT !["temporary"] = New]
    <3>1. Temporary \in {0, New}
      BY DEF Private
    <3>2. Target' = Target /\ Temporary' = New /\ Quarantine' = Quarantine
      BY <1>1, <2>2, NameChanges
    <3> HIDE DEF IInv
    <3> QED
      BY <2>1, <3>1, <3>2, LastName
  <2>3. CASE pc = "link" /\ entry' = [entry EXCEPT !["quarantine"] = Target]
    <3>1. Quarantine = 0
      BY <2>3 DEF Private, Early
    <3> QED
      BY <1>1, <2>1, <2>3, <3>1, LastName, NameChanges
  <2>4. CASE /\ pc \in {"unlink", "retract-unlink"}
             /\ entry' = [entry EXCEPT !["target"] = 0]
    BY <1>1, <2>1, <2>4, LastName, NameChanges
  <2>5. ASSUME pc \in {"install", "relink"}, Target = 0, NEW j,
               entry' = [entry EXCEPT !["target"] = j]
        PROVE  FALSE
    BY <1>1, <2>1, <2>5, LastName, NameChanges
  <2>6. CASE pc = "restore-unlink" /\ entry' = [entry EXCEPT !["quarantine"] = 0]
    BY <1>1, <2>1, <2>6, LastName, NameChanges
  <2> QED
    BY <1>1, <1>4, <2>1, <2>2, <2>3, <2>4, <2>5, <2>6, ChangingSteps
<1>5. CASE Fault
  <2>1. pc = "drop-unlink" /\ entry' = [entry EXCEPT !["quarantine"] = 0]
    <3>1. entry' # entry
      BY LastName DEF Target, Temporary, Quarantine
    <3> QED
      BY <1>1, <1>5, <3>1, FaultSteps
  <2>2. Target' = Target /\ Temporary' = Temporary /\ Quarantine' = 0
    BY <1>1, <2>1, NameChanges
  <2>3. Quarantine = i /\ Target # i
    BY <2>2, LastName
  <2> QED
    BY <2>1, <2>3
<1> QED
  BY <1>2, <1>3, <1>4, <1>5, LastName DEF Step, Looking, Removing, Changing

\* SuccessExact (filesystem.py, the end of compare_and_swap): the last check finds the new
\* file with one link, so the temporary is no name of it, and the quarantine is gone since
\* the proof.
THEOREM SuccessIsExact == Spec => SuccessExact
<1>1. ASSUME IInv, [Next]_vars, pc = "final", pc' = "done"
      PROVE  /\ At("target") = IF Installed THEN Proof(New, 1) ELSE Nothing
             /\ entry["temporary"] = 0 /\ entry["quarantine"] = 0
  <2> USE <1>1, InodesGiven DEF IInv
  <2>1. Final
    BY DEF Next, vars, Fault, Handlers, Meddle, Step, Compare, OpenTemporary, WriteTemporary,
       Recheck, OpenSource, LinkQuarantine, StatQuarantine, VerifyQuarantine, CheckCreated,
       RemoveCreated, Boundary, Withdraw, WithdrawUnlink, Handler, HandlerUnlink, UnlinkTarget,
       Capture, Install, Drop, DropUnlink, Prove, Finish, FinishUnlink, Retract, RetractUnlink,
       Restore, Relink, RestoreUnlink, Leave, LeaveUnlink, Discard, DiscardUnlink, Check, Remove
  <2>2. Quarantine = 0
    BY DEF Private, Finishing
  <2>3. CASE ~Installed
    <3>1. Temporary = 0 /\ Target = 0
      BY <2>1, <2>3 DEF Final, Check, Goto, Private, Installed, Target
    <3> QED
      BY <2>2, <2>3, <3>1 DEF At, Target, Temporary, Quarantine
  <2>4. CASE Installed
    <3>1. At("target") = Proof(New, 1)
      BY <2>1, <2>4 DEF Final, Check, Goto
    <3>2. Target = New /\ Links(New) = 1
      BY <3>1 DEF At, Proof, Nothing, Target
    <3>3. Temporary # New
      BY <3>2, LinksCounted DEF One, TypeOK
    <3> QED
      BY <2>2, <2>4, <3>1, <3>3 DEF Private, Temporary, Quarantine
  <2> QED
    BY <2>3, <2>4
<1>2. IInv /\ [Next]_vars =>
        [(pc = "final" /\ pc' = "done" =>
              /\ At("target") = IF Installed THEN Proof(New, 1) ELSE Nothing
              /\ entry["temporary"] = 0 /\ entry["quarantine"] = 0)]_vars
  BY <1>1
<1> QED
  BY <1>2, CallsAreInOrder, PTL DEF Spec, SuccessExact

\* OriginalKept: of the steps that take a last name away, those of a replacement that take
\* the original's find another file at the path or follow the user's removal of it.
THEOREM OriginalIsKept == Spec => OriginalKept
<1>1. ASSUME IInv, [Next]_vars, Installed, LosesLastName(Original)
      PROVE  entry["target"] # 0 \/ dropped # {}
  <2> USE <1>1, InodesGiven DEF IInv
  <2>1. Temporary # Original
    BY DEF Private
  <2>2. CASE pc \in {"unreserve-unlink", "withdraw-unlink", "restore-unlink"}
    BY <2>2, NamesTaken DEF Kept, Stays, Reserved, Target
  <2>3. CASE pc = "handler-unlink"
    BY <2>3, NamesTaken DEF Kept, Stays, Reserved, Target
  <2>4. CASE pc = "drop-unlink"
    BY <2>4 DEF Kept, Stays, Target
  <2>5. CASE pc = "leave-unlink"
    BY <2>5 DEF Kept, Target
  <2>6. CASE pc \in {"unlink", "retract-unlink"}
    BY <2>6, NamesTaken DEF Target
  <2> QED
    BY <2>1, <2>2, <2>3, <2>4, <2>5, <2>6, NamesTaken
<1>2. IInv /\ [Next]_vars =>
        [(Installed /\ LosesLastName(Original) => entry["target"] # 0 \/ dropped # {})]_vars
  BY <1>1
<1> QED
  BY <1>2, CallsAreInOrder, PTL DEF Spec, OriginalKept

\* LostOnlyInWindow: what the user wrote is destroyed only if he wrote it after the look
\* the unlink relies on.
THEOREM LossesAreInWindows == Spec => LostOnlyInWindow
<1>1. ASSUME IInv, [Next]_vars, NEW i \in Inodes, data[i] # 0, LosesLastName(i)
      PROVE  since[i] \in Window
  <2> USE <1>1, InodesGiven DEF IInv
  <2>1. i \notin dropped /\ i # 0
    BY DEF LosesLastName
  <2>2. CASE pc \in {"unreserve-unlink", "withdraw-unlink", "handler-unlink", "restore-unlink"}
    BY <2>1, <2>2, NamesTaken DEF Kept, Stays, Reserved
  <2>3. CASE pc = "drop-unlink"
    BY <2>1, <2>3, NamesTaken DEF Detained, Detached, Looked, Edited, Window, LookToUnlink
  <2>4. CASE pc = "leave-unlink"
    BY <2>1, <2>4, NamesTaken DEF Detained, Looked, Edited, Window, LookToUnlink
  <2>5. CASE pc = "unlink"
    BY <2>1, <2>5, NamesTaken DEF Detained, Looked, Window, LookToUnlink
  <2>6. CASE pc = "retract-unlink"
    BY <2>1, <2>6, NamesTaken DEF Looked, Edited, Window, LookToUnlink
  <2>7. CASE pc = "finish-unlink"
    <3>1. i = New
      BY <2>1, <2>7, NamesTaken DEF Private
    <3>2. Installed
      BY <2>7 DEF Private, Installed, TypeOK
    <3> QED
      BY <2>1, <2>7, <3>1, <3>2, NamesTaken DEF Kept, Stays
  <2>8. CASE pc = "discard-unlink"
    BY <2>1, <2>8, NamesTaken DEF Private, Looked
  <2> QED
    BY <2>2, <2>3, <2>4, <2>5, <2>6, <2>7, <2>8, NamesTaken
<1>2. IInv /\ [Next]_vars =>
        [(\A i \in Inodes : data[i] # 0 /\ LosesLastName(i) => since[i] \in Window)]_vars
  BY <1>1
<1> QED
  BY <1>2, CallsAreInOrder, PTL DEF Spec, LostOnlyInWindow
=============================================================================
