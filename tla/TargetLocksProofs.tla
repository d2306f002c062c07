------------------------- MODULE TargetLocksProofs -------------------------
(***************************************************************************)
(* Theorems about TargetLocks, for any number of contexts, processes,      *)
(* homes, inodes, kills, faults and interferences of the user: at most one *)
(* context writes to a home, a context that is through holds nothing, the  *)
(* clean-up takes away no home that is locked, and a refusal has a cause.  *)
(***************************************************************************)
EXTENDS TargetLocks, TLAPS

\* Where a context is when it is still acquiring, and when the home it has
\* reached is pinned, or already locked.
Acquiring == {"validate", "look", "enter", "pin", "publish", "bind", "prove", "rmdir", "anchor",
              "flock-home", "check-home", "flock-anchor", "check-anchor", "held"}
PinnedPcs == {"anchor", "flock-home", "check-home", "flock-anchor", "check-anchor", "held"}
LockedPcs == {"check-home", "flock-anchor", "check-anchor", "held"}

\* The home a context saw or created is a directory while it is being opened.
SawOK == \A c \in Contexts : pc[c] \in {"pin", "publish", "bind", "prove"} => saw[c] \in Dirs

\* Every home locked so far is pinned and its directory is locked by c.
Locked(c, i) == i < at[c] \/ (i = at[c] /\ pc[c] \in LockedPcs)
HoldsOK ==
  \A c \in Contexts : pc[c] \in Acquiring =>
    /\ at[c] \in DOMAIN Route[c]
    /\ pc[c] \in PinnedPcs => Pinned(c) \in Dirs
    /\ \A i \in DOMAIN Route[c] : Locked(c, i) =>
         /\ pin[c][Route[c][i]] \in Dirs
         /\ dirLock[pin[c][Route[c][i]]] = c

\* A lease is held in the protected section only, with every home locked.
LeaseOK == \A c \in Contexts : lease[c] => pc[c] = "held" /\ at[c] = Len(Route[c])

\* A context that gives up has reached a home.
UndoingOK == \A c \in Contexts : pc[c] = "undo" => at[c] \in DOMAIN Route[c]

IInv == TypeOK /\ SawOK /\ HoldsOK /\ LeaseOK /\ UndoingOK

-----------------------------------------------------------------------------
LEMMA RouteFacts ==
  ASSUME NEW c \in Contexts
  PROVE  /\ Route[c] \in Seq(Paths) /\ Len(Route[c]) \in Nat /\ 1 \in DOMAIN Route[c]
         /\ DOMAIN Route[c] = 1..Len(Route[c])
         /\ \A i \in DOMAIN Route[c] : Route[c][i] \in Paths
         /\ \A i, j \in DOMAIN Route[c] : Route[c][i] = Route[c][j] => i = j
<1>1. Route[c] \in Seq(Paths) /\ Route[c] # <<>>
  BY LocksAssumption
<1> QED
  BY <1>1, LocksAssumption

LEMMA InitOK == Init => IInv
<1> SUFFICES ASSUME Init PROVE IInv
  OBVIOUS
<1>1. dirs \in 0..MaxDirs
  BY LocksAssumption DEF Init
<1>2. entry \in [Paths -> 0..MaxDirs]
  BY <1>1, LocksAssumption DEF Init
<1>3. at \in [Contexts -> Nat] /\ \A c \in Contexts : at[c] \in 0..Len(Route[c])
  BY RouteFacts DEF Init
<1>4. TypeOK
  BY <1>1, <1>2, <1>3, LocksAssumption DEF Init, TypeOK, Pcs, Dirs
<1>5. HoldsOK
  BY RouteFacts DEF Init, HoldsOK, Locked, PinnedPcs, LockedPcs
<1> QED
  BY <1>4, <1>5 DEF Init, IInv, SawOK, LeaseOK, UndoingOK

\* Mutual exclusion follows: two leases on one directory are one lock.
LEMMA Excludes == IInv => MutualExclusion
<1> SUFFICES ASSUME IInv, NEW c \in Contexts, NEW o \in Contexts, NEW h \in Paths,
                    MayWrite(c, h), MayWrite(o, h)
             PROVE  c = o
  BY DEF MutualExclusion
<1>1. ASSUME NEW x \in Contexts, MayWrite(x, h)
      PROVE  dirLock[entry[h]] = x
  <2>1. PICK i \in DOMAIN Route[x] : Route[x][i] = h
    BY <1>1 DEF MayWrite, Homes
  <2>2. pc[x] = "held" /\ at[x] = Len(Route[x])
    BY <1>1 DEF MayWrite, IInv, LeaseOK
  <2>3. Locked(x, i)
    BY <2>1, <2>2, RouteFacts DEF Locked, LockedPcs
  <2>4. dirLock[pin[x][h]] = x
    BY <2>1, <2>2, <2>3 DEF IInv, HoldsOK, Acquiring
  <2> QED
    BY <1>1, <2>4 DEF MayWrite
<1> QED
  BY <1>1

-----------------------------------------------------------------------------
\* A step of c that keeps every flock of a directory but possibly takes or
\* gives back one of its own, and keeps pc, at and pins of the others.
Others(c) ==
  /\ \A o \in Contexts \ {c} : pc'[o] = pc[o] /\ at'[o] = at[o] /\ pin'[o] = pin[o]
                               /\ saw'[o] = saw[o] /\ lease'[o] = lease[o]
  /\ \A d \in Dirs : dirLock[d] \in Contexts \ {c} => dirLock'[d] = dirLock[d]

\* Then the invariant only has to be checked for c.
LEMMA OneContext ==
  ASSUME IInv, TypeOK', NEW c \in Contexts, Others(c),
         pc'[c] \in {"pin", "publish", "bind", "prove"} => saw'[c] \in Dirs,
         pc'[c] \in Acquiring =>
           /\ at'[c] \in DOMAIN Route[c]
           /\ pc'[c] \in PinnedPcs => Pinned(c)' \in Dirs
           /\ \A i \in DOMAIN Route[c] : Locked(c, i)' =>
                /\ pin'[c][Route[c][i]] \in Dirs
                /\ dirLock'[pin'[c][Route[c][i]]] = c,
         lease'[c] => pc'[c] = "held" /\ at'[c] = Len(Route[c]),
         pc'[c] = "undo" => at'[c] \in DOMAIN Route[c]
  PROVE  IInv'
<1>1. SawOK'
  BY DEF SawOK, IInv, Others
<1>2. LeaseOK'
  BY DEF LeaseOK, IInv, Others
<1>3. HoldsOK'
  <2> SUFFICES ASSUME NEW o \in Contexts, pc'[o] \in Acquiring, o # c
               PROVE  /\ at'[o] \in DOMAIN Route[o]
                      /\ pc'[o] \in PinnedPcs => Pinned(o)' \in Dirs
                      /\ \A i \in DOMAIN Route[o] : Locked(o, i)' =>
                           /\ pin'[o][Route[o][i]] \in Dirs
                           /\ dirLock'[pin'[o][Route[o][i]]] = o
    BY DEF HoldsOK
  <2>1. pc'[o] = pc[o] /\ at'[o] = at[o] /\ pin'[o] = pin[o]
    BY DEF Others
  <2>2. /\ at[o] \in DOMAIN Route[o]
        /\ pc[o] \in PinnedPcs => Pinned(o) \in Dirs
        /\ \A i \in DOMAIN Route[o] : Locked(o, i) =>
             /\ pin[o][Route[o][i]] \in Dirs
             /\ dirLock[pin[o][Route[o][i]]] = o
    BY <2>1 DEF IInv, HoldsOK
  <2>3. Pinned(o)' = Pinned(o)
    BY <2>1 DEF Pinned, Home
  <2>4. \A i : Locked(o, i)' <=> Locked(o, i)
    BY <2>1 DEF Locked
  <2> QED
    BY <2>1, <2>2, <2>3, <2>4 DEF Others
<1>4. UndoingOK'
  BY DEF UndoingOK, IInv, Others
<1> QED
  BY <1>1, <1>2, <1>3, <1>4 DEF IInv

\* A step of c that leaves at, pins, directories' locks and leases alone.
LEMMA QuietStep ==
  ASSUME IInv, TypeOK', NEW c \in Contexts, NEW p, Go(c, p),
         UNCHANGED <<dirLock, at, pin, lease>>,
         \A o \in Contexts \ {c} : saw'[o] = saw[o],
         pc[c] # "held",
         p \in Acquiring \cup {"undo"} => pc[c] \in Acquiring,
         p \in PinnedPcs => pc[c] \in PinnedPcs,
         p \in LockedPcs => pc[c] \in LockedPcs,
         p \in {"pin", "publish", "bind", "prove"} => saw'[c] \in Dirs
  PROVE  IInv'
<1>1. pc'[c] = p /\ \A o \in Contexts \ {c} : pc'[o] = pc[o]
  BY DEF Go, IInv, TypeOK
<1>2. Others(c)
  BY <1>1 DEF Others
<1>3. ASSUME p \in Acquiring
      PROVE  /\ at'[c] \in DOMAIN Route[c]
             /\ p \in PinnedPcs => Pinned(c)' \in Dirs
             /\ \A i \in DOMAIN Route[c] : Locked(c, i)' =>
                  /\ pin'[c][Route[c][i]] \in Dirs
                  /\ dirLock'[pin'[c][Route[c][i]]] = c
  <2>1. \A i : Locked(c, i)' => Locked(c, i)
    BY <1>1 DEF Locked
  <2>2. Pinned(c)' = Pinned(c)
    BY DEF Pinned, Home
  <2> QED
    BY <1>3, <2>1, <2>2 DEF IInv, HoldsOK
<1>4. ~lease[c]
  BY DEF IInv, LeaseOK
<1>5. p = "undo" => at'[c] \in DOMAIN Route[c]
  BY DEF IInv, HoldsOK
<1> QED
  BY <1>1, <1>2, <1>3, <1>4, <1>5, OneContext DEF Acquiring

-----------------------------------------------------------------------------
(* The steps that open or create a home. *)

LEMMA HomeTyped ==
  ASSUME IInv, NEW c \in Contexts, pc[c] \in Acquiring
  PROVE  Home(c) \in Paths /\ at[c] \in DOMAIN Route[c] /\ at[c] \in Nat
BY RouteFacts DEF Home, IInv, HoldsOK, TypeOK

LEMMA LookOK == ASSUME IInv, NEW c \in Contexts, Look(c) PROVE IInv'
<1>1. pc[c] = "look" /\ Home(c) \in Paths
  BY HomeTyped DEF Look, Acquiring
<1>2. TypeOK'
  BY <1>1 DEF Look, IInv, TypeOK, Go, Pcs, world, locks, bounds
<1> QED
  BY <1>1, <1>2, QuietStep DEF Look, IInv, TypeOK, Acquiring, PinnedPcs, LockedPcs, locks

LEMMA ValidateOK == ASSUME IInv, NEW c \in Contexts, Validate(c) PROVE IInv'
<1>1. TypeOK'
  BY DEF Validate, IInv, TypeOK, Go, Pcs, world, locks, memory, bounds
<1> QED
  BY <1>1, QuietStep DEF Validate, IInv, TypeOK, Acquiring, PinnedPcs, LockedPcs, locks, memory

LEMMA RefuseTyped ==
  ASSUME TypeOK, NEW c \in Contexts, Refuse(c)
  PROVE  pc' \in [Contexts -> Pcs] /\ refused' \in [Contexts -> BOOLEAN]
BY DEF Refuse, Go, TypeOK, Pcs

LEMMA EnterOK == ASSUME IInv, NEW c \in Contexts, Enter(c) PROVE IInv'
<1>1. pc[c] = "enter" /\ Home(c) \in Paths
  BY HomeTyped DEF Enter, Acquiring
<1>2. entry[Home(c)] \in 0..MaxDirs /\ dirs \in 0..MaxDirs
  BY <1>1 DEF IInv, TypeOK
<1>3. CASE saw[c] = entry[Home(c)] /\ saw[c] # 0 /\ Go(c, "pin") /\ UNCHANGED <<dirs, saw, refused>>
  <2>1. TypeOK'
    BY <1>3 DEF Enter, IInv, TypeOK, Go, Pcs, locks, bounds
  <2>2. saw'[c] \in Dirs
    BY <1>2, <1>3 DEF Dirs
  <2> QED
    BY <1>1, <1>3, <2>1, <2>2, QuietStep DEF Enter, Acquiring, PinnedPcs, LockedPcs, locks
<1>4. CASE /\ dirs < MaxDirs /\ dirs' = dirs + 1 /\ saw' = [saw EXCEPT ![c] = dirs + 1]
           /\ Go(c, "publish") /\ UNCHANGED refused
  <2>1. dirs + 1 \in 0..MaxDirs /\ dirs + 1 \in Dirs
    BY <1>2, <1>4, LocksAssumption DEF Dirs
  <2>2. TypeOK'
    BY <1>4, <2>1 DEF Enter, IInv, TypeOK, Go, Pcs, locks, bounds
  <2>3. saw'[c] \in Dirs /\ \A o \in Contexts \ {c} : saw'[o] = saw[o]
    BY <1>4, <2>1 DEF IInv, TypeOK
  <2> QED
    BY <1>1, <1>4, <2>2, <2>3, QuietStep DEF Enter, Acquiring, PinnedPcs, LockedPcs, locks
<1>5. CASE Refuse(c) /\ UNCHANGED <<dirs, saw>>
  <2>1. TypeOK'
    BY <1>5, RefuseTyped DEF Enter, IInv, TypeOK, locks, bounds
  <2> QED
    BY <1>1, <1>5, <2>1, QuietStep DEF Enter, Refuse, Acquiring, PinnedPcs, LockedPcs, locks
<1> QED
  BY <1>3, <1>4, <1>5 DEF Enter

\* Pinning the home reached: the homes locked before are others.
LEMMA PinStep ==
  ASSUME IInv, TypeOK', NEW c \in Contexts, pc[c] \in {"pin", "prove"}, Go(c, "anchor"),
         pin' = [pin EXCEPT ![c][Home(c)] = saw[c]],
         UNCHANGED <<dirLock, at, saw, lease>>
  PROVE  IInv'
<1>1. pc'[c] = "anchor" /\ \A o \in Contexts \ {c} : pc'[o] = pc[o]
  BY DEF Go, IInv, TypeOK
<1>2. Home(c) \in Paths /\ at[c] \in DOMAIN Route[c] /\ at[c] \in Nat /\ saw[c] \in Dirs
  BY HomeTyped DEF Acquiring, IInv, SawOK
<1>3. Others(c)
  BY <1>1 DEF Others, IInv, TypeOK
<1>4. pin'[c][Home(c)] = saw[c] /\ Pinned(c)' = saw[c]
  BY <1>2 DEF Pinned, Home, IInv, TypeOK
<1>5. \A i \in DOMAIN Route[c] : Locked(c, i)' =>
        /\ Locked(c, i) /\ Route[c][i] # Home(c)
        /\ pin'[c][Route[c][i]] = pin[c][Route[c][i]]
  <2> SUFFICES ASSUME NEW i \in DOMAIN Route[c], Locked(c, i)'
               PROVE  /\ Locked(c, i) /\ Route[c][i] # Home(c)
                      /\ pin'[c][Route[c][i]] = pin[c][Route[c][i]]
    OBVIOUS
  <2>1. i < at[c]
    BY <1>1 DEF Locked, LockedPcs
  <2>2. Route[c][i] # Home(c)
    BY <1>2, <2>1, RouteFacts DEF Home
  <2> QED
    BY <2>1, <2>2 DEF Locked, IInv, TypeOK
<1>6. \A i \in DOMAIN Route[c] : Locked(c, i)' =>
        /\ pin'[c][Route[c][i]] \in Dirs
        /\ dirLock'[pin'[c][Route[c][i]]] = c
  BY <1>5 DEF IInv, HoldsOK, Acquiring
<1>7. ~lease'[c]
  BY DEF IInv, LeaseOK
<1> QED
  BY <1>1, <1>2, <1>3, <1>4, <1>6, <1>7, OneContext

LEMMA PinHomeOK == ASSUME IInv, NEW c \in Contexts, PinHome(c) PROVE IInv'
<1>1. pc[c] = "pin" /\ Home(c) \in Paths
  BY HomeTyped DEF PinHome, Acquiring
<1>2. CASE pin' = [pin EXCEPT ![c][Home(c)] = saw[c]] /\ Go(c, "anchor") /\ UNCHANGED refused
  <2>1. TypeOK'
    BY <1>1, <1>2 DEF PinHome, IInv, TypeOK, Go, Pcs, world, locks, bounds
  <2> QED
    BY <1>1, <1>2, <2>1, PinStep DEF PinHome, locks
<1>3. CASE Refuse(c) /\ UNCHANGED pin
  <2>1. TypeOK'
    BY <1>3, RefuseTyped DEF PinHome, IInv, TypeOK, world, locks, bounds
  <2> QED
    BY <1>1, <1>3, <2>1, QuietStep DEF PinHome, Refuse, Acquiring, PinnedPcs, LockedPcs, locks
<1> QED
  BY <1>2, <1>3 DEF PinHome

LEMMA PublishOK == ASSUME IInv, NEW c \in Contexts, Publish(c) PROVE IInv'
<1>1. pc[c] = "publish" /\ Home(c) \in Paths /\ saw[c] \in Dirs
  BY HomeTyped DEF Publish, Acquiring, IInv, SawOK
<1>2. CASE /\ entry' = [entry EXCEPT ![Home(c)] = saw[c]]
           /\ Go(c, "bind") /\ UNCHANGED <<gone, refused>>
  <2>1. TypeOK'
    BY <1>1, <1>2 DEF Publish, IInv, TypeOK, Go, Pcs, locks, memory, bounds
  <2> QED
    BY <1>1, <1>2, <2>1, QuietStep DEF Publish, Acquiring, PinnedPcs, LockedPcs, locks, memory
<1>3. CASE gone' = gone \cup {saw[c]} /\ Refuse(c) /\ UNCHANGED entry
  <2>1. TypeOK'
    BY <1>1, <1>3, RefuseTyped DEF Publish, IInv, TypeOK, locks, memory, bounds
  <2> QED
    BY <1>1, <1>3, <2>1, QuietStep
       DEF Publish, Refuse, Acquiring, PinnedPcs, LockedPcs, locks, memory
<1> QED
  BY <1>2, <1>3 DEF Publish

LEMMA BindOK == ASSUME IInv, NEW c \in Contexts, Bind(c) PROVE IInv'
<1>1. pc[c] = "bind" /\ saw[c] \in Dirs
  BY DEF Bind, IInv, SawOK
<1>2. ctime[saw[c]] \in Nat
  BY <1>1 DEF IInv, TypeOK
<1>3. CASE Go(c, "prove") /\ UNCHANGED refused
  <2>1. TypeOK'
    BY <1>2, <1>3 DEF Bind, IInv, TypeOK, Go, Pcs, world, locks, bounds
  <2> QED
    BY <1>1, <1>3, <2>1, QuietStep DEF Bind, Acquiring, PinnedPcs, LockedPcs, locks
<1>4. CASE Refuse(c)
  <2>1. TypeOK'
    BY <1>2, <1>4, RefuseTyped DEF Bind, IInv, TypeOK, world, locks, bounds
  <2> QED
    BY <1>1, <1>4, <2>1, QuietStep DEF Bind, Refuse, Acquiring, PinnedPcs, LockedPcs, locks
<1> QED
  BY <1>3, <1>4 DEF Bind

LEMMA ProveOK == ASSUME IInv, NEW c \in Contexts, Prove(c) PROVE IInv'
<1>1. pc[c] = "prove" /\ Home(c) \in Paths
  BY HomeTyped DEF Prove, Acquiring
<1>2. CASE pin' = [pin EXCEPT ![c][Home(c)] = saw[c]] /\ Go(c, "anchor") /\ UNCHANGED refused
  <2>1. TypeOK'
    BY <1>1, <1>2 DEF Prove, IInv, TypeOK, Go, Pcs, world, locks, bounds
  <2> QED
    BY <1>1, <1>2, <2>1, PinStep DEF Prove, locks
<1>3. CASE Refuse(c) /\ UNCHANGED pin
  <2>1. TypeOK'
    BY <1>3, RefuseTyped DEF Prove, IInv, TypeOK, world, locks, bounds
  <2> QED
    BY <1>1, <1>3, <2>1, QuietStep DEF Prove, Refuse, Acquiring, PinnedPcs, LockedPcs, locks
<1> QED
  BY <1>2, <1>3 DEF Prove

LEMMA UnpublishOK == ASSUME IInv, NEW c \in Contexts, Unpublish(c) PROVE IInv'
<1>1. pc[c] \in {"bind", "prove"}
  BY DEF Unpublish
<1>2. CASE Go(c, "rmdir") /\ UNCHANGED refused
  <2>1. TypeOK'
    BY <1>2 DEF Unpublish, IInv, TypeOK, Go, Pcs, world, locks, memory
  <2> QED
    BY <1>1, <1>2, <2>1, QuietStep DEF Unpublish, Acquiring, PinnedPcs, LockedPcs, locks, memory
<1>3. CASE Refuse(c)
  <2>1. TypeOK'
    BY <1>3, RefuseTyped DEF Unpublish, IInv, TypeOK, world, locks, memory
  <2> QED
    BY <1>1, <1>3, <2>1, QuietStep
       DEF Unpublish, Refuse, Acquiring, PinnedPcs, LockedPcs, locks, memory
<1> QED
  BY <1>2, <1>3 DEF Unpublish

LEMMA RmdirOK == ASSUME IInv, NEW c \in Contexts, Rmdir(c) PROVE IInv'
<1>1. pc[c] = "rmdir" /\ Home(c) \in Paths /\ Refuse(c)
  BY HomeTyped DEF Rmdir, Acquiring
<1>2. entry[Home(c)] \in 0..MaxDirs
  BY <1>1 DEF IInv, TypeOK
<1>3. gone' \subseteq Dirs /\ entry' \in [Paths -> 0..MaxDirs]
  <2>1. Removable(entry[Home(c)]) => entry[Home(c)] \in Dirs
    BY <1>2 DEF Removable, Dirs
  <2>2. 0 \in 0..MaxDirs
    BY LocksAssumption
  <2>3. gone \subseteq Dirs /\ entry \in [Paths -> 0..MaxDirs]
    BY DEF IInv, TypeOK
  <2> QED
    BY <2>1, <2>2, <2>3 DEF Rmdir
<1>4. TypeOK'
  BY <1>1, <1>3, RefuseTyped DEF Rmdir, IInv, TypeOK, locks, memory, bounds
<1> QED
  BY <1>1, <1>4, QuietStep DEF Rmdir, Refuse, Acquiring, PinnedPcs, LockedPcs, locks, memory

-----------------------------------------------------------------------------
(* The anchor, the two flocks, and the release. *)

LEMMA AcquiringFacts ==
  ASSUME IInv, NEW c \in Contexts, pc[c] \in PinnedPcs
  PROVE  Home(c) \in Paths /\ Pinned(c) \in Dirs /\ at[c] \in DOMAIN Route[c] /\ at[c] \in Nat
BY HomeTyped DEF PinnedPcs, Acquiring, IInv, HoldsOK

LEMMA OpenAnchorOK == ASSUME IInv, NEW c \in Contexts, OpenAnchor(c) PROVE IInv'
<1>1. pc[c] = "anchor" /\ Home(c) \in Paths /\ Pinned(c) \in Dirs
  BY AcquiringFacts DEF OpenAnchor, PinnedPcs
<1> DEFINE d == Pinned(c)
           new == anchor[d] = 0
           a == IF new THEN anchors + 1 ELSE anchor[d]
<1>2. CASE Refuse(c) /\ UNCHANGED <<anchor, ctime, anchors, anc, reserved>>
  <2>1. TypeOK'
    BY <1>2, RefuseTyped DEF OpenAnchor, IInv, TypeOK, locks, bounds
  <2> QED
    BY <1>1, <1>2, <2>1, QuietStep
       DEF OpenAnchor, Refuse, Acquiring, PinnedPcs, LockedPcs, locks
<1>3. CASE /\ new => anchors < MaxAnchors
           /\ anchor' = [anchor EXCEPT ![d] = a]
           /\ anchors' = IF new THEN a ELSE anchors
           /\ ctime' = IF new THEN [ctime EXCEPT ![d] = @ + 1] ELSE ctime
           /\ anc' = [anc EXCEPT ![c][Home(c)] = a]
           /\ IF Reservable(c, a)
                THEN /\ reserved' = [reserved EXCEPT ![c] = @ \cup {Home(c)}]
                     /\ Go(c, "flock-home") /\ UNCHANGED refused
                ELSE Refuse(c) /\ UNCHANGED reserved
  <2>1. a \in 0..MaxAnchors
    BY <1>1, <1>3, LocksAssumption DEF IInv, TypeOK
  <2> HIDE DEF a
  <2>2. /\ anchor' \in [Dirs -> 0..MaxAnchors] /\ anchors' \in 0..MaxAnchors
        /\ ctime' \in [Dirs -> Nat] /\ anc' \in [Contexts -> [Paths -> 0..MaxAnchors]]
    BY <1>1, <1>3, <2>1 DEF IInv, TypeOK
  <2>3. CASE /\ reserved' = [reserved EXCEPT ![c] = @ \cup {Home(c)}]
             /\ Go(c, "flock-home") /\ UNCHANGED refused
    <3>1. TypeOK'
      BY <1>1, <2>2, <2>3 DEF OpenAnchor, IInv, TypeOK, Go, Pcs, locks, bounds
    <3> QED
      BY <1>1, <2>3, <3>1, QuietStep DEF OpenAnchor, Acquiring, PinnedPcs, LockedPcs, locks
  <2>4. CASE Refuse(c) /\ UNCHANGED reserved
    <3>1. TypeOK'
      BY <2>2, <2>4, RefuseTyped DEF OpenAnchor, IInv, TypeOK, locks, bounds
    <3> QED
      BY <1>1, <2>4, <3>1, QuietStep
         DEF OpenAnchor, Refuse, Acquiring, PinnedPcs, LockedPcs, locks
  <2> QED
    BY <1>3, <2>3, <2>4
<1> QED
  BY <1>2, <1>3 DEF OpenAnchor

LEMMA FlockHomeOK == ASSUME IInv, NEW c \in Contexts, FlockHome(c) PROVE IInv'
<1>1. /\ pc[c] = "flock-home" /\ Home(c) \in Paths /\ Pinned(c) \in Dirs
      /\ at[c] \in DOMAIN Route[c] /\ at[c] \in Nat
  BY AcquiringFacts DEF FlockHome, PinnedPcs
<1>2. TypeOK'
  BY <1>1 DEF FlockHome, IInv, TypeOK, Go, Pcs, world, memory, bounds
<1>3. pc'[c] = "check-home" /\ \A o \in Contexts \ {c} : pc'[o] = pc[o]
  BY DEF FlockHome, Go, IInv, TypeOK
<1>4. /\ dirLock'[Pinned(c)] = c
      /\ \A d \in Dirs : d # Pinned(c) => dirLock'[d] = dirLock[d]
  BY <1>1 DEF FlockHome, IInv, TypeOK
<1>5. Others(c)
  BY <1>1, <1>3, <1>4, LocksAssumption DEF Others, FlockHome, memory
<1>6. UNCHANGED <<at, pin, lease>> /\ Pinned(c)' = Pinned(c)
  BY DEF FlockHome, memory, Pinned, Home
<1>7. ASSUME NEW i \in DOMAIN Route[c], Locked(c, i)'
      PROVE  pin'[c][Route[c][i]] \in Dirs /\ dirLock'[pin'[c][Route[c][i]]] = c
  <2>1. CASE i = at[c]
    BY <1>1, <1>4, <1>6, <2>1 DEF Pinned, Home
  <2>2. CASE i # at[c]
    <3>1. Locked(c, i)
      BY <1>6, <1>7, <2>2 DEF Locked
    <3>2. pin[c][Route[c][i]] \in Dirs /\ dirLock[pin[c][Route[c][i]]] = c
      BY <1>1, <3>1 DEF IInv, HoldsOK, Acquiring
    <3> QED
      BY <1>4, <1>6, <3>2
  <2> QED
    BY <2>1, <2>2
<1>8. ~lease'[c]
  BY <1>1, <1>6 DEF IInv, LeaseOK
<1> QED
  BY <1>1, <1>2, <1>3, <1>5, <1>6, <1>7, <1>8, OneContext

LEMMA FlockAnchorOK == ASSUME IInv, NEW c \in Contexts, FlockAnchor(c) PROVE IInv'
<1>1. pc[c] = "flock-anchor" /\ UNCHANGED <<dirLock, at, pin, lease, saw>>
  BY DEF FlockAnchor, memory
<1>2. TypeOK'
  BY DEF FlockAnchor, IInv, TypeOK, Go, Pcs, world, memory, bounds
<1> QED
  BY <1>1, <1>2, QuietStep DEF FlockAnchor, Acquiring, PinnedPcs, LockedPcs

LEMMA CheckHomeOK == ASSUME IInv, NEW c \in Contexts, CheckHome(c) PROVE IInv'
<1>1. pc[c] = "check-home" /\ UNCHANGED <<dirLock, at, pin, lease, saw>>
  BY DEF CheckHome, locks, memory
<1>2. CASE Go(c, "flock-anchor") /\ UNCHANGED refused
  <2>1. TypeOK'
    BY <1>2 DEF CheckHome, IInv, TypeOK, Go, Pcs, world, locks, memory, bounds
  <2> QED
    BY <1>1, <1>2, <2>1, QuietStep DEF Acquiring, PinnedPcs, LockedPcs
<1>3. CASE Refuse(c)
  <2>1. TypeOK'
    BY <1>3, RefuseTyped DEF CheckHome, IInv, TypeOK, world, locks, memory, bounds
  <2> QED
    BY <1>1, <1>3, <2>1, QuietStep DEF Refuse, Acquiring, PinnedPcs, LockedPcs
<1> QED
  BY <1>2, <1>3 DEF CheckHome

\* The index of one context moves within its route.
LEMMA AtTyped ==
  ASSUME TypeOK, NEW c \in Contexts, NEW n \in 0..Len(Route[c]), at' = [at EXCEPT ![c] = n]
  PROVE  at' \in [Contexts -> Nat] /\ \A o \in Contexts : at'[o] \in 0..Len(Route[o])
<1>1. at \in [Contexts -> Nat] /\ \A o \in Contexts : at[o] \in 0..Len(Route[o])
  BY DEF TypeOK
<1>2. n \in Nat
  BY RouteFacts
<1> QED
  BY <1>1, <1>2

LEMMA CheckAnchorOK == ASSUME IInv, NEW c \in Contexts, CheckAnchor(c) PROVE IInv'
<1>1. /\ pc[c] = "check-anchor" /\ at[c] \in DOMAIN Route[c] /\ at[c] \in Nat
      /\ Pinned(c) \in Dirs
  BY AcquiringFacts DEF CheckAnchor, PinnedPcs
<1>2. UNCHANGED <<dirLock, pin, saw>>
  BY DEF CheckAnchor, locks, memory
<1>3. CASE Refuse(c) /\ UNCHANGED <<at, lease>>
  <2>1. TypeOK'
    BY <1>3, RefuseTyped DEF CheckAnchor, IInv, TypeOK, world, locks, memory, bounds
  <2> QED
    BY <1>1, <1>2, <1>3, <2>1, QuietStep DEF Refuse, Acquiring, PinnedPcs, LockedPcs
<1>4. \A i \in DOMAIN Route[c] : i <= at[c] =>
        pin[c][Route[c][i]] \in Dirs /\ dirLock[pin[c][Route[c][i]]] = c
  <2>1. \A i \in DOMAIN Route[c] : i <= at[c] => Locked(c, i)
    BY <1>1, RouteFacts DEF Locked, LockedPcs
  <2> QED
    BY <1>1, <2>1 DEF IInv, HoldsOK, Acquiring
<1>5. CASE /\ at[c] < Len(Route[c]) /\ at' = [at EXCEPT ![c] = @ + 1] /\ Go(c, "look")
           /\ UNCHANGED <<lease, refused>>
  <2>1. at'[c] = at[c] + 1 /\ at'[c] \in DOMAIN Route[c]
    BY <1>1, <1>5, RouteFacts DEF IInv, TypeOK
  <2>0. at' \in [Contexts -> Nat] /\ \A o \in Contexts : at'[o] \in 0..Len(Route[o])
    <3>1. at[c] + 1 \in 0..Len(Route[c]) /\ at' = [at EXCEPT ![c] = at[c] + 1]
      BY <1>1, <1>5, <2>1, RouteFacts
    <3> QED
      BY <3>1, AtTyped DEF IInv
  <2>2. TypeOK'
    BY <1>5, <2>0 DEF CheckAnchor, IInv, TypeOK, Go, Pcs, world, locks, memory, bounds
  <2>3. pc'[c] = "look" /\ \A o \in Contexts \ {c} : pc'[o] = pc[o] /\ at'[o] = at[o]
    BY <1>5 DEF Go, IInv, TypeOK
  <2>4. Others(c)
    BY <1>2, <1>5, <2>3 DEF Others
  <2>5. \A i \in DOMAIN Route[c] : Locked(c, i)' => i <= at[c]
    BY <1>1, <2>1, <2>3, RouteFacts DEF Locked, LockedPcs
  <2>6. ~lease'[c]
    BY <1>1, <1>5 DEF IInv, LeaseOK
  <2> QED
    BY <1>2, <1>4, <2>1, <2>2, <2>3, <2>4, <2>5, <2>6, OneContext DEF PinnedPcs
<1>6. CASE /\ ~(at[c] < Len(Route[c])) /\ lease' = [lease EXCEPT ![c] = TRUE]
           /\ Go(c, "held") /\ UNCHANGED <<at, refused>>
  <2>1. at[c] = Len(Route[c])
    BY <1>1, <1>6, RouteFacts
  <2>2. TypeOK'
    BY <1>6 DEF CheckAnchor, IInv, TypeOK, Go, Pcs, world, locks, memory, bounds
  <2>3. pc'[c] = "held" /\ \A o \in Contexts \ {c} : pc'[o] = pc[o] /\ lease'[o] = lease[o]
    BY <1>6 DEF Go, IInv, TypeOK
  <2>4. Others(c)
    BY <1>2, <1>6, <2>3 DEF Others
  <2>5. \A i \in DOMAIN Route[c] : i <= at[c]
    BY <2>1, RouteFacts
  <2>6. Pinned(c)' = Pinned(c)
    BY <1>2, <1>6 DEF Pinned, Home
  <2> QED
    BY <1>1, <1>2, <1>4, <1>6, <2>1, <2>2, <2>3, <2>4, <2>5, <2>6, OneContext
<1> QED
  BY <1>3, <1>5, <1>6 DEF CheckAnchor

LEMMA LeaveOK == ASSUME IInv, NEW c \in Contexts, Leave(c) PROVE IInv'
<1>1. TypeOK'
  BY DEF Leave, IInv, TypeOK, Go, Pcs, world, locks, memory, bounds
<1>2. /\ pc'[c] = "release" /\ ~lease'[c]
      /\ \A o \in Contexts \ {c} : pc'[o] = pc[o] /\ lease'[o] = lease[o]
  BY DEF Leave, Go, IInv, TypeOK
<1>3. Others(c)
  BY <1>2 DEF Others, Leave, locks, memory
<1> QED
  BY <1>1, <1>2, <1>3, OneContext DEF Acquiring

\* Giving back locks is only ever done by their holder, outside the section.
LEMMA ReleaseStep ==
  ASSUME IInv, TypeOK', NEW c \in Contexts, pc[c] \in {"undo", "release"},
         pc'[c] \in {"undo", "release", "done"},
         pc'[c] = "undo" => pc[c] = "undo" /\ at'[c] = at[c],
         \A o \in Contexts \ {c} : pc'[o] = pc[o] /\ at'[o] = at[o],
         UNCHANGED <<pin, saw, lease>>,
         \A d \in Dirs : dirLock[d] # c => dirLock'[d] = dirLock[d]
  PROVE  IInv'
<1>1. Others(c)
  BY DEF Others
<1>2. ~lease'[c]
  BY DEF IInv, LeaseOK
<1>3. pc'[c] = "undo" => at'[c] \in DOMAIN Route[c]
  BY DEF IInv, UndoingOK
<1> QED
  BY <1>1, <1>2, <1>3, OneContext DEF Acquiring

\* Giving back one flock keeps the types, and the directories of others.
LEMMA UnlockTyped ==
  ASSUME TypeOK, NEW c \in Contexts, NEW i,
         \/ HasAnchor(c, i) /\ UnlockAnchor(c, i)
         \/ HasHome(c, i) /\ UnlockHome(c, i)
         \/ UNCHANGED locks
  PROVE  /\ dirLock' \in [Dirs -> Contexts \cup {Nobody}]
         /\ anchorLock' \in [AnchorIds -> Contexts \cup {Nobody}]
         /\ \A d \in Dirs : dirLock[d] # c => dirLock'[d] = dirLock[d]
BY DEF TypeOK, HasAnchor, HasHome, UnlockAnchor, UnlockHome, locks

LEMMA UndoOK == ASSUME IInv, NEW c \in Contexts, Undo(c) PROVE IInv'
<1>1. /\ dirLock' \in [Dirs -> Contexts \cup {Nobody}]
      /\ anchorLock' \in [AnchorIds -> Contexts \cup {Nobody}]
      /\ \A d \in Dirs : dirLock[d] # c => dirLock'[d] = dirLock[d]
  BY UnlockTyped DEF Undo, IInv
<1>2. CASE UNCHANGED <<pc, at, reserved>>
  <2>1. TypeOK'
    BY <1>1, <1>2 DEF Undo, IInv, TypeOK, world, bounds
  <2> QED
    BY <1>1, <1>2, <2>1, ReleaseStep DEF Undo
<1>3. CASE /\ reserved' = [reserved EXCEPT ![c] = @ \ {Home(c)}]
           /\ at' = [at EXCEPT ![c] = @ - 1] /\ Go(c, "release")
  <2>0. at' \in [Contexts -> Nat] /\ \A o \in Contexts : at'[o] \in 0..Len(Route[o])
    <3>1. at[c] \in 1..Len(Route[c])
      BY RouteFacts DEF Undo, IInv, UndoingOK
    <3>2. at[c] - 1 \in 0..Len(Route[c]) /\ at' = [at EXCEPT ![c] = at[c] - 1]
      BY <1>3, <3>1, RouteFacts
    <3> QED
      BY <3>2, AtTyped DEF IInv
  <2>1. TypeOK'
    BY <1>1, <1>3, <2>0 DEF Undo, IInv, TypeOK, Go, Pcs, world, bounds
  <2>2. pc'[c] = "release" /\ \A o \in Contexts \ {c} : pc'[o] = pc[o] /\ at'[o] = at[o]
    BY <1>3 DEF Go, IInv, TypeOK
  <2> QED
    BY <1>1, <2>1, <2>2, ReleaseStep DEF Undo
<1> QED
  BY <1>2, <1>3 DEF Undo

LEMMA ReleaseOK == ASSUME IInv, NEW c \in Contexts, Release(c) PROVE IInv'
<1>1. /\ dirLock' \in [Dirs -> Contexts \cup {Nobody}]
      /\ anchorLock' \in [AnchorIds -> Contexts \cup {Nobody}]
      /\ \A d \in Dirs : dirLock[d] # c => dirLock'[d] = dirLock[d]
  BY UnlockTyped DEF Release, IInv
<1>2. CASE UNCHANGED <<pc, reserved>>
  <2>1. TypeOK'
    BY <1>1, <1>2 DEF Release, IInv, TypeOK, world, bounds
  <2> QED
    BY <1>1, <1>2, <2>1, ReleaseStep DEF Release
<1>3. CASE reserved' = [reserved EXCEPT ![c] = {}] /\ Go(c, "done")
  <2>1. TypeOK'
    BY <1>1, <1>3 DEF Release, IInv, TypeOK, Go, Pcs, world, bounds
  <2>2. pc'[c] = "done" /\ \A o \in Contexts \ {c} : pc'[o] = pc[o]
    BY <1>3 DEF Go, IInv, TypeOK
  <2> QED
    BY <1>1, <2>1, <2>2, ReleaseStep DEF Release
<1> QED
  BY <1>2, <1>3 DEF Release

-----------------------------------------------------------------------------
(* What goes wrong. *)

LEMMA FaultOK == ASSUME IInv, NEW c \in Contexts, Fault(c) PROVE IInv'
<1>1. TypeOK'
  BY RefuseTyped DEF Fault, IInv, TypeOK, world, locks, memory
<1> QED
  BY <1>1, QuietStep
     DEF Fault, Refuse, Acquiring, PinnedPcs, LockedPcs, world, locks, memory

\* The killed contexts are at rest; the others keep what they hold.
LEMMA KillOK == ASSUME IInv, NEW i, Kill(i) PROVE IInv'
<1> DEFINE Dead == {c \in Contexts : Interpreter[c] = i}
<1>1. /\ \A c \in Dead : pc'[c] = "dead" /\ lease'[c] = FALSE
      /\ \A c \in Contexts \ Dead : pc'[c] = pc[c] /\ lease'[c] = lease[c]
  BY DEF Kill, IInv, TypeOK
<1>2. UNCHANGED <<at, pin, saw>>
  BY DEF Kill
<1>3. TypeOK'
  <2>1. /\ dirLock' \in [Dirs -> Contexts \cup {Nobody}]
        /\ anchorLock' \in [AnchorIds -> Contexts \cup {Nobody}]
    BY DEF Kill, IInv, TypeOK
  <2>2. pc' \in [Contexts -> Pcs] /\ lease' \in [Contexts -> BOOLEAN]
    BY DEF Kill, IInv, TypeOK, Pcs
  <2>3. reserved' \in [Contexts -> SUBSET Paths] /\ kills' \in Nat
    BY DEF Kill, IInv, TypeOK
  <2> QED
    BY <2>1, <2>2, <2>3 DEF Kill, IInv, TypeOK, world
<1>4. \A d \in Dirs : dirLock[d] \in Contexts \ Dead => dirLock'[d] = dirLock[d]
  BY DEF Kill
<1>5. SawOK' /\ LeaseOK' /\ UndoingOK'
  BY <1>1, <1>2 DEF IInv, SawOK, LeaseOK, UndoingOK
<1>6. HoldsOK'
  <2> SUFFICES ASSUME NEW c \in Contexts, pc'[c] \in Acquiring
               PROVE  /\ at'[c] \in DOMAIN Route[c]
                      /\ pc'[c] \in PinnedPcs => Pinned(c)' \in Dirs
                      /\ \A j \in DOMAIN Route[c] : Locked(c, j)' =>
                           /\ pin'[c][Route[c][j]] \in Dirs
                           /\ dirLock'[pin'[c][Route[c][j]]] = c
    BY DEF HoldsOK
  <2>1. c \in Contexts \ Dead /\ pc'[c] = pc[c]
    BY <1>1 DEF Acquiring
  <2>2. Pinned(c)' = Pinned(c) /\ \A j : Locked(c, j)' <=> Locked(c, j)
    BY <1>2, <2>1 DEF Pinned, Home, Locked
  <2>3. /\ at[c] \in DOMAIN Route[c]
        /\ pc[c] \in PinnedPcs => Pinned(c) \in Dirs
        /\ \A j \in DOMAIN Route[c] : Locked(c, j) =>
             /\ pin[c][Route[c][j]] \in Dirs
             /\ dirLock[pin[c][Route[c][j]]] = c
    BY <2>1 DEF IInv, HoldsOK
  <2> QED
    BY <1>2, <1>4, <2>1, <2>2, <2>3
<1> QED
  BY <1>3, <1>5, <1>6 DEF IInv

\* A step that leaves the contexts and the locks alone.
LEMMA WorldStep ==
  ASSUME IInv, TypeOK', UNCHANGED <<dirLock, pc, at, saw, pin, lease>>
  PROVE  IInv'
BY DEF IInv, SawOK, HoldsOK, LeaseOK, UndoingOK, Locked, Pinned, Home

LEMMA MeddleOK == ASSUME IInv, Meddle PROVE IInv'
<1>0. /\ anchor \in [Dirs -> 0..MaxAnchors] /\ ctime \in [Dirs -> Nat]
      /\ entry \in [Paths -> 0..MaxDirs] /\ dirs \in 0..MaxDirs /\ meddles \in Nat
      /\ MaxDirs \in Nat /\ MaxAnchors \in Nat
  BY LocksAssumption DEF IInv, TypeOK
<1>1. /\ anchor' \in [Dirs -> 0..MaxAnchors] /\ ctime' \in [Dirs -> Nat]
      /\ entry' \in [Paths -> 0..MaxDirs] /\ dirs' \in 0..MaxDirs /\ meddles' \in Nat
  <2>1. CASE \E d \in Dirs : /\ anchor' = [anchor EXCEPT ![d] = 0]
                             /\ ctime' = [ctime EXCEPT ![d] = @ + 1]
                             /\ UNCHANGED <<entry, dirs>>
    BY <1>0, <2>1 DEF Meddle
  <2>2. CASE /\ \E h \in Paths : entry' = [entry EXCEPT ![h] = 0]
             /\ UNCHANGED <<anchor, ctime, dirs>>
    BY <1>0, <2>2 DEF Meddle
  <2>3. CASE /\ dirs < MaxDirs /\ dirs' = dirs + 1
             /\ \E h \in Paths : entry' = [entry EXCEPT ![h] = dirs + 1]
             /\ UNCHANGED <<anchor, ctime>>
    BY <1>0, <2>3 DEF Meddle
  <2> QED
    BY <2>1, <2>2, <2>3 DEF Meddle
<1>2. TypeOK'
  BY <1>1 DEF Meddle, IInv, TypeOK, locks, memory
<1> QED
  BY <1>2, WorldStep DEF Meddle, locks, memory

LEMMA StepOK == ASSUME IInv, [Next]_vars PROVE IInv'
<1>1. CASE \E c \in Contexts : Step(c)
  BY <1>1, ValidateOK, LookOK, EnterOK, PinHomeOK, PublishOK, BindOK, ProveOK, RmdirOK, OpenAnchorOK,
     FlockHomeOK, CheckHomeOK, FlockAnchorOK, CheckAnchorOK, LeaveOK, UndoOK, ReleaseOK
     DEF Step
<1>2. CASE \E c \in Contexts : Unpublish(c) \/ Fault(c)
  BY <1>2, UnpublishOK, FaultOK
<1>3. CASE \E i \in {Interpreter[c] : c \in Contexts} : Kill(i)
  BY <1>3, KillOK
<1>4. CASE Meddle
  BY <1>4, MeddleOK
<1>5. CASE UNCHANGED vars
  <2>1. TypeOK'
    BY <1>5 DEF vars, IInv, TypeOK, world, locks, memory, bounds
  <2> QED
    BY <1>5, <2>1, WorldStep DEF vars, locks, memory
<1> QED
  BY <1>1, <1>2, <1>3, <1>4, <1>5 DEF Next

-----------------------------------------------------------------------------
\* A context in its protected section holds the flocks of all its homes, and the
\* variables have their types, whatever the user does and whoever is killed.
THEOREM LocksHeld == Spec => []IInv
<1>1. IInv /\ [Next]_vars => IInv'
  BY StepOK
<1> QED
  BY <1>1, InitOK, PTL DEF Spec

\* The variables of the locking protocol have their types.
THEOREM LocksTyped == Spec => []TypeOK
<1>1. IInv => TypeOK
  BY DEF IInv
<1> QED
  BY <1>1, LocksHeld, PTL

\* No two contexts, of one process or of several, may write to one home at a
\* time (locked_target_homes with verify_locked_home_path).
THEOREM HomesAreExclusive == Spec => []MutualExclusion
BY Excludes, LocksHeld, PTL
-----------------------------------------------------------------------------
(* What is locked is found again by whoever has to give it back. *)

\* A flock of a context that is under way is of a home or an anchor it has
\* reached, where the undo or the release looks for it.
HomeHeld(c, d) ==
  /\ pc[c] \notin {"done", "dead"}
  /\ \E i \in DOMAIN Route[c] :
       /\ pin[c][Route[c][i]] = d
       /\ i < at[c] \/ (i = at[c] /\ pc[c] \in LockedPcs \cup {"undo", "release"})
AnchorHeld(c, a) ==
  /\ pc[c] \notin {"done", "dead"}
  /\ \E i \in DOMAIN Route[c] :
       /\ anc[c][Route[c][i]] = a
       /\ i < at[c] \/ (i = at[c] /\ pc[c] \in {"check-anchor", "held", "undo", "release"})
EarlyPcs == {"validate", "look", "enter", "pin", "publish", "bind", "prove", "rmdir", "anchor"}

KeptOK ==
  /\ \A d \in Dirs : dirLock[d] # Nobody => HomeHeld(dirLock[d], d)
  /\ \A a \in AnchorIds : anchorLock[a] # Nobody => AnchorHeld(anchorLock[a], a)
  /\ \A c \in Contexts : pc[c] \in {"done", "dead"} => reserved[c] = {}

\* Before the order of the homes is checked nothing has been done.
Fresh == \A c \in Contexts : pc[c] = "validate" => at[c] = 1 /\ reserved[c] = {}

\* A step of c by which no other context takes or loses a lock.
Apart(c) ==
  \A o \in Contexts \ {c} : /\ pc'[o] = pc[o] /\ at'[o] = at[o] /\ pin'[o] = pin[o]
                            /\ anc'[o] = anc[o] /\ reserved'[o] = reserved[o]

LEMMA KeptBy ==
  ASSUME KeptOK, TypeOK', NEW c \in Contexts, Apart(c),
         \A d \in Dirs : dirLock'[d] \in {c, dirLock[d], Nobody},
         \A a \in AnchorIds : anchorLock'[a] \in {c, anchorLock[a], Nobody},
         \A d \in Dirs : dirLock'[d] = c => HomeHeld(c, d)',
         \A a \in AnchorIds : anchorLock'[a] = c => AnchorHeld(c, a)',
         pc'[c] \in {"done", "dead"} => reserved'[c] = {}
  PROVE  KeptOK'
<1>1. ASSUME NEW d \in Dirs, NEW o \in Contexts, dirLock'[d] = o
      PROVE  HomeHeld(o, d)'
  <2>1. CASE o = c
    BY <1>1, <2>1
  <2>2. CASE o # c
    <3>1. dirLock[d] = o /\ HomeHeld(o, d)
      BY <1>1, <2>2, LocksAssumption DEF KeptOK
    <3> QED
      BY <2>2, <3>1 DEF HomeHeld, Apart
  <2> QED
    BY <2>1, <2>2
<1>2. ASSUME NEW a \in AnchorIds, NEW o \in Contexts, anchorLock'[a] = o
      PROVE  AnchorHeld(o, a)'
  <2>1. CASE o = c
    BY <1>2, <2>1
  <2>2. CASE o # c
    <3>1. anchorLock[a] = o /\ AnchorHeld(o, a)
      BY <1>2, <2>2, LocksAssumption DEF KeptOK
    <3> QED
      BY <2>2, <3>1 DEF AnchorHeld, Apart
  <2> QED
    BY <2>1, <2>2
<1>3. \A o \in Contexts : pc'[o] \in {"done", "dead"} => reserved'[o] = {}
  BY DEF KeptOK, Apart
<1>4. /\ \A d \in Dirs : dirLock'[d] # Nobody => dirLock'[d] \in Contexts
      /\ \A a \in AnchorIds : anchorLock'[a] # Nobody => anchorLock'[a] \in Contexts
  BY DEF TypeOK
<1>5. /\ \A d \in Dirs : dirLock'[d] # Nobody => HomeHeld(dirLock[d], d)'
      /\ \A a \in AnchorIds : anchorLock'[a] # Nobody => AnchorHeld(anchorLock[a], a)'
  BY <1>1, <1>2, <1>4 DEF HomeHeld, AnchorHeld
<1> QED
  BY <1>3, <1>5 DEF KeptOK

\* A step of c that neither takes nor gives back a flock.
LEMMA KeptQuietly ==
  ASSUME IInv, KeptOK, TypeOK', NEW c \in Contexts, NEW p, Go(c, p), Apart(c),
         UNCHANGED <<locks, at>>, pc[c] \notin {"done", "dead"}, p \notin {"done", "dead"},
         pc[c] \in LockedPcs \cup {"undo", "release"} => p \in LockedPcs \cup {"undo", "release"},
         pc[c] \in {"check-anchor", "held", "undo", "release"}
           => p \in {"check-anchor", "held", "undo", "release"},
         pin' = pin \/ (pc[c] \in {"pin", "prove"} /\ pin' = [pin EXCEPT ![c][Home(c)] = saw[c]]),
         anc' = anc \/ (pc[c] = "anchor" /\ \E a : anc' = [anc EXCEPT ![c][Home(c)] = a])
  PROVE  KeptOK'
<1>1. pc'[c] = p
  BY DEF Go, IInv, TypeOK
<1>0. \A i \in DOMAIN Route[c] : i \in Nat /\ Route[c][i] \in Paths
  BY RouteFacts
<1>2. /\ at[c] \in Nat
      /\ pin \in [Contexts -> [Paths -> 0..MaxDirs]]
      /\ anc \in [Contexts -> [Paths -> 0..MaxAnchors]]
  BY DEF IInv, TypeOK
<1>3. ASSUME pc[c] \in Acquiring, NEW i \in DOMAIN Route[c], i < at[c]
      PROVE  Route[c][i] # Home(c)
  BY <1>3, HomeTyped, RouteFacts DEF Home
<1>4. ASSUME NEW i \in DOMAIN Route[c],
             i < at[c] \/ (i = at[c] /\ pc[c] \in LockedPcs \cup {"undo", "release"})
      PROVE  pin'[c][Route[c][i]] = pin[c][Route[c][i]]
  BY <1>0, <1>2, <1>3, <1>4 DEF Acquiring, LockedPcs
<1>5. ASSUME NEW i \in DOMAIN Route[c],
             i < at[c] \/ (i = at[c] /\ pc[c] \in {"check-anchor", "held", "undo", "release"})
      PROVE  anc'[c][Route[c][i]] = anc[c][Route[c][i]]
  BY <1>0, <1>2, <1>3, <1>5 DEF Acquiring
<1>6. \A d \in Dirs : dirLock'[d] = c => HomeHeld(c, d)'
  <2> SUFFICES ASSUME NEW d \in Dirs, dirLock[d] = c
               PROVE  HomeHeld(c, d)'
    BY DEF locks
  <2>1. HomeHeld(c, d)
    BY LocksAssumption DEF KeptOK
  <2> QED
    BY <1>1, <1>4, <2>1 DEF HomeHeld
<1>7. \A a \in AnchorIds : anchorLock'[a] = c => AnchorHeld(c, a)'
  <2> SUFFICES ASSUME NEW a \in AnchorIds, anchorLock[a] = c
               PROVE  AnchorHeld(c, a)'
    BY DEF locks
  <2>1. AnchorHeld(c, a)
    BY LocksAssumption DEF KeptOK
  <2> QED
    BY <1>1, <1>5, <2>1 DEF AnchorHeld
<1> QED
  BY <1>1, <1>6, <1>7, KeptBy DEF locks

LEMMA KeptEntering ==
  ASSUME IInv, KeptOK, TypeOK', NEW c \in Contexts,
         \/ Look(c) \/ Enter(c) \/ PinHome(c) \/ Publish(c) \/ Bind(c) \/ Prove(c)
         \/ Unpublish(c) \/ Rmdir(c) \/ OpenAnchor(c) \/ CheckHome(c) \/ Leave(c) \/ Fault(c)
  PROVE  KeptOK'
<1> USE DEF LockedPcs
<1>1. ASSUME NEW p \in {"enter", "pin", "publish", "bind", "prove", "rmdir", "anchor",
                        "flock-home", "undo"},
             Go(c, p), UNCHANGED <<locks, at, anc, reserved>>,
             pc[c] \in EarlyPcs \cup {"flock-home", "check-home", "flock-anchor", "check-anchor"},
             pc[c] \in {"check-home", "flock-anchor", "check-anchor"} => p = "undo",
             pin' = pin \/ (pc[c] \in {"pin", "prove"} /\ pin' = [pin EXCEPT ![c][Home(c)] = saw[c]])
      PROVE  KeptOK'
  <2>1. Apart(c)
    BY <1>1 DEF Apart, Go, IInv, TypeOK
  <2> QED
    BY <1>1, <2>1, KeptQuietly DEF EarlyPcs
<1>2. CASE Look(c) \/ Enter(c) \/ PinHome(c) \/ Publish(c)
  BY <1>1, <1>2 DEF Look, Enter, PinHome, Publish, Refuse, locks, memory, EarlyPcs
<1>3. CASE Bind(c) \/ Prove(c) \/ Unpublish(c) \/ Rmdir(c) \/ Fault(c)
  BY <1>1, <1>3 DEF Bind, Prove, Unpublish, Rmdir, Fault, Refuse, locks, memory, EarlyPcs
<1>4. CASE OpenAnchor(c)
  <2>1. \E p \in {"flock-home", "undo"} : Go(c, p)
    BY <1>4 DEF OpenAnchor, Refuse
  <2>2. /\ pc[c] = "anchor" /\ UNCHANGED <<locks, at, pin>>
        /\ anc' = anc \/ \E a : anc' = [anc EXCEPT ![c][Home(c)] = a]
        /\ reserved' = reserved \/ reserved' = [reserved EXCEPT ![c] = @ \cup {Home(c)}]
    BY <1>4 DEF OpenAnchor
  <2>3. Apart(c)
    BY <2>1, <2>2 DEF Apart, Go, IInv, TypeOK
  <2> QED
    BY <2>1, <2>2, <2>3, KeptQuietly
<1>5. CASE CheckHome(c) \/ Leave(c)
  <2>1. \E p \in {"flock-anchor", "undo", "release"} :
          /\ Go(c, p) /\ UNCHANGED <<locks, at, pin, anc, reserved>>
          /\ (pc[c] = "check-home" /\ p # "release") \/ (pc[c] = "held" /\ p = "release")
    BY <1>5 DEF CheckHome, Leave, Refuse, locks, memory
  <2>2. Apart(c)
    BY <2>1 DEF Apart, Go, IInv, TypeOK
  <2> QED
    BY <2>1, <2>2, KeptQuietly
<1> QED
  BY <1>2, <1>3, <1>4, <1>5

LEMMA KeptFlock ==
  ASSUME IInv, KeptOK, TypeOK', NEW c \in Contexts, FlockHome(c) \/ FlockAnchor(c)
  PROVE  KeptOK'
<1>1. /\ pc[c] \in {"flock-home", "flock-anchor"} /\ UNCHANGED <<at, pin, anc, reserved>>
      /\ at[c] \in DOMAIN Route[c] /\ Pinned(c) \in Dirs
  BY AcquiringFacts DEF FlockHome, FlockAnchor, PinnedPcs, memory
<1>2. CASE FlockHome(c)
  <2>1. /\ pc[c] = "flock-home" /\ pc'[c] = "check-home" /\ Apart(c) /\ UNCHANGED anchorLock
        /\ dirLock' = [dirLock EXCEPT ![Pinned(c)] = c]
    BY <1>1, <1>2 DEF FlockHome, Apart, Go, IInv, TypeOK
  <2>2. ASSUME NEW d \in Dirs, dirLock'[d] = c
        PROVE  HomeHeld(c, d)'
    <3>1. CASE d = Pinned(c)
      BY <1>1, <2>1, <3>1 DEF HomeHeld, Pinned, Home, LockedPcs
    <3>2. CASE d # Pinned(c)
      <4>1. HomeHeld(c, d)
        BY <2>1, <2>2, <3>2, LocksAssumption DEF KeptOK, IInv, TypeOK
      <4> QED
        BY <1>1, <2>1, <4>1 DEF HomeHeld, LockedPcs
    <3> QED
      BY <3>1, <3>2
  <2>3. ASSUME NEW a \in AnchorIds, anchorLock'[a] = c
        PROVE  AnchorHeld(c, a)'
    <3>1. AnchorHeld(c, a)
      BY <2>1, <2>3, LocksAssumption DEF KeptOK
    <3> QED
      BY <1>1, <2>1, <3>1 DEF AnchorHeld
  <2>4. \A d \in Dirs : dirLock'[d] \in {c, dirLock[d], Nobody}
    BY <2>1 DEF IInv, TypeOK
  <2> QED
    BY <2>1, <2>2, <2>3, <2>4, KeptBy
<1>3. CASE FlockAnchor(c)
  <2>1. /\ pc[c] = "flock-anchor" /\ pc'[c] = "check-anchor" /\ Apart(c) /\ UNCHANGED dirLock
        /\ anchorLock' = [anchorLock EXCEPT ![MyAnchor(c)] = c]
    BY <1>1, <1>3 DEF FlockAnchor, Apart, Go, IInv, TypeOK
  <2>2. ASSUME NEW a \in AnchorIds, anchorLock'[a] = c
        PROVE  AnchorHeld(c, a)'
    <3>1. CASE a = MyAnchor(c)
      BY <1>1, <2>1, <3>1 DEF AnchorHeld, MyAnchor, Home
    <3>2. CASE a # MyAnchor(c)
      <4>1. AnchorHeld(c, a)
        BY <2>1, <2>2, <3>2, LocksAssumption DEF KeptOK, IInv, TypeOK
      <4> QED
        BY <1>1, <2>1, <4>1 DEF AnchorHeld
    <3> QED
      BY <3>1, <3>2
  <2>3. ASSUME NEW d \in Dirs, dirLock'[d] = c
        PROVE  HomeHeld(c, d)'
    <3>1. HomeHeld(c, d)
      BY <2>1, <2>3, LocksAssumption DEF KeptOK
    <3> QED
      BY <1>1, <2>1, <3>1 DEF HomeHeld, LockedPcs
  <2>4. \A a \in AnchorIds : anchorLock'[a] \in {c, anchorLock[a], Nobody}
    BY <2>1 DEF IInv, TypeOK
  <2> QED
    BY <2>1, <2>2, <2>3, <2>4, KeptBy
<1> QED
  BY <1>2, <1>3

\* A step of c that at most gives back flocks, and moves on past what it holds.
LEMMA KeptLess ==
  ASSUME IInv, KeptOK, TypeOK', NEW c \in Contexts, Apart(c), UNCHANGED <<pin, anc>>,
         \A d \in Dirs : dirLock'[d] \in {dirLock[d], Nobody},
         \A a \in AnchorIds : anchorLock'[a] \in {anchorLock[a], Nobody},
         \A i \in DOMAIN Route[c] :
           \/ i < at'[c] \/ (i = at'[c] /\ pc'[c] \in {"undo", "release"})
           \/ ~(i < at[c] \/ (i = at[c] /\ pc[c] \in LockedPcs \cup {"undo", "release"}))
           \/ /\ \A d \in Dirs : d = pin[c][Route[c][i]] => dirLock'[d] # c
              /\ \A a \in AnchorIds : a = anc[c][Route[c][i]] => anchorLock'[a] # c,
         pc'[c] # "dead", pc'[c] = "done" => reserved'[c] = {} /\ \A i \in DOMAIN Route[c] :
           /\ \A d \in Dirs : d = pin[c][Route[c][i]] => dirLock'[d] # c
           /\ \A a \in AnchorIds : a = anc[c][Route[c][i]] => anchorLock'[a] # c
  PROVE  KeptOK'
<1>1. \A d \in Dirs : dirLock'[d] = c => HomeHeld(c, d)'
  <2> SUFFICES ASSUME NEW d \in Dirs, dirLock'[d] = c
               PROVE  HomeHeld(c, d)'
    OBVIOUS
  <2>1. dirLock[d] = c /\ HomeHeld(c, d)
    BY LocksAssumption DEF KeptOK
  <2>2. PICK i \in DOMAIN Route[c] :
          /\ pin[c][Route[c][i]] = d
          /\ i < at[c] \/ (i = at[c] /\ pc[c] \in LockedPcs \cup {"undo", "release"})
    BY <2>1 DEF HomeHeld
  <2> QED
    BY <2>1, <2>2 DEF HomeHeld
<1>2. \A a \in AnchorIds : anchorLock'[a] = c => AnchorHeld(c, a)'
  <2> SUFFICES ASSUME NEW a \in AnchorIds, anchorLock'[a] = c
               PROVE  AnchorHeld(c, a)'
    OBVIOUS
  <2>1. anchorLock[a] = c /\ AnchorHeld(c, a)
    BY LocksAssumption DEF KeptOK
  <2>2. PICK i \in DOMAIN Route[c] :
          /\ anc[c][Route[c][i]] = a
          /\ i < at[c] \/ (i = at[c] /\ pc[c] \in {"check-anchor", "held", "undo", "release"})
    BY <2>1 DEF AnchorHeld
  <2> QED
    BY <2>1, <2>2 DEF AnchorHeld, LockedPcs
<1>3. /\ \A d \in Dirs : dirLock'[d] \in {c, dirLock[d], Nobody}
      /\ \A a \in AnchorIds : anchorLock'[a] \in {c, anchorLock[a], Nobody}
  OBVIOUS
<1> QED
  BY <1>1, <1>2, <1>3, KeptBy

LEMMA KeptCheckAnchor ==
  ASSUME IInv, KeptOK, TypeOK', NEW c \in Contexts, CheckAnchor(c)
  PROVE  KeptOK'
<1>1. /\ pc[c] = "check-anchor" /\ at[c] \in DOMAIN Route[c] /\ at[c] \in Nat
      /\ UNCHANGED <<locks, pin, anc, reserved>>
  BY AcquiringFacts DEF CheckAnchor, PinnedPcs, memory
<1>2. \A i \in DOMAIN Route[c] : i \in Nat
  BY RouteFacts
<1>3. CASE Refuse(c) /\ UNCHANGED at
  <2>1. Apart(c)
    BY <1>1, <1>3 DEF Apart, Refuse, Go, IInv, TypeOK
  <2> QED
    BY <1>1, <1>3, <2>1, KeptQuietly DEF Refuse, LockedPcs
<1>4. CASE at' = [at EXCEPT ![c] = @ + 1] /\ Go(c, "look")
  <2>1. Apart(c) /\ at'[c] = at[c] + 1 /\ pc'[c] = "look"
    BY <1>1, <1>4 DEF Apart, Go, IInv, TypeOK
  <2> QED
    BY <1>1, <1>2, <2>1, KeptLess DEF locks
<1>5. CASE Go(c, "held") /\ UNCHANGED at
  <2>1. Apart(c)
    BY <1>1, <1>5 DEF Apart, Go, IInv, TypeOK
  <2> QED
    BY <1>1, <1>5, <2>1, KeptQuietly DEF LockedPcs
<1> QED
  BY <1>3, <1>4, <1>5 DEF CheckAnchor

LEMMA KeptUndo ==
  ASSUME IInv, KeptOK, TypeOK', NEW c \in Contexts, Undo(c)
  PROVE  KeptOK'
<1>1. /\ pc[c] = "undo" /\ at[c] \in DOMAIN Route[c] /\ at[c] \in Nat
      /\ UNCHANGED <<pin, anc>> /\ Home(c) \in Paths
  BY RouteFacts DEF Undo, IInv, UndoingOK, TypeOK, Home
<1>2. \A i \in DOMAIN Route[c] : i \in Nat
  BY RouteFacts
<1>3. CASE HasAnchor(c, at[c]) /\ UnlockAnchor(c, at[c]) /\ UNCHANGED <<pc, at, reserved>>
  <2>1. Apart(c) /\ UNCHANGED dirLock
    BY <1>1, <1>3 DEF Apart, UnlockAnchor
  <2>2. \A a \in AnchorIds : anchorLock'[a] \in {anchorLock[a], Nobody}
    BY <1>3 DEF UnlockAnchor, IInv, TypeOK
  <2> QED
    BY <1>1, <1>3, <2>1, <2>2, KeptLess
<1>4. CASE /\ ~HasAnchor(c, at[c])
           /\ reserved' = [reserved EXCEPT ![c] = @ \ {Home(c)}]
           /\ IF HasHome(c, at[c]) THEN UnlockHome(c, at[c]) ELSE UNCHANGED locks
           /\ at' = [at EXCEPT ![c] = @ - 1] /\ Go(c, "release")
  <2>1. Apart(c) /\ UNCHANGED anchorLock /\ at'[c] = at[c] - 1 /\ pc'[c] = "release"
    BY <1>1, <1>4 DEF Apart, Go, UnlockHome, locks, IInv, TypeOK
  <2>2. /\ \A d \in Dirs : dirLock'[d] \in {dirLock[d], Nobody}
        /\ \A d \in Dirs : d = pin[c][Route[c][at[c]]] => dirLock'[d] # c
    <3>1. dirLock = [d \in Dirs |-> dirLock[d]] /\ c # Nobody /\ 0 \notin Dirs
      BY LocksAssumption DEF IInv, TypeOK, Dirs
    <3>2. CASE HasHome(c, at[c]) /\ UnlockHome(c, at[c])
      BY <3>1, <3>2 DEF UnlockHome
    <3>3. CASE ~HasHome(c, at[c]) /\ UNCHANGED locks
      BY <3>1, <3>3 DEF HasHome, locks
    <3> QED
      BY <1>4, <3>2, <3>3
  <2>3. \A a \in AnchorIds : a = anc[c][Route[c][at[c]]] => anchorLock'[a] # c
    BY <1>4, <2>1 DEF HasAnchor, AnchorIds
  <2>4. \A i \in DOMAIN Route[c] : i < at'[c] \/ i = at'[c] \/ i = at[c] \/ ~(i < at[c] \/ i = at[c])
    BY <1>1, <1>2, <2>1
  <2> QED
    BY <1>1, <2>1, <2>2, <2>3, <2>4, KeptLess
<1> QED
  BY <1>3, <1>4 DEF Undo

LEMMA KeptRelease ==
  ASSUME IInv, KeptOK, TypeOK', NEW c \in Contexts, Release(c)
  PROVE  KeptOK'
<1> DEFINE held == {i \in 1..at[c] : HasAnchor(c, i)}
           homes == {i \in 1..at[c] : HasHome(c, i)}
<1>1. /\ pc[c] = "release" /\ UNCHANGED <<at, pin, anc>> /\ at[c] \in 0..Len(Route[c])
      /\ 0 \notin Dirs /\ 0 \notin AnchorIds
  BY DEF Release, IInv, TypeOK, Dirs, AnchorIds
<1>2. \A i \in DOMAIN Route[c] : i \in Nat /\ i \in 1..Len(Route[c])
  BY RouteFacts
<1>3. CASE \E i \in held : UnlockAnchor(c, i) /\ UNCHANGED <<pc, reserved>>
  <2>1. Apart(c) /\ UNCHANGED dirLock
    BY <1>1, <1>3 DEF Apart, UnlockAnchor
  <2>2. \A a \in AnchorIds : anchorLock'[a] \in {anchorLock[a], Nobody}
    BY <1>3 DEF UnlockAnchor, IInv, TypeOK
  <2> QED
    BY <1>1, <1>3, <2>1, <2>2, KeptLess DEF LockedPcs
<1>4. CASE \E i \in homes : UnlockHome(c, i) /\ UNCHANGED <<pc, reserved>>
  <2>1. Apart(c) /\ UNCHANGED anchorLock
    BY <1>1, <1>4 DEF Apart, UnlockHome
  <2>2. \A d \in Dirs : dirLock'[d] \in {dirLock[d], Nobody}
    BY <1>4 DEF UnlockHome, IInv, TypeOK
  <2> QED
    BY <1>1, <1>4, <2>1, <2>2, KeptLess DEF LockedPcs
<1>5. CASE /\ held = {} /\ homes = {} /\ reserved' = [reserved EXCEPT ![c] = {}]
           /\ Go(c, "done") /\ UNCHANGED locks
  <2>1. /\ Apart(c) /\ UNCHANGED <<dirLock, anchorLock>> /\ pc'[c] = "done"
        /\ reserved'[c] = {}
    BY <1>1, <1>5 DEF Apart, Go, locks, IInv, TypeOK
  <2>2. ASSUME NEW d \in Dirs
        PROVE  dirLock[d] # c
    <3> SUFFICES ASSUME dirLock[d] = c PROVE FALSE
      OBVIOUS
    <3>0. HomeHeld(c, d)
      BY LocksAssumption DEF KeptOK
    <3>1. PICK i \in DOMAIN Route[c] : pin[c][Route[c][i]] = d /\ i <= at[c]
      BY <1>1, <1>2, <3>0 DEF HomeHeld
    <3>2. i \in 1..at[c] /\ HasHome(c, i)
      BY <1>1, <1>2, <3>1 DEF HasHome
    <3> QED
      BY <1>5, <3>2
  <2>3. ASSUME NEW a \in AnchorIds
        PROVE  anchorLock[a] # c
    <3> SUFFICES ASSUME anchorLock[a] = c PROVE FALSE
      OBVIOUS
    <3>0. AnchorHeld(c, a)
      BY LocksAssumption DEF KeptOK
    <3>1. PICK i \in DOMAIN Route[c] : anc[c][Route[c][i]] = a /\ i <= at[c]
      BY <1>1, <1>2, <3>0 DEF AnchorHeld
    <3>2. i \in 1..at[c] /\ HasAnchor(c, i)
      BY <1>1, <1>2, <3>1 DEF HasAnchor
    <3> QED
      BY <1>5, <3>2
  <2> QED
    BY <2>1, <2>2, <2>3, KeptBy
<1> QED
  BY <1>3, <1>4, <1>5 DEF Release

LEMMA KeptKill == ASSUME IInv, KeptOK, TypeOK', NEW i, Kill(i) PROVE KeptOK'
<1> DEFINE Dead == {c \in Contexts : Interpreter[c] = i}
<1>1. /\ \A c \in Dead : pc'[c] = "dead" /\ reserved'[c] = {}
      /\ \A c \in Contexts \ Dead : pc'[c] = pc[c] /\ reserved'[c] = reserved[c]
      /\ UNCHANGED <<at, pin, anc>>
  BY DEF Kill, IInv, TypeOK
<1>2. ASSUME NEW d \in Dirs, dirLock'[d] # Nobody
      PROVE  HomeHeld(dirLock[d], d)'
  <2>1. dirLock'[d] = dirLock[d] /\ dirLock[d] \in Contexts \ Dead
    BY <1>2 DEF Kill, IInv, TypeOK
  <2>2. HomeHeld(dirLock[d], d)
    BY <1>2, <2>1 DEF KeptOK
  <2> QED
    BY <1>1, <2>1, <2>2 DEF HomeHeld
<1>3. ASSUME NEW a \in AnchorIds, anchorLock'[a] # Nobody
      PROVE  AnchorHeld(anchorLock[a], a)'
  <2>1. anchorLock'[a] = anchorLock[a] /\ anchorLock[a] \in Contexts \ Dead
    BY <1>3 DEF Kill, IInv, TypeOK
  <2>2. AnchorHeld(anchorLock[a], a)
    BY <1>3, <2>1 DEF KeptOK
  <2> QED
    BY <1>1, <2>1, <2>2 DEF AnchorHeld
<1>4. \A c \in Contexts : pc'[c] \in {"done", "dead"} => reserved'[c] = {}
  BY <1>1 DEF KeptOK
<1> QED
  BY <1>2, <1>3, <1>4 DEF KeptOK

LEMMA FreshStep == ASSUME IInv, Fresh, [Next]_vars PROVE Fresh'
<1> USE DEF Fresh
<1>1. ASSUME NEW c \in Contexts, Step(c) \/ Unpublish(c) \/ Fault(c)
      PROVE  Fresh'
  <2>1. \A o \in Contexts \ {c} : pc'[o] = pc[o] /\ at'[o] = at[o] /\ reserved'[o] = reserved[o]
    BY <1>1 DEF Step, Validate, Look, Enter, PinHome, Publish, Bind, Prove, Rmdir, OpenAnchor,
       FlockHome, CheckHome, FlockAnchor, CheckAnchor, Leave, Undo, Release, Unpublish, Fault,
       Refuse, Go, memory, IInv, TypeOK
  <2>2. pc'[c] # "validate"
    BY <1>1 DEF Step, Validate, Look, Enter, PinHome, Publish, Bind, Prove, Rmdir, OpenAnchor,
       FlockHome, CheckHome, FlockAnchor, CheckAnchor, Leave, Undo, Release, Unpublish, Fault,
       Refuse, Go, IInv, TypeOK
  <2> QED
    BY <2>1, <2>2
<1>2. CASE \E i \in {Interpreter[c] : c \in Contexts} : Kill(i)
  BY <1>2 DEF Kill
<1>3. CASE Meddle \/ UNCHANGED vars
  BY <1>3 DEF Meddle, vars, memory
<1> QED
  BY <1>1, <1>2, <1>3 DEF Next

LEMMA KeptValidate ==
  ASSUME IInv, KeptOK, Fresh, TypeOK', NEW c \in Contexts, Validate(c)
  PROVE  KeptOK'
<1>1. /\ UNCHANGED <<locks, at, memory>> /\ pc[c] = "validate"
      /\ pc'[c] \in {"look", "done"} /\ Apart(c)
  BY DEF Validate, Go, Apart, memory, IInv, TypeOK
<1>2. at[c] = 1 /\ reserved[c] = {} /\ \A i \in DOMAIN Route[c] : ~(i < 1)
  BY <1>1, RouteFacts DEF Fresh
<1>3. \A d \in Dirs : dirLock[d] # c
  BY <1>1, <1>2, LocksAssumption DEF KeptOK, HomeHeld, LockedPcs
<1>4. \A a \in AnchorIds : anchorLock[a] # c
  BY <1>1, <1>2, LocksAssumption DEF KeptOK, AnchorHeld
<1> QED
  BY <1>1, <1>2, <1>3, <1>4, KeptBy DEF locks, memory

LEMMA KeptStep == ASSUME IInv, KeptOK, Fresh, [Next]_vars PROVE KeptOK'
<1>1. TypeOK'
  BY StepOK DEF IInv
<1>2. ASSUME NEW c \in Contexts, Step(c) \/ Unpublish(c) \/ Fault(c)
      PROVE  KeptOK'
  BY <1>1, <1>2, KeptValidate, KeptEntering, KeptFlock, KeptCheckAnchor, KeptUndo, KeptRelease DEF Step
<1>3. CASE Meddle \/ UNCHANGED vars
  BY <1>3 DEF Meddle, vars, locks, memory, KeptOK, HomeHeld, AnchorHeld
<1> QED
  BY <1>1, <1>2, <1>3, KeptKill DEF Next

\* Every flock belongs to a context that is under way, which finds it again.
THEOREM FlocksAreFound == Spec => []KeptOK
<1>1. Init => KeptOK /\ Fresh
  BY DEF Init, KeptOK, Fresh
<1> QED
  BY <1>1, KeptStep, FreshStep, LocksHeld, PTL DEF Spec

\* A context that is through, or was killed, holds no flock and no registration,
\* in whatever step it failed (the clean-up of locked_target_homes, with
\* _unlock_and_close and _release_anchor).
THEOREM LocksAreReleased == Spec => []NothingLeftLocked
<1>1. IInv /\ KeptOK => NothingLeftLocked
  BY LocksAssumption DEF NothingLeftLocked, KeptOK, HomeHeld, AnchorHeld
<1> QED
  BY <1>1, FlocksAreFound, LocksHeld, PTL
-----------------------------------------------------------------------------
(* What nobody but the contexts does. *)

\* Where the home a context has reached is registered, up to the protected section.
LatePcs == {"flock-home", "check-home", "flock-anchor", "check-anchor", "held"}

\* Inodes are given out one after the other, and none twice.
Allocated ==
  /\ \A h \in Paths : entry[h] <= dirs
  /\ \A c \in Contexts, h \in Paths : pin[c][h] <= dirs
  /\ \A d \in Dirs : anchor[d] # 0 => d <= dirs /\ d \notin gone
  /\ \A d \in gone : d <= dirs

\* A home that is not published yet is known to its creator only.
Unknown(d) ==
  /\ d \in Dirs /\ d <= dirs /\ d \notin gone /\ anchor[d] = 0
  /\ \A h \in Paths : entry[h] # d
  /\ \A o \in Contexts, h \in Paths : pin[o][h] # d
Private ==
  \A c \in Contexts : pc[c] = "publish" =>
    /\ Unknown(saw[c])
    /\ \A o \in Contexts : pc[o] = "publish" /\ saw[o] = saw[c] => o = c

\* A pinned home stays at its path until it is removed.
PinsStay ==
  \A c \in Contexts, h \in Paths : pin[c][h] = 0 \/ pin[c][h] = entry[h] \/ pin[c][h] \in gone

\* A registered home has its anchor, the homes locked are registered, and those
\* not reached yet are not.
Anchored ==
  \A c \in Contexts : \A h \in reserved[c] :
    pin[c][h] # 0 /\ anc[c][h] # 0 /\ anchor[pin[c][h]] = anc[c][h]
Reached(c) ==
  \A i \in DOMAIN Route[c] :
    /\ pc[c] \in EarlyPcs \cup LatePcs /\ (i < at[c] \/ (i = at[c] /\ pc[c] \in LatePcs))
         => Route[c][i] \in reserved[c]
    /\ Route[c][i] \in reserved[c] => i < at[c] \/ (i = at[c] /\ pc[c] \notin EarlyPcs)
Registered == \A c \in Contexts : Reached(c)

Alone == Allocated /\ Private /\ PinsStay /\ Anchored /\ Registered
LeftAlone == meddles = 0 => Alone

\* Steps that leave homes, anchors and what is known of them as they are.
LEMMA AloneQuietly ==
  ASSUME Alone, UNCHANGED <<entry, anchor, gone, dirs, pin, anc>>,
         \A c \in Contexts : reserved'[c] \subseteq reserved[c],
         \A c \in Contexts : pc'[c] = "publish" => pc[c] = "publish" /\ saw'[c] = saw[c],
         Registered'
  PROVE  Alone'
<1>1. Allocated' /\ PinsStay'
  BY DEF Alone, Allocated, PinsStay
<1>2. Private'
  BY DEF Alone, Private, Unknown
<1>3. Anchored'
  BY DEF Alone, Anchored
<1> QED
  BY <1>1, <1>2, <1>3 DEF Alone

\* The homes registered, after a step of c.
LEMMA ReachedBy ==
  ASSUME Registered, NEW c \in Contexts, Apart(c), Reached(c)'
  PROVE  Registered'
BY DEF Registered, Reached, Apart

\* A step of c within the same home, before it is registered or after.
LEMMA ReachedQuietly ==
  ASSUME TypeOK, Registered, NEW c \in Contexts, NEW p \in Pcs, Go(c, p), UNCHANGED <<at, reserved>>,
         p \in EarlyPcs => pc[c] \in EarlyPcs,
         p \in LatePcs => pc[c] \in LatePcs
  PROVE  Reached(c)'
<1>1. pc'[c] = p
  BY DEF Go, TypeOK
<1> QED
  BY <1>1 DEF Registered, Reached, EarlyPcs, LatePcs

LEMMA AloneLooking ==
  ASSUME IInv, Alone, NEW c \in Contexts,
         \/ Validate(c) \/ Look(c) \/ Bind(c) \/ Unpublish(c) \/ FlockHome(c) \/ FlockAnchor(c)
         \/ CheckHome(c) \/ Leave(c) \/ Fault(c)
  PROVE  Alone'
<1>1. ASSUME NEW p \in Pcs \ {"publish"}, Go(c, p), UNCHANGED <<world, at, pin, anc, reserved>>,
             p \in EarlyPcs => pc[c] \in EarlyPcs, p \in LatePcs => pc[c] \in LatePcs,
             \A o \in Contexts \ {c} : saw'[o] = saw[o]
      PROVE  Alone'
  <2>1. Apart(c) /\ pc'[c] = p
    BY <1>1 DEF Apart, Go, IInv, TypeOK
  <2>2. Registered'
    BY <1>1, <2>1, ReachedBy, ReachedQuietly DEF Alone, IInv
  <2> QED
    BY <1>1, <2>1, <2>2, AloneQuietly DEF world, Apart
<1> USE DEF Pcs, EarlyPcs, LatePcs
<1>2. CASE Validate(c) \/ Look(c) \/ Bind(c) \/ Unpublish(c)
  BY <1>1, <1>2 DEF Validate, Look, Bind, Unpublish, Refuse, memory, IInv, TypeOK
<1>3. CASE FlockHome(c) \/ FlockAnchor(c) \/ CheckHome(c)
  BY <1>1, <1>3 DEF FlockHome, FlockAnchor, CheckHome, Refuse, memory
<1>4. CASE Leave(c) \/ Fault(c)
  BY <1>1, <1>4 DEF Leave, Fault, Refuse, memory
<1> QED
  BY <1>2, <1>3, <1>4

LEMMA AloneLeaving ==
  ASSUME IInv, Alone, NEW c \in Contexts, CheckAnchor(c) \/ Undo(c) \/ Release(c)
  PROVE  Alone'
<1> USE DEF EarlyPcs, LatePcs
<1>1. at[c] \in Nat /\ (\A i \in DOMAIN Route[c] : i \in Nat) /\ Reached(c)
  BY RouteFacts DEF IInv, TypeOK, Alone, Registered
<1>2. CASE CheckAnchor(c)
  <2>1. /\ pc[c] = "check-anchor" /\ UNCHANGED <<world, pin, anc, reserved, saw>>
        /\ Apart(c) /\ pc'[c] # "publish"
    BY <1>2 DEF CheckAnchor, Refuse, Go, Apart, memory, IInv, TypeOK
  <2>2. \/ pc'[c] \in {"undo", "held"} /\ at'[c] = at[c]
        \/ pc'[c] = "look" /\ at'[c] = at[c] + 1
    BY <1>2 DEF CheckAnchor, Refuse, Go, IInv, TypeOK
  <2>3. Reached(c)'
    BY <1>1, <2>1, <2>2 DEF Reached
  <2> QED
    BY <2>1, <2>3, ReachedBy, AloneQuietly DEF world, Apart, Alone
<1>3. CASE Undo(c)
  <2>1. /\ pc[c] = "undo" /\ UNCHANGED <<world, pin, anc, saw>> /\ Apart(c)
        /\ at[c] \in DOMAIN Route[c] /\ Home(c) = Route[c][at[c]]
    BY <1>3 DEF Undo, Go, Apart, IInv, TypeOK, UndoingOK, Home
  <2>2. \/ pc'[c] = "undo" /\ at'[c] = at[c] /\ reserved'[c] = reserved[c]
        \/ pc'[c] = "release" /\ at'[c] = at[c] - 1 /\ reserved'[c] = reserved[c] \ {Home(c)}
    BY <1>3 DEF Undo, Go, IInv, TypeOK
  <2>3. Reached(c)'
    BY <1>1, <2>1, <2>2 DEF Reached
  <2>4. \A o \in Contexts : reserved'[o] \subseteq reserved[o]
    BY <2>1, <2>2 DEF Apart
  <2> QED
    BY <2>1, <2>2, <2>3, <2>4, ReachedBy, AloneQuietly DEF world, Apart, Alone
<1>4. CASE Release(c)
  <2>1. /\ pc[c] = "release" /\ UNCHANGED <<world, pin, anc, saw, at>> /\ Apart(c)
    BY <1>4 DEF Release, Go, Apart, IInv, TypeOK
  <2>2. \/ pc'[c] = "release" /\ reserved'[c] = reserved[c]
        \/ pc'[c] = "done" /\ reserved'[c] = {}
    BY <1>4 DEF Release, Go, IInv, TypeOK
  <2>3. Reached(c)'
    BY <1>1, <2>1, <2>2 DEF Reached
  <2>4. \A o \in Contexts : reserved'[o] \subseteq reserved[o]
    BY <2>1, <2>2 DEF Apart
  <2> QED
    BY <2>1, <2>2, <2>3, <2>4, ReachedBy, AloneQuietly DEF world, Apart, Alone
<1> QED
  BY <1>2, <1>3, <1>4

\* A private directory is new to everybody.
LEMMA AloneEnter == ASSUME IInv, Alone, NEW c \in Contexts, Enter(c) PROVE Alone'
<1>1. /\ pc[c] = "enter" /\ UNCHANGED <<entry, anchor, gone, at, pin, anc, reserved>>
      /\ dirs \in Nat /\ MaxDirs \in Nat
  BY LocksAssumption DEF Enter, IInv, TypeOK
<1>2. ASSUME NEW p \in {"pin", "undo"}, Go(c, p), UNCHANGED <<dirs, saw>>
      PROVE  Alone'
  <2>1. Apart(c) /\ pc'[c] = p
    BY <1>1, <1>2 DEF Apart, Go, IInv, TypeOK
  <2>2. Registered'
    BY <1>1, <1>2, <2>1, ReachedBy, ReachedQuietly DEF Alone, IInv, Pcs, EarlyPcs, LatePcs
  <2> QED
    BY <1>1, <1>2, <2>1, <2>2, AloneQuietly DEF Apart
<1>3. CASE /\ dirs < MaxDirs /\ dirs' = dirs + 1 /\ saw' = [saw EXCEPT ![c] = dirs + 1]
           /\ Go(c, "publish")
  <2>1. /\ Apart(c) /\ pc'[c] = "publish" /\ saw'[c] = dirs + 1
        /\ \A o \in Contexts \ {c} : saw'[o] = saw[o]
    BY <1>1, <1>3 DEF Apart, Go, IInv, TypeOK
  <2>2. Registered'
    BY <1>1, <1>3, <2>1, ReachedBy, ReachedQuietly DEF Alone, IInv, Pcs, EarlyPcs, LatePcs
  <2>3. /\ \A h \in Paths : entry[h] \in Nat
        /\ \A o \in Contexts, h \in Paths : pin[o][h] \in Nat
        /\ (\A d \in Dirs : d \in Nat) /\ \A d \in gone : d \in Nat
    BY <1>1 DEF IInv, TypeOK, Dirs
  <2> PICK n : n = dirs + 1
    OBVIOUS
  <2>4. Allocated'
    BY <1>1, <1>3, <2>3 DEF Alone, Allocated
  <2>5. Unknown(n)'
    <3>1. n \in Dirs /\ dirs' = n /\ ~(n <= dirs)
      BY <1>1, <1>3 DEF Dirs
    <3> QED
      BY <1>1, <2>3, <3>1 DEF Unknown, Alone, Allocated
  <2>6. \A d : Unknown(d) => Unknown(d)' /\ d # n
    BY <1>1, <1>3, <2>3 DEF Unknown
  <2>7. Private'
    BY <1>1, <1>3, <2>1, <2>5, <2>6 DEF Alone, Private, Apart, Unknown
  <2> QED
    BY <1>1, <1>3, <2>2, <2>4, <2>7 DEF Alone, PinsStay, Anchored
<1> QED
  BY <1>2, <1>3 DEF Enter, Refuse

\* What is pinned is at its path, and was not registered before.
LEMMA AlonePin ==
  ASSUME IInv, Alone, NEW c \in Contexts, PinHome(c) \/ Prove(c)
  PROVE  Alone'
<1>1. /\ pc[c] \in {"pin", "prove"} /\ UNCHANGED <<world, at, anc, reserved, saw>>
      /\ Home(c) \in Paths /\ at[c] \in DOMAIN Route[c] /\ at[c] \in Nat
  BY HomeTyped DEF PinHome, Prove, Acquiring
<1>2. CASE Go(c, "undo") /\ UNCHANGED pin
  <2>1. Apart(c) /\ pc'[c] = "undo"
    BY <1>1, <1>2 DEF Apart, Go, IInv, TypeOK
  <2>2. Registered'
    BY <1>1, <1>2, <2>1, ReachedBy, ReachedQuietly DEF Alone, IInv, Pcs, EarlyPcs, LatePcs
  <2> QED
    BY <1>1, <1>2, <2>1, <2>2, AloneQuietly DEF world, Apart
<1>3. CASE /\ Go(c, "anchor") /\ entry[Home(c)] = saw[c]
           /\ pin' = [pin EXCEPT ![c][Home(c)] = saw[c]]
  <2>1. Apart(c) /\ pc'[c] = "anchor"
    BY <1>1, <1>3 DEF Apart, Go, IInv, TypeOK
  <2>2. Registered'
    BY <1>1, <1>3, <2>1, ReachedBy, ReachedQuietly DEF Alone, IInv, Pcs, EarlyPcs, LatePcs
  <2>3. \A o \in Contexts, h \in Paths :
          pin'[o][h] = IF o = c /\ h = Home(c) THEN entry[h] ELSE pin[o][h]
    BY <1>1, <1>3 DEF IInv, TypeOK
  <2>4. Home(c) \notin reserved[c]
    BY <1>1 DEF Alone, Registered, Reached, Home, EarlyPcs
  <2>5. Allocated' /\ PinsStay'
    BY <1>1, <2>3 DEF Alone, Allocated, PinsStay, world
  <2>6. \A d : Unknown(d) => Unknown(d)'
    BY <1>1, <2>3 DEF Unknown, world
  <2>7. Private'
    BY <1>1, <2>1, <2>6 DEF Alone, Private, Apart
  <2>8. Anchored'
    <3>1. \A o \in Contexts : \A h \in reserved[o] : pin'[o][h] = pin[o][h]
      BY <2>3, <2>4 DEF IInv, TypeOK
    <3> QED
      BY <1>1, <3>1 DEF Alone, Anchored, world
  <2> QED
    BY <2>2, <2>5, <2>7, <2>8 DEF Alone
<1> QED
  BY <1>2, <1>3 DEF PinHome, Prove, Refuse

\* Nobody knows what is published, and nobody keeps what was not.
LEMMA AlonePublish == ASSUME IInv, Alone, NEW c \in Contexts, Publish(c) PROVE Alone'
<1>1. /\ pc[c] = "publish" /\ UNCHANGED <<anchor, dirs, at, saw, pin, anc, reserved>>
      /\ Home(c) \in Paths /\ Unknown(saw[c])
      /\ \A o \in Contexts : pc[o] = "publish" /\ saw[o] = saw[c] => o = c
  BY HomeTyped DEF Publish, memory, Acquiring, Alone, Private
<1>2. PICK p \in {"bind", "undo"} : Go(c, p)
  BY DEF Publish, Refuse
<1>3. Apart(c) /\ pc'[c] = p
  BY <1>1, <1>2 DEF Apart, Go, IInv, TypeOK
<1>4. Registered'
  BY <1>1, <1>2, <1>3, ReachedBy, ReachedQuietly DEF Alone, IInv, Pcs, EarlyPcs, LatePcs
<1>5. Anchored'
  BY <1>1 DEF Alone, Anchored
<1>6. \A o \in Contexts : pc'[o] = "publish" => pc[o] = "publish" /\ saw[o] # saw[c]
  BY <1>1, <1>3 DEF Apart
<1>7. CASE entry' = [entry EXCEPT ![Home(c)] = saw[c]] /\ entry[Home(c)] = 0 /\ UNCHANGED gone
  <2>1. \A h \in Paths : entry'[h] = IF h = Home(c) THEN saw[c] ELSE entry[h]
    BY <1>7 DEF IInv, TypeOK
  <2>2. Allocated' /\ PinsStay'
    BY <1>1, <1>7, <2>1 DEF Alone, Allocated, PinsStay, Unknown
  <2>3. \A d : d # saw[c] /\ Unknown(d) => Unknown(d)'
    BY <1>1, <1>7, <2>1 DEF Unknown
  <2>4. Private'
    BY <1>1, <1>6, <2>3 DEF Alone, Private
  <2> QED
    BY <1>4, <1>5, <2>2, <2>4 DEF Alone
<1>8. CASE gone' = gone \cup {saw[c]} /\ UNCHANGED entry
  <2>1. Allocated' /\ PinsStay'
    BY <1>1, <1>8 DEF Alone, Allocated, PinsStay, Unknown
  <2>2. \A d : d # saw[c] /\ Unknown(d) => Unknown(d)'
    BY <1>1, <1>8 DEF Unknown
  <2>3. Private'
    BY <1>1, <1>6, <2>2 DEF Alone, Private
  <2> QED
    BY <1>4, <1>5, <2>1, <2>3 DEF Alone
<1> QED
  BY <1>7, <1>8 DEF Publish

\* A home that is removed has no anchor.
LEMMA AloneRmdir == ASSUME IInv, Alone, NEW c \in Contexts, Rmdir(c) PROVE Alone'
<1>1. /\ pc[c] = "rmdir" /\ UNCHANGED <<anchor, dirs, at, saw, pin, anc, reserved>>
      /\ Home(c) \in Paths /\ Go(c, "undo")
  BY HomeTyped DEF Rmdir, Refuse, memory, Acquiring
<1>2. Apart(c) /\ pc'[c] = "undo"
  BY <1>1 DEF Apart, Go, IInv, TypeOK
<1>3. Registered'
  BY <1>1, <1>2, ReachedBy, ReachedQuietly DEF Alone, IInv, Pcs, EarlyPcs, LatePcs
<1>4. Anchored'
  BY <1>1 DEF Alone, Anchored
<1>5. PICK d : d = entry[Home(c)]
  OBVIOUS
<1>6. CASE ~Removable(d)
  <2>1. UNCHANGED <<entry, gone>>
    BY <1>5, <1>6 DEF Rmdir
  <2> QED
    BY <1>1, <1>2, <1>3, <2>1, AloneQuietly DEF Apart
<1>7. CASE Removable(d)
  <2>1. /\ gone' = gone \cup {d} /\ anchor[d] = 0 /\ d \in Dirs
        /\ \A h \in Paths : entry'[h] = IF h = Home(c) THEN 0 ELSE entry[h]
    BY <1>1, <1>5, <1>7 DEF Rmdir, Removable, IInv, TypeOK, Dirs
  <2>2. dirs \in Nat /\ 0 \notin Dirs
    BY DEF IInv, TypeOK, Dirs
  <2>3. Allocated' /\ PinsStay'
    BY <1>1, <1>5, <2>1, <2>2 DEF Alone, Allocated, PinsStay
  <2>4. \A e : Unknown(e) => Unknown(e)'
    BY <1>1, <1>5, <2>1, <2>2 DEF Unknown
  <2>5. Private'
    BY <1>1, <1>2, <2>4 DEF Alone, Private, Apart
  <2> QED
    BY <1>3, <1>4, <2>3, <2>5 DEF Alone
<1> QED
  BY <1>6, <1>7

\* The anchor in place is the one everybody registered.
LEMMA AloneOpen == ASSUME IInv, Alone, NEW c \in Contexts, OpenAnchor(c) PROVE Alone'
<1>1. /\ pc[c] = "anchor" /\ UNCHANGED <<entry, gone, dirs, at, saw, pin>>
      /\ Home(c) \in Paths /\ Pinned(c) \in Dirs /\ at[c] \in DOMAIN Route[c] /\ at[c] \in Nat
  BY AcquiringFacts DEF OpenAnchor, PinnedPcs
<1>2. Home(c) \notin reserved[c]
  BY <1>1 DEF Alone, Registered, Reached, Home, EarlyPcs
<1>3. PICK d : d = Pinned(c)
  OBVIOUS
<1>4. PICK a : a = IF anchor[d] = 0 THEN anchors + 1 ELSE anchor[d]
  OBVIOUS
<1>5. CASE Refuse(c) /\ UNCHANGED <<anchor, anc, reserved>>
  <2>1. Apart(c) /\ pc'[c] = "undo"
    BY <1>1, <1>5 DEF Apart, Refuse, Go, IInv, TypeOK
  <2>2. Registered'
    BY <1>1, <1>5, <2>1, ReachedBy, ReachedQuietly
       DEF Alone, IInv, Pcs, EarlyPcs, LatePcs, Refuse
  <2> QED
    BY <1>1, <1>5, <2>1, <2>2, AloneQuietly DEF Apart
<1>6. CASE /\ d \notin gone /\ anchor' = [anchor EXCEPT ![d] = a]
           /\ anc' = [anc EXCEPT ![c][Home(c)] = a]
           /\ \/ /\ reserved' = [reserved EXCEPT ![c] = @ \cup {Home(c)}]
                 /\ Go(c, "flock-home")
              \/ Go(c, "undo") /\ UNCHANGED reserved
  <2>1. /\ Apart(c) /\ pc'[c] \in {"flock-home", "undo"}
        /\ pc'[c] = "flock-home" => reserved'[c] = reserved[c] \cup {Home(c)}
        /\ pc'[c] = "undo" => reserved'[c] = reserved[c]
    BY <1>1, <1>6 DEF Apart, Go, IInv, TypeOK
  <2>2. Registered'
    <3>1. Reached(c) /\ \A i \in DOMAIN Route[c] : i \in Nat
      BY RouteFacts DEF Alone, Registered
    <3>2. \A i \in DOMAIN Route[c] : Route[c][i] = Home(c) => i = at[c]
      BY <1>1, RouteFacts DEF Home
    <3>3. Reached(c)'
      BY <1>1, <2>1, <3>1, <3>2 DEF Reached, Home, EarlyPcs, LatePcs
    <3> QED
      BY <2>1, <3>3, ReachedBy DEF Alone
  <2>3. /\ a # 0 /\ (anchor[d] # 0 => a = anchor[d])
        /\ \A e \in Dirs : anchor'[e] = IF e = d THEN a ELSE anchor[e]
        /\ \A o \in Contexts, h \in Paths :
             anc'[o][h] = IF o = c /\ h = Home(c) THEN a ELSE anc[o][h]
    <3>1. /\ anchors \in Nat /\ anchor = [e \in Dirs |-> anchor[e]]
          /\ anc = [o \in Contexts |-> [h \in Paths |-> anc[o][h]]]
      BY LocksAssumption DEF IInv, TypeOK
    <3>2. a # 0 /\ (anchor[d] # 0 => a = anchor[d])
      BY <1>4, <3>1
    <3>3. \A e \in Dirs : anchor'[e] = IF e = d THEN a ELSE anchor[e]
      BY <1>6, <3>1
    <3>4. \A o \in Contexts, h \in Paths :
            anc'[o][h] = IF o = c /\ h = Home(c) THEN a ELSE anc[o][h]
      BY <1>6, <3>1
    <3> QED
      BY <3>2, <3>3, <3>4
  <2>4. d = pin[c][Home(c)] /\ d \in Dirs /\ d # 0
    BY <1>1, <1>3 DEF Pinned, Dirs
  <2>5. Allocated' /\ PinsStay'
    BY <1>1, <1>6, <2>3, <2>4 DEF Alone, Allocated, PinsStay
  <2>6. \A e : Unknown(e) => Unknown(e)'
    BY <1>1, <2>3, <2>4 DEF Unknown
  <2>7. Private'
    BY <1>1, <2>1, <2>6 DEF Alone, Private, Apart
  <2>8. Anchored'
    <3> SUFFICES ASSUME NEW o \in Contexts, NEW h \in reserved'[o]
                 PROVE  /\ pin[o][h] # 0 /\ anc'[o][h] # 0
                        /\ anchor'[pin[o][h]] = anc'[o][h]
      BY <1>1 DEF Anchored
    <3>1. CASE o = c /\ h = Home(c)
      BY <1>1, <2>3, <2>4, <3>1
    <3>2. CASE ~(o = c /\ h = Home(c))
      <4>1. h \in reserved[o]
        BY <2>1, <3>2 DEF Apart
      <4>2. h \in Paths /\ pin[o][h] \in 0..MaxDirs
        BY <4>1 DEF IInv, TypeOK
      <4>3. pin[o][h] # 0 /\ anc[o][h] # 0 /\ anchor[pin[o][h]] = anc[o][h] /\ pin[o][h] \in Dirs
        BY <4>1, <4>2 DEF Alone, Anchored, Dirs
      <4> QED
        BY <2>3, <3>2, <4>2, <4>3
    <3> QED
      BY <3>1, <3>2
  <2> QED
    BY <2>2, <2>5, <2>7, <2>8 DEF Alone
<1> QED
  BY <1>3, <1>4, <1>5, <1>6 DEF OpenAnchor, Refuse

LEMMA AloneKill == ASSUME IInv, Alone, NEW i, Kill(i) PROVE Alone'
<1> DEFINE Dead == {c \in Contexts : Interpreter[c] = i}
<1>1. /\ \A c \in Dead : pc'[c] = "dead" /\ reserved'[c] = {}
      /\ \A c \in Contexts \ Dead : pc'[c] = pc[c] /\ reserved'[c] = reserved[c]
      /\ UNCHANGED <<at, pin, anc, saw, world>>
  BY DEF Kill, IInv, TypeOK
<1>2. Registered'
  BY <1>1 DEF Alone, Registered, Reached, EarlyPcs, LatePcs
<1> QED
  BY <1>1, <1>2, AloneQuietly DEF world

LEMMA AloneInit == Init => Alone
<1> SUFFICES ASSUME Init PROVE Alone
  OBVIOUS
<1>1. Cardinality(Existing) \in 0..MaxDirs
  BY LocksAssumption
<1>2. dirs \in Nat /\ entry \in [Paths -> 0..dirs]
  BY <1>1, LocksAssumption DEF Init
<1>3. Allocated /\ Private /\ PinsStay /\ Anchored
  BY <1>2, LocksAssumption DEF Init, Allocated, Private, PinsStay, Anchored
<1>4. Registered
  <2> SUFFICES ASSUME NEW c \in Contexts PROVE Reached(c)
    BY DEF Registered
  <2>1. \A j \in DOMAIN Route[c] : ~(j < 1)
    BY RouteFacts
  <2> QED
    BY <2>1 DEF Init, Reached, LatePcs
<1> QED
  BY <1>3, <1>4 DEF Alone

\* Whoever meddles has meddled before as well.
LEMMA MeddlesStay == TypeOK /\ [Next]_vars /\ meddles' = 0 => meddles = 0 /\ ~Meddle
<1> SUFFICES ASSUME TypeOK, [Next]_vars, meddles' = 0 PROVE meddles = 0 /\ ~Meddle
  OBVIOUS
<1>1. Meddle => meddles' = meddles + 1
  BY DEF Meddle
<1>2. ASSUME NEW c \in Contexts, Step(c)
      PROVE  UNCHANGED bounds
  BY <1>2 DEF Step, Validate, Look, Enter, PinHome, Publish, Bind, Prove, Rmdir, OpenAnchor, FlockHome,
     CheckHome, FlockAnchor, CheckAnchor, Leave, Undo, Release
<1>3. ASSUME NEW c \in Contexts, Unpublish(c) \/ Fault(c)
      PROVE  UNCHANGED meddles
  BY <1>3 DEF Unpublish, Fault
<1>4. \A i : Kill(i) => UNCHANGED meddles
  BY DEF Kill
<1>5. Meddle \/ UNCHANGED meddles
  BY <1>2, <1>3, <1>4 DEF Next, vars, bounds
<1> QED
  BY <1>1, <1>5 DEF TypeOK

LEMMA AloneStep == IInv /\ LeftAlone /\ [Next]_vars => LeftAlone'
<1> SUFFICES ASSUME IInv, LeftAlone, [Next]_vars, meddles' = 0
             PROVE  Alone'
  BY DEF LeftAlone
<1>1. Alone /\ ~Meddle
  BY MeddlesStay DEF LeftAlone, IInv
<1>2. CASE UNCHANGED vars
  <2>1. Registered'
    BY <1>1, <1>2 DEF vars, memory, Alone, Registered, Reached
  <2> QED
    BY <1>1, <1>2, <2>1, AloneQuietly DEF vars, world, memory
<1> QED
  BY <1>1, <1>2, AloneLooking, AloneLeaving, AloneEnter, AlonePin, AlonePublish, AloneRmdir,
     AloneOpen, AloneKill DEF Next, Step

\* As long as the user leaves homes and anchors alone, a pinned home stays at its
\* path until it is removed, and a home with an anchor is not removed.
THEOREM HomesAreLeftAlone == Spec => []LeftAlone
<1>1. Init => LeftAlone
  BY AloneInit DEF LeftAlone
<1> QED
  BY <1>1, AloneStep, LocksHeld, PTL DEF Spec

\* The clean-up after a failed publication (_cleanup_owned_directory) never takes
\* away the home another context has locked.
THEOREM LockedHomesStay == Spec => []LockedHomeStays
<1>1. IInv /\ LeftAlone => LockedHomeStays
  <2> SUFFICES ASSUME IInv, Alone, NEW c \in Contexts, lease[c], NEW h \in Homes(c)
               PROVE  MayWrite(c, h)
    BY DEF LockedHomeStays, LeftAlone
  <2>1. PICK i \in DOMAIN Route[c] : Route[c][i] = h
    BY DEF Homes
  <2>2. pc[c] = "held" /\ at[c] = Len(Route[c]) /\ h \in Paths /\ i <= at[c] /\ i \in Nat
    BY <2>1, RouteFacts DEF IInv, LeaseOK
  <2>3. h \in reserved[c]
    BY <2>1, <2>2, RouteFacts DEF Alone, Registered, Reached, LatePcs
  <2>4. pin[c][h] # 0 /\ anchor[pin[c][h]] # 0 /\ pin[c][h] \in Dirs
    BY <2>2, <2>3 DEF Alone, Anchored, IInv, TypeOK, Dirs
  <2> QED
    BY <2>2, <2>4 DEF MayWrite, Alone, Allocated, PinsStay
<1> QED
  BY <1>1, HomesAreLeftAlone, LocksHeld, PTL
-----------------------------------------------------------------------------
(* Refusals have a cause. *)

\* While no system call raises either, nothing that was published is removed, and
\* who finds its homes is not refused.
Granted(c) ==
  /\ ~refused[c] /\ pc[c] \notin {"publish", "bind", "prove", "undo"}
  /\ pc[c] \in {"enter", "pin"} => saw[c] = entry[Home(c)]
Lasting ==
  /\ \A h \in Existing : entry[h] # 0
  /\ \A h \in Paths : entry[h] \notin gone
  /\ \A c \in Contexts : pc[c] # "rmdir"
  /\ \A c \in Contexts, h \in Paths : pin[c][h] \notin gone
Smooth ==
  Lasting /\ \A c \in Contexts : InOrder(c) /\ Homes(c) \subseteq Existing => Granted(c)
Unhindered == meddles = 0 /\ faults = 0 => Smooth

\* Homes only come, and what is given up was nobody's.
LEMMA LastingStep ==
  ASSUME IInv, Alone, Lasting, NEW c \in Contexts, Step(c)
  PROVE  Lasting' /\ \A h \in Paths : entry'[h] = entry[h] \/ entry[h] = 0
<1> USE DEF Lasting
<1>0. /\ pc \in [Contexts -> Pcs] /\ gone \subseteq Dirs /\ 0 \notin Dirs
      /\ pin = [o \in Contexts |-> [h \in Paths |-> pin[o][h]]]
      /\ entry = [h \in Paths |-> entry[h]]
  BY DEF IInv, TypeOK, Dirs
<1>1. ASSUME NEW p, p # "rmdir", Go(c, p), UNCHANGED <<entry, gone>>,
             \/ UNCHANGED pin
             \/ entry[Home(c)] = saw[c] /\ pin' = [pin EXCEPT ![c][Home(c)] = saw[c]]
                /\ Home(c) \in Paths
      PROVE  Lasting' /\ \A h \in Paths : entry'[h] = entry[h] \/ entry[h] = 0
  <2>1. \A o \in Contexts : pc'[o] # "rmdir"
    BY <1>0, <1>1 DEF Go
  <2>2. \A o \in Contexts, h \in Paths : pin'[o][h] \notin gone
    BY <1>0, <1>1
  <2> QED
    BY <1>1, <2>1, <2>2
<1>2. CASE Validate(c) \/ Look(c) \/ Enter(c) \/ Bind(c) \/ OpenAnchor(c)
  BY <1>1, <1>2 DEF Validate, memory, Look, Enter, Bind, OpenAnchor, Refuse, world
<1>3. CASE FlockHome(c) \/ CheckHome(c) \/ FlockAnchor(c) \/ CheckAnchor(c) \/ Leave(c)
  BY <1>1, <1>3 DEF FlockHome, CheckHome, FlockAnchor, CheckAnchor, Leave, Refuse, world, memory
<1>4. CASE PinHome(c) \/ Prove(c)
  BY <1>1, <1>4, HomeTyped DEF PinHome, Prove, Refuse, world, Acquiring
<1>5. CASE Undo(c) \/ Release(c)
  <2>1. UNCHANGED <<entry, gone, pin>> /\ (pc' = pc \/ Go(c, "release") \/ Go(c, "done"))
    BY <1>5 DEF Undo, Release, world
  <2> QED
    BY <1>1, <2>1
<1>6. CASE Publish(c)
  <2>1. UNCHANGED pin /\ (Go(c, "bind") \/ Go(c, "undo")) /\ Unknown(saw[c]) /\ Home(c) \in Paths
    BY <1>6, HomeTyped DEF Publish, Refuse, memory, Alone, Private, Acquiring
  <2>2. \A o \in Contexts : pc'[o] # "rmdir"
    BY <1>0, <2>1 DEF Go
  <2>3. CASE entry' = [entry EXCEPT ![Home(c)] = saw[c]] /\ entry[Home(c)] = 0 /\ UNCHANGED gone
    <3>1. \A h \in Paths : entry'[h] = IF h = Home(c) THEN saw[c] ELSE entry[h]
      BY <1>0, <2>3
    <3>2. saw[c] # 0 /\ saw[c] \notin gone /\ \A h \in Existing : h \in Paths
      BY <1>0, <2>1, LocksAssumption DEF Unknown
    <3> QED
      BY <2>1, <2>2, <2>3, <3>1, <3>2
  <2>4. CASE gone' = gone \cup {saw[c]} /\ UNCHANGED entry
    BY <2>1, <2>2, <2>4 DEF Unknown
  <2> QED
    BY <1>6, <2>3, <2>4 DEF Publish
<1>7. ~Rmdir(c)
  BY DEF Rmdir
<1> QED
  BY <1>2, <1>3, <1>4, <1>5, <1>6, <1>7 DEF Step

\* Who finds its homes, and asks for them in order, gets the locks.
LEMMA GrantedStep ==
  ASSUME IInv, Alone, Lasting, NEW c \in Contexts, InOrder(c), Homes(c) \subseteq Existing,
         Granted(c), Step(c)
  PROVE  /\ ~refused'[c] /\ pc'[c] \notin {"publish", "bind", "prove", "undo"}
         /\ pc'[c] \in {"enter", "pin"} => saw'[c] = entry[Home(c)] /\ at'[c] = at[c] /\ UNCHANGED entry
<1> USE DEF Granted
<1>1. pc \in [Contexts -> Pcs] /\ saw \in [Contexts -> 0..MaxDirs] /\ refused \in [Contexts -> BOOLEAN]
  BY DEF IInv, TypeOK
<1>2. pc[c] \in Acquiring => /\ Home(c) \in Homes(c) /\ Home(c) \in Paths /\ entry[Home(c)] # 0
                             /\ at[c] \in DOMAIN Route[c]
  BY HomeTyped DEF Home, Homes, Lasting
<1>3. pc[c] \in LatePcs => AnchorInPlace(c)
  <2> SUFFICES ASSUME pc[c] \in LatePcs PROVE AnchorInPlace(c)
    OBVIOUS
  <2>1. Home(c) \in reserved[c]
    BY <1>2 DEF Alone, Registered, Reached, Home, LatePcs, Acquiring
  <2> QED
    BY <2>1 DEF Alone, Anchored, AnchorInPlace, Pinned, MyAnchor
<1>11. CASE Validate(c)
  BY <1>1, <1>11 DEF Validate, Go
<1>4. CASE Look(c) \/ PinHome(c)
  BY <1>1, <1>2, <1>4 DEF Look, PinHome, Refuse, Go, world, Acquiring
<1>5. CASE Enter(c)
  BY <1>1, <1>2, <1>5 DEF Enter, Go, Acquiring
<1>6. CASE OpenAnchor(c)
  <2>1. /\ pc[c] = "anchor" /\ Pinned(c) = pin[c][Home(c)] /\ Pinned(c) \in Dirs /\ Home(c) \in Paths
        /\ 0 \notin Dirs
    BY <1>6, AcquiringFacts DEF OpenAnchor, PinnedPcs, Pinned, Dirs
  <2>2. Pinned(c) \notin gone /\ Pinned(c) = entry[Home(c)]
    BY <2>1 DEF Lasting, Alone, PinsStay
  <2>3. ASSUME NEW a, a = IF anchor[Pinned(c)] = 0 THEN anchors + 1 ELSE anchor[Pinned(c)]
        PROVE  Reservable(c, a)
    <3> SUFFICES ASSUME NEW o \in Contexts \ {c}, Home(c) \in reserved[o]
                 PROVE  anc[o][Home(c)] = a
      BY DEF Reservable
    <3>1. /\ pin[o][Home(c)] # 0 /\ anc[o][Home(c)] # 0
          /\ anchor[pin[o][Home(c)]] = anc[o][Home(c)]
      BY DEF Alone, Anchored
    <3>2. pin[o][Home(c)] = entry[Home(c)]
      BY <2>1, <3>1 DEF Lasting, Alone, PinsStay
    <3> QED
      BY <2>2, <2>3, <3>1, <3>2
  <2>4. Go(c, "flock-home") /\ UNCHANGED refused
    BY <1>6, <2>2, <2>3 DEF OpenAnchor
  <2> QED
    BY <1>1, <2>4 DEF Go
<1>7. CASE FlockHome(c) \/ CheckHome(c) \/ FlockAnchor(c)
  BY <1>1, <1>3, <1>7 DEF FlockHome, CheckHome, FlockAnchor, Go, LatePcs
<1>8. CASE CheckAnchor(c)
  <2>1. UNCHANGED refused /\ (Go(c, "look") \/ Go(c, "held"))
    BY <1>3, <1>8 DEF CheckAnchor, LatePcs
  <2> QED
    BY <1>1, <2>1 DEF Go
<1>9. CASE Leave(c) \/ Release(c)
  <2>1. UNCHANGED refused /\ pc[c] \in {"held", "release"}
        /\ (pc' = pc \/ Go(c, "release") \/ Go(c, "done"))
    BY <1>9 DEF Leave, Release
  <2> QED
    BY <1>1, <2>1 DEF Go
<1>10. ~(Publish(c) \/ Bind(c) \/ Prove(c) \/ Rmdir(c) \/ Undo(c))
  BY DEF Publish, Bind, Prove, Rmdir, Undo, Lasting
<1> QED
  BY <1>4, <1>5, <1>6, <1>7, <1>8, <1>9, <1>10, <1>11 DEF Step

LEMMA SmoothStep == IInv /\ LeftAlone /\ Unhindered /\ [Next]_vars => Unhindered'
<1> SUFFICES ASSUME IInv, LeftAlone, Unhindered, [Next]_vars, meddles' = 0, faults' = 0
             PROVE  Smooth'
  BY DEF Unhindered
<1>1. Alone /\ ~Meddle /\ meddles = 0
  BY MeddlesStay DEF LeftAlone, IInv
<1>2. /\ \A c \in Contexts : ~Unpublish(c) /\ ~Fault(c)
      /\ faults = 0
  <2>1. \A c \in Contexts : Unpublish(c) \/ Fault(c) => faults' = faults + 1
    BY DEF Unpublish, Fault
  <2>2. ASSUME NEW c \in Contexts, Step(c)
        PROVE  UNCHANGED faults
    BY <2>2 DEF Step, Validate, Look, Enter, PinHome, Publish, Bind, Prove, Rmdir, OpenAnchor, FlockHome,
       CheckHome, FlockAnchor, CheckAnchor, Leave, Undo, Release, bounds
  <2>3. \A i : Kill(i) => UNCHANGED faults
    BY DEF Kill
  <2>4. UNCHANGED vars => UNCHANGED faults
    BY DEF vars, bounds
  <2>5. faults \in Nat
    BY DEF IInv, TypeOK
  <2> QED
    BY <1>1, <2>1, <2>2, <2>3, <2>4, <2>5 DEF Next
<1>3. Smooth
  BY <1>1, <1>2 DEF Unhindered
<1>4. ASSUME NEW c \in Contexts, Step(c)
      PROVE  Smooth'
  <2>1. Lasting' /\ \A h \in Paths : entry'[h] = entry[h] \/ entry[h] = 0
    BY <1>1, <1>3, <1>4, LastingStep DEF Smooth
  <2>2. \A o \in Contexts \ {c} : /\ pc'[o] = pc[o] /\ at'[o] = at[o] /\ saw'[o] = saw[o]
                                  /\ refused'[o] = refused[o]
    <3>1. ASSUME NEW p, Go(c, p)
          PROVE  \A o \in Contexts \ {c} : pc'[o] = pc[o]
      BY <3>1 DEF Go, IInv, TypeOK
    <3> QED
      BY <1>4, <3>1 DEF Step, Validate, Look, Enter, PinHome, Publish, Bind, Prove, Rmdir, OpenAnchor,
         FlockHome, CheckHome, FlockAnchor, CheckAnchor, Leave, Undo, Release, Refuse, memory,
         IInv, TypeOK
  <2>3. ASSUME NEW o \in Contexts, InOrder(o), Homes(o) \subseteq Existing, o # c
        PROVE  Granted(o)'
    <3>1. Granted(o)
      BY <1>3, <2>3 DEF Smooth
    <3>2. pc[o] \in {"enter", "pin"} => entry'[Home(o)] = entry[Home(o)]
      <4>1. pc[o] \in {"enter", "pin"} => Home(o) \in Homes(o) /\ Home(o) \in Paths
        BY HomeTyped DEF Home, Homes, Acquiring
      <4> QED
        BY <1>3, <2>1, <2>3, <4>1 DEF Smooth, Lasting
    <3> QED
      BY <2>2, <2>3, <3>1, <3>2 DEF Granted, Home
  <2>4. InOrder(c) /\ Homes(c) \subseteq Existing => Granted(c)'
    BY <1>1, <1>3, <1>4, GrantedStep DEF Smooth, Granted, Home
  <2> QED
    BY <2>1, <2>3, <2>4 DEF Smooth, Homes, InOrder
<1>5. CASE \E i \in {Interpreter[c] : c \in Contexts} : Kill(i)
  <2>1. /\ UNCHANGED <<entry, gone, pin, saw, at, refused>>
        /\ \A c \in Contexts : pc'[c] \in {pc[c], "dead"}
    BY <1>5 DEF Kill, world
  <2> QED
    BY <1>3, <2>1 DEF Smooth, Lasting, Granted, Home, Homes, InOrder
<1>6. CASE UNCHANGED vars
  BY <1>3, <1>6 DEF vars, world, memory, Smooth, Lasting, Granted, Home, Homes, InOrder
<1> QED
  BY <1>1, <1>2, <1>4, <1>5, <1>6 DEF Next

\* While nobody meddles and nothing raises, contexts whose homes exist get on.
THEOREM NobodyIsHindered == Spec => []Unhindered
<1>1. Init => Unhindered
  <2> SUFFICES ASSUME Init PROVE Smooth
    BY DEF Unhindered
  <2>1. Lasting
    BY LocksAssumption DEF Init, Lasting
  <2>2. pc = [c \in Contexts |-> "validate"] /\ refused = [c \in Contexts |-> FALSE]
    BY DEF Init
  <2>3. \A c \in Contexts : Granted(c)
    BY <2>2 DEF Granted
  <2> QED
    BY <2>1, <2>3 DEF Smooth
<1> QED
  BY <1>1, SmoothStep, LocksHeld, HomesAreLeftAlone, PTL DEF Spec

\* Contexts that only wait for each other are never refused: a refusal means that
\* the user interfered, a system call raised, a home had to be created, or the
\* homes were asked for in another order than the registry's.
THEOREM RefusalsHaveACause == Spec => []RefusalJustified
<1>1. IInv /\ Unhindered => RefusalJustified
  BY DEF IInv, TypeOK, Unhindered, Smooth, Granted, RefusalJustified
<1> QED
  BY <1>1, NobodyIsHindered, LocksHeld, PTL
=============================================================================
