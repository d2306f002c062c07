---------------------------- MODULE TargetLocks ----------------------------
(***************************************************************************)
(* The per-home locks of concurrent installers                             *)
(* (src/subagents_configs/locks.py, locked_target_homes).                  *)
(*                                                                         *)
(* A context locks the homes of its targets one after the other, if they   *)
(* are given in registry order.  For each it opens or creates the home,    *)
(* opens or creates the lock anchor inside it, and takes two exclusive     *)
(* flocks, of the home directory and of the anchor, each followed by a     *)
(* check that the anchor's name still leads to the inode it opened.  The   *)
(* user may move homes away and delete anchors meanwhile, a system call    *)
(* may raise, and a process may be killed.                                 *)
(*                                                                         *)
(* Directories and anchors are inodes; a path or a name leads to one or to *)
(* none (0).  Open descriptors keep inodes from being reused.              *)
(***************************************************************************)
EXTENDS Naturals, Sequences, FiniteSets

CONSTANTS
  Contexts,     \* execution contexts, each entering locked_target_homes once
  Paths,        \* paths of target homes
  Route,        \* Route[c]: the distinct homes c is asked to lock, in that order
  Rank,         \* Rank[h]: the place of h's target in the registry
  Interpreter,  \* Interpreter[c]: the process c runs in
  Existing,     \* the homes that exist at the start
  MaxDirs, MaxAnchors, MaxMeddles, MaxFaults, MaxKills   \* bounds

Dirs == 1..MaxDirs
AnchorIds == 1..MaxAnchors
Nobody == "nobody"

ASSUME LocksAssumption ==
  /\ Existing \subseteq Paths /\ Cardinality(Existing) \in 0..MaxDirs
  /\ \A c \in Contexts : /\ Route[c] \in Seq(Paths) /\ Route[c] # <<>>
                         /\ \A i, j \in DOMAIN Route[c] : Route[c][i] = Route[c][j] => i = j
  /\ Rank \in [Paths -> Nat]
  /\ Nobody \notin Contexts
  /\ MaxDirs \in Nat /\ MaxAnchors \in Nat
  /\ MaxMeddles \in Nat /\ MaxFaults \in Nat /\ MaxKills \in Nat

VARIABLES
  entry,      \* entry[h]: the directory at path h
  anchor,     \* anchor[d]: what the anchor's name in directory d leads to
  ctime,      \* ctime[d]: how often directory d has changed
  gone,       \* directories that were removed
  dirLock,    \* dirLock[d]: who holds the flock of directory d
  anchorLock, \* anchorLock[a]: who holds the flock of anchor a
  dirs, anchors,  \* how many inodes have been allocated
  pc,         \* pc[c]: the next system call of c
  at,         \* at[c]: the index in Route[c] it has reached
  saw,        \* saw[c]: the directory its validation saw; its own when it creates one
  bound,      \* bound[c]: the change time of the home it published
  pin,        \* pin[c][h]: the directory c holds a descriptor of
  anc,        \* anc[c][h]: the anchor c holds a descriptor of
  reserved,   \* reserved[c]: homes whose anchor c has registered
  lease,      \* c has entered its protected section
  refused,    \* c was refused its locks
  meddles, faults, kills

world == <<entry, anchor, ctime, gone, dirs, anchors>>
locks == <<dirLock, anchorLock>>
memory == <<saw, bound, pin, anc, reserved>>
bounds == <<meddles, faults, kills>>
vars == <<world, locks, pc, at, memory, lease, refused, bounds>>

Home(c) == Route[c][at[c]]
Pinned(c) == pin[c][Home(c)]
MyAnchor(c) == anc[c][Home(c)]
Go(c, p) == pc' = [pc EXCEPT ![c] = p]

-----------------------------------------------------------------------------
(***************************************************************************)
(* _prepare_home: open the home, or create and publish it.                 *)
(***************************************************************************)
\* The current home is given up: its own locks first, then those before it.
Refuse(c) == Go(c, "undo") /\ refused' = [refused EXCEPT ![c] = TRUE]

InOrder(c) == \A i, j \in DOMAIN Route[c] : i < j => Rank[Route[c][i]] < Rank[Route[c][j]]

\* Mutant: the homes are locked in whatever order they are asked for.
ValidateNothing(c) ==
  /\ pc[c] = "validate" /\ Go(c, "look")
  /\ UNCHANGED <<world, locks, at, memory, lease, refused, bounds>>

\* _validate_target_sequence, before anything is opened.
Validate(c) ==
  /\ pc[c] = "validate"
  /\ \/ InOrder(c) /\ Go(c, "look") /\ UNCHANGED refused
     \/ ~InOrder(c) /\ Go(c, "done") /\ refused' = [refused EXCEPT ![c] = TRUE]
  /\ UNCHANGED <<world, locks, at, memory, lease, bounds>>

Look(c) ==
  /\ pc[c] = "look"
  /\ saw' = [saw EXCEPT ![c] = entry[Home(c)]]
  /\ Go(c, "enter")
  /\ UNCHANGED <<world, locks, at, bound, pin, anc, reserved, lease, refused, bounds>>

\* The home is as the validation saw it, or it is absent and is to be created.
Enter(c) ==
  /\ pc[c] = "enter"
  /\ \/ /\ saw[c] = entry[Home(c)] /\ saw[c] # 0
        /\ Go(c, "pin") /\ UNCHANGED <<dirs, saw, refused>>
     \/ /\ saw[c] = entry[Home(c)] /\ saw[c] = 0 /\ dirs < MaxDirs
        /\ dirs' = dirs + 1 /\ saw' = [saw EXCEPT ![c] = dirs + 1]
        /\ Go(c, "publish") /\ UNCHANGED refused
     \/ /\ saw[c] # entry[Home(c)]
        /\ Refuse(c) /\ UNCHANGED <<dirs, saw>>
  /\ UNCHANGED <<entry, anchor, ctime, gone, anchors, locks, at, bound, pin, anc,
                 reserved, lease, bounds>>

PinHome(c) ==
  /\ pc[c] = "pin"
  /\ IF entry[Home(c)] = saw[c]
       THEN /\ pin' = [pin EXCEPT ![c][Home(c)] = saw[c]]
            /\ Go(c, "anchor") /\ UNCHANGED refused
       ELSE Refuse(c) /\ UNCHANGED pin
  /\ UNCHANGED <<world, locks, at, saw, bound, anc, reserved, lease, bounds>>

\* renameat2(RENAME_NOREPLACE) of the private directory to the home's path.
Publish(c) ==
  /\ pc[c] = "publish"
  /\ IF entry[Home(c)] = 0
       THEN /\ entry' = [entry EXCEPT ![Home(c)] = saw[c]]
            /\ Go(c, "bind") /\ UNCHANGED <<gone, refused>>
       ELSE /\ gone' = gone \cup {saw[c]}
            /\ Refuse(c) /\ UNCHANGED entry
  /\ UNCHANGED <<anchor, ctime, dirs, anchors, locks, at, memory, lease, bounds>>

\* The published home's identity and change time are captured ...
Bind(c) ==
  /\ pc[c] = "bind"
  /\ bound' = [bound EXCEPT ![c] = ctime[saw[c]]]
  /\ IF entry[Home(c)] = saw[c] THEN Go(c, "prove") /\ UNCHANGED refused ELSE Refuse(c)
  /\ UNCHANGED <<world, locks, at, saw, pin, anc, reserved, lease, bounds>>

\* ... and must be the same once more: whoever put something into the home in
\* between makes its creator give up.
Prove(c) ==
  /\ pc[c] = "prove"
  /\ IF entry[Home(c)] = saw[c] /\ ctime[saw[c]] = bound[c]
       THEN /\ pin' = [pin EXCEPT ![c][Home(c)] = saw[c]]
            /\ Go(c, "anchor") /\ UNCHANGED refused
       ELSE Refuse(c) /\ UNCHANGED pin
  /\ UNCHANGED <<world, locks, at, saw, bound, anc, reserved, lease, bounds>>

\* An exception after the publication: _cleanup_owned_directory looks whether
\* the home is still the one published, unchanged ...
Unpublish(c) ==
  /\ pc[c] \in {"bind", "prove"} /\ faults < MaxFaults /\ faults' = faults + 1
  /\ LET binding == IF pc[c] = "bind" THEN ctime[saw[c]] ELSE bound[c] IN
     IF entry[Home(c)] = saw[c] /\ ctime[saw[c]] = binding
       THEN Go(c, "rmdir") /\ UNCHANGED refused
       ELSE Refuse(c)
  /\ UNCHANGED <<world, locks, at, memory, lease, meddles, kills>>

\* Mutant: the directory is removed with what it holds.
RemovableEmptyOrNot(d) == d # 0
Removable(d) == d # 0 /\ anchor[d] = 0

\* ... and removes the directory of that name if it is empty.
Rmdir(c) ==
  /\ pc[c] = "rmdir"
  /\ IF Removable(entry[Home(c)])
       THEN /\ gone' = gone \cup {entry[Home(c)]}
            /\ entry' = [entry EXCEPT ![Home(c)] = 0]
       ELSE UNCHANGED <<gone, entry>>
  /\ Refuse(c)
  /\ UNCHANGED <<anchor, ctime, dirs, anchors, locks, at, memory, lease, bounds>>

-----------------------------------------------------------------------------
(***************************************************************************)
(* The anchor and the two flocks.                                          *)
(***************************************************************************)
\* _reserve_anchor: contexts of one process agree on the inode of an anchor.
\* Mutant: one context of a process at a time.
ReservableAlone(c, a) ==
  \A o \in Contexts \ {c} : Interpreter[o] = Interpreter[c] => Home(c) \notin reserved[o]
Reservable(c, a) ==
  \A o \in Contexts \ {c} :
    Interpreter[o] = Interpreter[c] /\ Home(c) \in reserved[o] => anc[o][Home(c)] = a

\* The anchor is opened, created if need be, and registered.
OpenAnchor(c) ==
  /\ pc[c] = "anchor"
  /\ LET d == Pinned(c)
         new == anchor[d] = 0
         a == IF new THEN anchors + 1 ELSE anchor[d]
     IN
     \/ /\ d \in gone
        /\ Refuse(c) /\ UNCHANGED <<anchor, ctime, anchors, anc, reserved>>
     \/ /\ d \notin gone /\ (new => anchors < MaxAnchors)
        /\ anchor' = [anchor EXCEPT ![d] = a]
        /\ anchors' = IF new THEN a ELSE anchors
        /\ ctime' = IF new THEN [ctime EXCEPT ![d] = @ + 1] ELSE ctime
        /\ anc' = [anc EXCEPT ![c][Home(c)] = a]
        /\ IF Reservable(c, a)
             THEN /\ reserved' = [reserved EXCEPT ![c] = @ \cup {Home(c)}]
                  /\ Go(c, "flock-home") /\ UNCHANGED refused
             ELSE Refuse(c) /\ UNCHANGED reserved
  /\ UNCHANGED <<entry, gone, dirs, locks, at, saw, bound, pin, lease, bounds>>

\* Mutant: only the anchor is locked.
FlockAnchorOnly(c) ==
  /\ pc[c] = "flock-home" /\ Go(c, "check-home")
  /\ UNCHANGED <<world, locks, at, memory, lease, refused, bounds>>

FlockHome(c) ==
  /\ pc[c] = "flock-home" /\ dirLock[Pinned(c)] = Nobody
  /\ dirLock' = [dirLock EXCEPT ![Pinned(c)] = c]
  /\ Go(c, "check-home")
  /\ UNCHANGED <<world, anchorLock, at, memory, lease, refused, bounds>>

FlockAnchor(c) ==
  /\ pc[c] = "flock-anchor" /\ anchorLock[MyAnchor(c)] = Nobody
  /\ anchorLock' = [anchorLock EXCEPT ![MyAnchor(c)] = c]
  /\ Go(c, "check-anchor")
  /\ UNCHANGED <<world, dirLock, at, memory, lease, refused, bounds>>

AnchorInPlace(c) == anchor[Pinned(c)] = MyAnchor(c)

\* _lock_anchor_path_identity, after each flock.
CheckHome(c) ==
  /\ pc[c] = "check-home"
  /\ IF AnchorInPlace(c) THEN Go(c, "flock-anchor") /\ UNCHANGED refused ELSE Refuse(c)
  /\ UNCHANGED <<world, locks, at, memory, lease, bounds>>

CheckAnchor(c) ==
  /\ pc[c] = "check-anchor"
  /\ \/ ~AnchorInPlace(c) /\ Refuse(c) /\ UNCHANGED <<at, lease>>
     \/ /\ AnchorInPlace(c) /\ UNCHANGED refused
        /\ IF at[c] < Len(Route[c])
             THEN /\ at' = [at EXCEPT ![c] = @ + 1] /\ Go(c, "look") /\ UNCHANGED lease
             ELSE /\ lease' = [lease EXCEPT ![c] = TRUE] /\ Go(c, "held") /\ UNCHANGED at
  /\ UNCHANGED <<world, locks, memory, bounds>>

-----------------------------------------------------------------------------
(***************************************************************************)
(* Release: the lease, the anchors and then the homes, last locked first.  *)
(***************************************************************************)
Leave(c) ==
  /\ pc[c] = "held"
  /\ lease' = [lease EXCEPT ![c] = FALSE] /\ Go(c, "release")
  /\ UNCHANGED <<world, locks, at, memory, refused, bounds>>

HasAnchor(c, i) == LET a == anc[c][Route[c][i]] IN a # 0 /\ anchorLock[a] = c
HasHome(c, i) == LET d == pin[c][Route[c][i]] IN d # 0 /\ dirLock[d] = c

UnlockAnchor(c, i) ==
  /\ anchorLock' = [anchorLock EXCEPT ![anc[c][Route[c][i]]] = Nobody]
  /\ UNCHANGED dirLock
\* Mutant: the lock is given to a context that does not exist.
UnlockHomeToNone(c, i) ==
  /\ dirLock' = [dirLock EXCEPT ![pin[c][Route[c][i]]] = "none"]
  /\ UNCHANGED anchorLock
UnlockHome(c, i) ==
  /\ dirLock' = [dirLock EXCEPT ![pin[c][Route[c][i]]] = Nobody]
  /\ UNCHANGED anchorLock

\* The home whose locking failed: its anchor, its registration, the home itself.
\* Mutant: the registration and the home's lock are kept.
UndoAnchorOnly(c) ==
  /\ pc[c] = "undo"
  /\ \/ HasAnchor(c, at[c]) /\ UnlockAnchor(c, at[c]) /\ UNCHANGED <<pc, at, reserved>>
     \/ /\ ~HasAnchor(c, at[c]) /\ UNCHANGED <<locks, reserved>>
        /\ at' = [at EXCEPT ![c] = @ - 1] /\ Go(c, "release")
  /\ UNCHANGED <<world, saw, bound, pin, anc, lease, refused, bounds>>

Undo(c) ==
  /\ pc[c] = "undo"
  /\ \/ /\ HasAnchor(c, at[c]) /\ UnlockAnchor(c, at[c])
        /\ UNCHANGED <<pc, at, reserved>>
     \/ /\ ~HasAnchor(c, at[c])
        /\ reserved' = [reserved EXCEPT ![c] = @ \ {Home(c)}]
        /\ IF HasHome(c, at[c]) THEN UnlockHome(c, at[c]) ELSE UNCHANGED locks
        /\ at' = [at EXCEPT ![c] = @ - 1] /\ Go(c, "release")
  /\ UNCHANGED <<world, saw, bound, pin, anc, lease, refused, bounds>>

Release(c) ==
  /\ pc[c] = "release"
  /\ LET held == {i \in 1..at[c] : HasAnchor(c, i)}
         homes == {i \in 1..at[c] : HasHome(c, i)}
     IN
     \/ \E i \in held : /\ \A j \in held : j <= i
                        /\ UnlockAnchor(c, i) /\ UNCHANGED <<pc, reserved>>
     \/ /\ held = {}
        /\ \E i \in homes : /\ \A j \in homes : j <= i
                            /\ UnlockHome(c, i) /\ UNCHANGED <<pc, reserved>>
     \/ /\ held = {} /\ homes = {}
        /\ reserved' = [reserved EXCEPT ![c] = {}]
        /\ Go(c, "done") /\ UNCHANGED locks
  /\ UNCHANGED <<world, at, saw, bound, pin, anc, lease, refused, bounds>>

-----------------------------------------------------------------------------
(***************************************************************************)
(* What goes wrong.                                                        *)
(***************************************************************************)
\* A system call raises while a home is being locked.
Fault(c) ==
  /\ faults < MaxFaults /\ faults' = faults + 1
  /\ pc[c] \in {"look", "enter", "pin", "anchor", "check-home", "check-anchor",
                "flock-home", "flock-anchor"}
  /\ Refuse(c)
  /\ UNCHANGED <<world, locks, at, memory, lease, meddles, kills>>

\* A process is killed: the system releases the flocks of all its contexts.
Kill(i) ==
  LET dead == {c \in Contexts : Interpreter[c] = i} IN
  /\ kills < MaxKills /\ kills' = kills + 1
  /\ \E c \in dead : pc[c] \notin {"done", "dead"}
  /\ pc' = [c \in Contexts |-> IF c \in dead THEN "dead" ELSE pc[c]]
  /\ lease' = [c \in Contexts |-> c \notin dead /\ lease[c]]
  /\ reserved' = [c \in Contexts |-> IF c \in dead THEN {} ELSE reserved[c]]
  /\ dirLock' = [d \in Dirs |-> IF dirLock[d] \in dead THEN Nobody ELSE dirLock[d]]
  /\ anchorLock' = [a \in AnchorIds |-> IF anchorLock[a] \in dead THEN Nobody
                                                                ELSE anchorLock[a]]
  /\ UNCHANGED <<world, at, saw, bound, pin, anc, refused, meddles, faults>>

\* The user deletes an anchor, moves a home away, or puts another one there.
Meddle ==
  /\ meddles < MaxMeddles /\ meddles' = meddles + 1
  /\ \/ \E d \in Dirs : /\ anchor[d] # 0
                        /\ anchor' = [anchor EXCEPT ![d] = 0]
                        /\ ctime' = [ctime EXCEPT ![d] = @ + 1]
                        /\ UNCHANGED <<entry, dirs>>
     \/ \E h \in Paths : /\ entry[h] # 0
                         /\ entry' = [entry EXCEPT ![h] = 0]
                         /\ UNCHANGED <<anchor, ctime, dirs>>
     \/ \E h \in Paths : /\ entry[h] = 0 /\ dirs < MaxDirs
                         /\ dirs' = dirs + 1
                         /\ entry' = [entry EXCEPT ![h] = dirs + 1]
                         /\ UNCHANGED <<anchor, ctime>>
  /\ UNCHANGED <<gone, anchors, locks, pc, at, memory, lease, refused, faults, kills>>

-----------------------------------------------------------------------------
\* The homes that exist have a directory each, in some order.
Init ==
  /\ dirs = Cardinality(Existing)
  /\ entry \in [Paths -> 0..dirs]
  /\ \A h \in Paths : entry[h] # 0 <=> h \in Existing
  /\ \A h, g \in Existing : entry[h] = entry[g] => h = g
  /\ anchor = [d \in Dirs |-> 0] /\ anchors = 0
  /\ ctime = [d \in Dirs |-> 0] /\ gone = {}
  /\ dirLock = [d \in Dirs |-> Nobody] /\ anchorLock = [a \in AnchorIds |-> Nobody]
  /\ pc = [c \in Contexts |-> "validate"] /\ at = [c \in Contexts |-> 1]
  /\ saw = [c \in Contexts |-> 0] /\ bound = [c \in Contexts |-> 0]
  /\ pin = [c \in Contexts |-> [h \in Paths |-> 0]]
  /\ anc = [c \in Contexts |-> [h \in Paths |-> 0]]
  /\ reserved = [c \in Contexts |-> {}]
  /\ lease = [c \in Contexts |-> FALSE] /\ refused = [c \in Contexts |-> FALSE]
  /\ meddles = 0 /\ faults = 0 /\ kills = 0

Step(c) ==
  \/ Validate(c) \/ Look(c) \/ Enter(c) \/ PinHome(c)
  \/ Publish(c) \/ Bind(c) \/ Prove(c) \/ Rmdir(c)
  \/ OpenAnchor(c) \/ FlockHome(c) \/ CheckHome(c) \/ FlockAnchor(c) \/ CheckAnchor(c)
  \/ Leave(c) \/ Undo(c) \/ Release(c)
Next ==
  \/ \E c \in Contexts : Step(c) \/ Unpublish(c) \/ Fault(c)
  \/ \E i \in {Interpreter[c] : c \in Contexts} : Kill(i)
  \/ Meddle

Spec == Init /\ [][Next]_vars
\* Every context is scheduled; a flock that stays free is granted.
FairSpec == Spec /\ \A c \in Contexts : WF_vars(Step(c))

-----------------------------------------------------------------------------
(***************************************************************************)
(* Properties.                                                             *)
(***************************************************************************)
Pcs == {"validate", "look", "enter", "pin", "publish", "bind", "prove", "rmdir", "anchor",
        "flock-home", "check-home", "flock-anchor", "check-anchor", "held",
        "undo", "release", "done", "dead"}

TypeOK ==
  /\ entry \in [Paths -> 0..MaxDirs] /\ anchor \in [Dirs -> 0..MaxAnchors]
  /\ ctime \in [Dirs -> Nat] /\ gone \subseteq Dirs
  /\ dirLock \in [Dirs -> Contexts \cup {Nobody}]
  /\ anchorLock \in [AnchorIds -> Contexts \cup {Nobody}]
  /\ dirs \in 0..MaxDirs /\ anchors \in 0..MaxAnchors
  /\ pc \in [Contexts -> Pcs]
  /\ at \in [Contexts -> Nat] /\ \A c \in Contexts : at[c] \in 0..Len(Route[c])
  /\ saw \in [Contexts -> 0..MaxDirs] /\ bound \in [Contexts -> Nat]
  /\ pin \in [Contexts -> [Paths -> 0..MaxDirs]]
  /\ anc \in [Contexts -> [Paths -> 0..MaxAnchors]]
  /\ reserved \in [Contexts -> SUBSET Paths]
  /\ lease \in [Contexts -> BOOLEAN] /\ refused \in [Contexts -> BOOLEAN]
  /\ meddles \in Nat /\ faults \in Nat /\ kills \in Nat

Homes(c) == {Route[c][i] : i \in DOMAIN Route[c]}
\* c may write to h: it has the lease, and h is still the home it locked
\* (verify_locked_home_path).
MayWrite(c, h) == lease[c] /\ h \in Homes(c) /\ entry[h] = pin[c][h] /\ entry[h] # 0

\* Two contexts never may write to one home, also when anchors are deleted and
\* created anew and homes moved, published and moved back.
MutualExclusion ==
  \A c, o \in Contexts, h \in Paths : MayWrite(c, h) /\ MayWrite(o, h) => c = o

\* The clean-up after a failed publication never takes away the home that
\* another context has locked meanwhile.
LockedHomeStays ==
  meddles = 0 => \A c \in Contexts : lease[c] => \A h \in Homes(c) : MayWrite(c, h)

\* Without interference every context gets its locks, if its homes exist and it
\* asks for them in the order of the registry.
RefusalJustified ==
  \A c \in Contexts :
    refused[c] =>
      \/ ~InOrder(c) \/ ~(Homes(c) \subseteq Existing)
      \/ meddles > 0 \/ faults > 0

\* A context that is through, granted or refused, holds no lock and no
\* registration that would refuse or block a later one.
NothingLeftLocked ==
  \A c \in Contexts : pc[c] \in {"done", "dead"} =>
    /\ \A d \in Dirs : dirLock[d] # c
    /\ \A a \in AnchorIds : anchorLock[a] # c
    /\ reserved[c] = {}

\* Every context is granted or refused in the end: nobody waits for ever, however
\* many lock several homes, as those who ask for them in another order are refused.
EventuallyThrough == <>(\A c \in Contexts : pc[c] \in {"done", "dead"})
=============================================================================
