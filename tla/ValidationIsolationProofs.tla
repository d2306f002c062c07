---------------------- MODULE ValidationIsolationProofs ----------------------
(***************************************************************************)
(* One run of the validation helper, for every number of files, edits and  *)
(* moves.  The removal of the private directory: what is not the run's own *)
(* is left alone, and a run that reports success has removed its directory *)
(* or an empty one put in its place after the last look at the name.  The  *)
(* two looks: what was tested is what the checkout held.                   *)
(***************************************************************************)
EXTENDS ValidationIsolation, WellFoundedInduction, TLAPS

Directories == {"own", "other"}
Names == {"root", "quarantine", "elsewhere", "gone"}

\* The two directories have a place and a content each; another program's is gone
\* only if it came late, and it is never half emptied.
Placed ==
  /\ place \in [Directories -> Names]
  /\ left \in [Directories -> {"files", "folders", "nothing"}]
  /\ left["other"] # "folders"
  /\ place["other"] = "gone" => "other" \in late

\* Past the identification the run holds its own directory.
Identified == stage \in {"empty", "remove", "recheck", "rmdir", "stat"} => held = "own"

\* Between the last look at a name and the call that removes what is there, what
\* the look has not found came late.
AfterTheLook ==
  /\ stage = "rmdir" /\ place["other"] = "quarantine" => "other" \in late
  /\ stage = "restore" /\ place["other"] = "root" => "other" \in late

\* The directory is gone, or the other one in its stead.
Removed == place["own"] = "gone" \/ (place["other"] = "gone" /\ "other" \in late)

\* Once the name has been removed, it was the name of the run's directory, or of
\* the empty one that came late.
Removal ==
  /\ stage = "stat" => Removed
  /\ code = "cleaned" => Removed
  /\ result \in {"none", "zero", "nonzero"}
  /\ outcome = "zero" => Removed

IInv == Placed /\ Identified /\ AfterTheLook /\ Removal

\* Before anything is removed nothing is gone and there is no verdict.
LEMMA InitHolds == Init => IInv
BY DEF Init, IInv, Placed, Identified, AfterTheLook, Removed, Removal, Directories, Names

\* The looks at the checkout, the copy and the command do not touch the places,
\* and no stage they lead to is one of the removal.
LEMMA WorkingSteps ==
  ASSUME IInv,
         \/ ReadStatus \/ ListTracked \/ ListUntracked \/ ReadFile \/ Captured
         \/ Copy \/ Snapshotted \/ Prepare \/ Probe
         \/ (\E status \in {"zero", "nonzero"} : Exited(status))
         \/ TimedOut \/ Refuse \/ Compare
  PROVE  IInv'
<1>1. place' = place /\ left' = left /\ late' = late /\ code' = code /\ outcome' = outcome
  BY DEF ReadStatus, ListTracked, ListUntracked, ReadFile, Captured, Copy, Snapshotted,
         Prepare, Probe, Exited, TimedOut, Refuse, Compare, temporary, verdict
<1>2. stage' \in {"status", "tracked", "untracked", "read", "copy", "prepare", "probe",
                  "command", "quarantine"}
  BY DEF ReadStatus, ListTracked, ListUntracked, ReadFile, Captured, Copy, Snapshotted,
         Prepare, Probe, Exited, TimedOut, Refuse, Compare, LookAgain, Working, Looking
<1>3. result' \in {"none", "zero", "nonzero"}
  BY DEF ReadStatus, ListTracked, ListUntracked, ReadFile, Captured, Copy, Snapshotted,
         Prepare, Probe, Exited, TimedOut, Refuse, Compare, verdict, IInv, Removal
<1> QED
  BY <1>1, <1>2, <1>3 DEF IInv, Placed, Identified, AfterTheLook, Removed, Removal

\* Each step of the removal.
LEMMA CleaningSteps ==
  ASSUME IInv,
         \/ Quarantine \/ Rename \/ Open \/ Identify \/ Restore \/ EmptyFolders
         \/ RemoveFolders \/ Recheck \/ Rmdir \/ Stat \/ CleanupFails \/ Report
  PROVE  IInv'
<1> USE DEF IInv, Placed, Identified, AfterTheLook, Removed, Removal, Directories, Names, At, Ends, Then, verdict
<1>1. CASE Quarantine
  BY <1>1 DEF Quarantine, temporary
<1>2. CASE Rename
  BY <1>2 DEF Rename
<1>3. CASE Open
  BY <1>3 DEF Open
<1>4. CASE Identify
  BY <1>4 DEF Identify, temporary
<1>5. CASE Restore
  BY <1>5 DEF Restore
<1>6. CASE EmptyFolders
  BY <1>6 DEF EmptyFolders
<1>7. CASE RemoveFolders
  BY <1>7 DEF RemoveFolders
<1>8. CASE Recheck
  BY <1>8 DEF Recheck, temporary
<1>9. CASE Rmdir
  BY <1>9 DEF Rmdir
<1>10. CASE Stat
  BY <1>10 DEF Stat, temporary
<1>11. CASE CleanupFails
  BY <1>11 DEF CleanupFails, temporary
<1>12. CASE Report
  BY <1>12 DEF Report, temporary
<1> QED
  BY <1>1, <1>2, <1>3, <1>4, <1>5, <1>6, <1>7, <1>8, <1>9, <1>10, <1>11, <1>12

\* The user, what the command left behind, and the other programs.
LEMMA OthersSteps ==
  ASSUME IInv,
         \/ Finished \/ UNCHANGED vars \/ Write
         \/ (\E p \in Paths, entry \in Entries : Edit(p, entry))
         \/ (\E o \in {"own", "other"}, name \in {"root", "quarantine", "elsewhere"} :
               Move(o, name))
  PROVE  IInv'
<1> USE DEF IInv, Placed, Identified, AfterTheLook, Removed, Removal, Directories, Names
<1>1. CASE Finished \/ UNCHANGED vars
  BY <1>1 DEF Finished, vars, verdict, temporary
<1>2. CASE Write
  BY <1>2 DEF Write, verdict
<1>3. CASE \E p \in Paths, entry \in Entries : Edit(p, entry)
  BY <1>3 DEF Edit, verdict, temporary
<1>4. CASE \E o \in {"own", "other"}, name \in {"root", "quarantine", "elsewhere"} :
             Move(o, name)
  BY <1>4 DEF Move, verdict
<1> QED
  BY <1>1, <1>2, <1>3, <1>4

LEMMA NextHolds == IInv /\ [Next]_vars => IInv'
BY WorkingSteps, CleaningSteps, OthersSteps DEF Next, Run

\* The inductive invariant: the run holds its own directory when it empties and
\* removes, and the directory is gone, or one that took its place late, when the
\* removal is said to be done.
THEOREM Inductive == Spec => []IInv
BY InitHolds, NextHolds, PTL DEF Spec

\* A step that is not one of the removal moves no directory out of existence and
\* empties nothing of another program.
LEMMA OnlyRemovalsRemove ==
  ASSUME IInv, [Next]_vars
  PROVE  /\ left'["other"] = left["other"]
         /\ place["other"] # "gone" /\ place'["other"] = "gone" => Rmdir \/ Restore
<1> USE DEF IInv, Placed, Directories, Names
<1>1. CASE \/ ReadStatus \/ ListTracked \/ ListUntracked \/ ReadFile \/ Captured
           \/ Copy \/ Snapshotted \/ Prepare \/ Probe
           \/ (\E status \in {"zero", "nonzero"} : Exited(status))
           \/ TimedOut \/ Refuse \/ Compare
  <2>1. place' = place /\ left' = left
    BY <1>1 DEF ReadStatus, ListTracked, ListUntracked, ReadFile, Captured, Copy,
         Snapshotted, Prepare, Probe, Exited, TimedOut, Refuse, Compare, temporary
  <2> QED
    BY <2>1
<1>2. CASE Quarantine \/ Identify \/ Recheck \/ Stat \/ CleanupFails \/ Report
           \/ Finished \/ UNCHANGED vars
  BY <1>2 DEF Quarantine, Identify, Recheck, Stat, CleanupFails, Report, Finished, vars,
       temporary
<1>3. CASE Rename \/ Open
  BY <1>3 DEF Rename, Open, At
<1>4. CASE EmptyFolders \/ RemoveFolders
  BY <1>4 DEF EmptyFolders, RemoveFolders, Identified
<1>5. CASE Rmdir \/ Restore
  BY <1>5 DEF Rmdir, Restore
<1>6. CASE Write
  BY <1>6 DEF Write
<1>7. CASE \E p \in Paths, entry \in Entries : Edit(p, entry)
  BY <1>7 DEF Edit, temporary
<1>8. CASE \E o \in {"own", "other"}, name \in {"root", "quarantine", "elsewhere"} :
             Move(o, name)
  BY <1>8 DEF Move
<1> QED
  BY <1>1, <1>2, <1>3, <1>4, <1>5, <1>6, <1>7, <1>8 DEF Next, Run

\* What a call removes by name was empty; what the last look at the name has not
\* found there came late.
LEMMA RemovedIsLate ==
  ASSUME IInv, Rmdir \/ Restore, place["other"] # "gone", place'["other"] = "gone"
  PROVE  left["other"] = "nothing" /\ "other" \in late
BY DEF IInv, Placed, AfterTheLook, Rmdir, Restore, At, Directories, Names

\* cleanup_validation_root: what another program has under the names the run uses
\* is not emptied, whenever it is moved there, and only an empty directory that
\* came after the last look at the name is removed.
THEOREM OthersAreKept == Spec => OthersKept
<1>1. ASSUME IInv, [Next]_vars
      PROVE  [/\ left'["other"] = left["other"]
              /\ place["other"] # "gone" /\ place'["other"] = "gone" =>
                   left["other"] = "nothing" /\ "other" \in late]_vars
  BY <1>1, OnlyRemovalsRemove, RemovedIsLate
<1> QED
  BY <1>1, Inductive, PTL DEF Spec, OthersKept

\* run_isolated: success is reported only when the private directory is gone, or
\* an empty one that took its name after the last look.
THEOREM NothingIsLeft == Spec => []SuccessLeavesNothing
<1>1. IInv => SuccessLeavesNothing
  BY DEF IInv, Removal, Removed, SuccessLeavesNothing
<1> QED
  BY <1>1, Inductive, PTL

-----------------------------------------------------------------------------
(* What was tested is what the checkout held.                               *)

\* What a look has found of a path: what is not listed is not there.
Meant(v) == IF v = "unlisted" THEN "absent" ELSE v

\* A look, whatever Git has said.
LookedAt(s) ==
  s \in [status : {s.status}, files : [Sources -> Contents \cup {"unlisted"}]]

\* The types; what is there now is one of the moments while the run works, the copy is
\* made in the first look, and before the second there is no result.
LooksTyped ==
  /\ tree \in [Paths -> Entries] /\ copied \in [Sources -> Contents]
  /\ LookedAt(seen) /\ LookedAt(before)
  /\ moments \subseteq [Sources -> Contents]
  /\ stage \in Working => Visible \in moments
  /\ stage \in {"copy", "prepare", "probe", "command"} => pass = "before"
  /\ pass \in {"before", "current"}
  /\ pass = "before" => result = "none"

\* Nothing is read before it is listed, and what is listed is read once.
InOrder ==
  /\ stage \in {"tracked", "untracked"} => seen.files = NoFiles
  /\ stage = "untracked" => listed \subseteq Sources
  /\ stage = "read" =>
       /\ todo \subseteq listed /\ listed \subseteq Sources
       /\ \A p \in Sources : p \in todo \/ p \notin listed => seen.files[p] = "unlisted"
       /\ \A p \in listed \ todo : seen.files[p] # "unlisted"

\* The copy is what the first look found.
CopyInOrder ==
  /\ stage \in Looking /\ pass = "before" => copied = Empty
  /\ stage = "copy" =>
       \A p \in Sources \ todo : copied[p] = Meant(before.files[p])
  /\ stage \in Working /\ (stage \in Looking => pass = "current") /\ stage # "copy" =>
       copied = [p \in Sources |-> Meant(before.files[p])]

\* Unless Git is told of a path between its two lists, they name all there is.
Listing ==
  stage = "untracked" /\ (~unseen \/ calm) => listed = {p \in Sources : tree[p].tracked}

\* Since the last edit, a look has found what is there.
CalmLook ==
  stage = "read" /\ calm =>
    \A p \in Sources \ todo : Meant(seen.files[p]) = tree[p].content

\* The path has held v, and does not any more.
Was(p, v) == \E m \in moments : m[p] = v
Gone(p, v) == tree[p].content # v /\ Was(p, v)

FirstLook ==
  stage = "read" /\ pass = "before" /\ ~unseen =>
    \A p \in Sources \ todo : Was(p, Meant(seen.files[p]))

\* The two looks have found the same of the path.
Agreed(p) ==
  pass = "current" /\ stage = "read" /\ p \notin todo /\ seen.files[p] = before.files[p]

\* The moment at which the first look ended: it held what the look had found of a
\* path, or the path has since held, and never will hold again, what was found.
Witnesses(m) ==
  \A p \in Sources :
    \/ m[p] = Meant(before.files[p])
    \/ Gone(p, Meant(before.files[p])) /\ ~Agreed(p)
Met ==
  stage \in Working /\ (stage \in Looking => pass = "current") /\ ~unseen =>
    \E m \in moments : Witnesses(m)

\* The invariant; its last part is what it is for.
LookInv ==
  /\ LooksTyped /\ InOrder /\ CopyInOrder /\ Listing
  /\ CalmLook /\ FirstLook /\ Met /\ TestedIsTheCheckout

\* Nothing has been seen or copied yet.
LEMMA LooksInit == Init => LookInv
<1> SUFFICES ASSUME Init PROVE LookInv
  OBVIOUS
<1>1. Found \subseteq Entries
  BY DEF Found, Entries, Contents
<1>2. tree \in [Paths -> Entries]
  BY <1>1 DEF Init
<1>3. Visible \in [Sources -> Contents]
  BY <1>2 DEF Visible, Sources, Entries
<1>4. Empty \in [Sources -> Contents] /\ LookedAt(Nothing)
  BY DEF Empty, Contents, LookedAt, Nothing, NoFiles
<1> QED
  BY <1>2, <1>3, <1>4 DEF Init, LookInv, LooksTyped, InOrder, CopyInOrder, Listing, CalmLook,
     FirstLook, Met, TestedIsTheCheckout, Accepted, Working, Looking

\* A look begins: what an earlier one has listed and seen is forgotten.
LEMMA LooksStatus == ASSUME LookInv, ReadStatus PROVE LookInv'
<1>1. LookedAt([Nothing EXCEPT !.status = Status])
  BY DEF LookedAt, Nothing, NoFiles
<1>2. seen'.files = NoFiles /\ LookedAt(seen')
  BY <1>1 DEF ReadStatus, Nothing, LookedAt
<1>3. /\ stage = "status" /\ stage' = "tracked"
      /\ tree' = tree /\ moments' = moments /\ unseen' = unseen /\ calm' = calm
      /\ pass' = pass /\ listed' = listed /\ todo' = todo /\ before' = before
      /\ copied' = copied /\ result' = result
  BY DEF ReadStatus, user, verdict
<1>4. LookedAt(seen)'
  BY <1>2 DEF LookedAt
<1>5. LooksTyped'
  BY <1>3, <1>4 DEF LookInv, LooksTyped, LookedAt, Visible, Working, Looking
<1>6. InOrder' /\ CopyInOrder'
  BY <1>2, <1>3 DEF LookInv, InOrder, CopyInOrder, Working, Looking, NoFiles, Empty
<1>7. Met'
  BY <1>3 DEF LookInv, Met, Witnesses, Gone, Was, Agreed, Working, Looking
<1> QED
  BY <1>3, <1>5, <1>6, <1>7 DEF LookInv, Listing, CalmLook, FirstLook,
     TestedIsTheCheckout, Accepted

\* The first of the two lists.
LEMMA LooksTracked == ASSUME LookInv, ListTracked PROVE LookInv'
<1>1. /\ stage = "tracked" /\ stage' = "untracked"
      /\ tree' = tree /\ moments' = moments /\ unseen' = unseen /\ calm' = calm
      /\ pass' = pass /\ listed' = {p \in Sources : tree[p].tracked}
      /\ todo' = todo /\ seen' = seen /\ before' = before
      /\ copied' = copied /\ result' = result
  BY DEF ListTracked, user, verdict
<1>2. LooksTyped'
  BY <1>1 DEF LookInv, LooksTyped, LookedAt, Visible, Working, Looking
<1>3. InOrder' /\ CopyInOrder' /\ Listing'
  BY <1>1 DEF LookInv, InOrder, CopyInOrder, Listing, Working, Looking, NoFiles, Empty
<1>4. Met'
  BY <1>1 DEF LookInv, Met, Witnesses, Gone, Was, Agreed, Working, Looking
<1> QED
  BY <1>1, <1>2, <1>3, <1>4 DEF LookInv, CalmLook, FirstLook, TestedIsTheCheckout, Accepted

\* The second: what neither names is not there, and so was something the path has held
\* if the first look saw more of it.
LEMMA LooksUntracked == ASSUME LookInv, ListUntracked PROVE LookInv'
<1> DEFINE untracked == {p \in Sources : ~tree[p].tracked /\ tree[p].content # "absent"}
<1>1. /\ stage = "untracked" /\ stage' = "read"
      /\ tree' = tree /\ moments' = moments /\ unseen' = unseen /\ calm' = calm
      /\ pass' = pass /\ listed' = listed \cup untracked /\ todo' = listed'
      /\ seen' = seen /\ before' = before /\ copied' = copied /\ result' = result
  BY DEF ListUntracked, user, verdict
<1>2. /\ listed' \subseteq Sources /\ seen.files = NoFiles
      /\ \A p \in Sources : seen.files[p] = "unlisted"
  BY <1>1 DEF LookInv, InOrder, NoFiles
<1>3. ASSUME ~unseen \/ calm, NEW p \in Sources, p \notin todo'
      PROVE  tree[p].content = "absent"
  BY <1>1, <1>3 DEF LookInv, Listing
<1>4. LooksTyped'
  BY <1>1 DEF LookInv, LooksTyped, LookedAt, Visible, Working, Looking
<1>5. InOrder' /\ CopyInOrder'
  BY <1>1, <1>2 DEF LookInv, InOrder, CopyInOrder, Working, Looking, Empty
<1>6. CalmLook'
  BY <1>1, <1>2, <1>3 DEF CalmLook, Meant
<1>7. FirstLook'
  <2> SUFFICES ASSUME ~unseen, NEW p \in Sources, p \notin todo'
               PROVE  \E m \in moments : m[p] = "absent"
    BY <1>1, <1>2 DEF FirstLook, Was, Meant
  <2>1. Visible \in moments /\ Visible[p] = "absent"
    BY <1>1, <1>3 DEF LookInv, LooksTyped, Visible, Working, Looking
  <2> QED
    BY <2>1
<1>8. Met'
  <2> SUFFICES ASSUME pass = "current", ~unseen
               PROVE  \E m \in moments : Witnesses(m)'
    BY <1>1 DEF Met, Working, Looking
  <2>1. PICK m \in moments : Witnesses(m)
    BY <1>1 DEF LookInv, Met, Working, Looking
  <2>2. ASSUME NEW p \in Sources
        PROVE  m[p] = Meant(before.files[p]) \/ (Gone(p, Meant(before.files[p])) /\ ~Agreed(p)')
    <3>1. CASE m[p] = Meant(before.files[p])
      BY <3>1
    <3>2. CASE Gone(p, Meant(before.files[p]))
      BY <1>1, <1>2, <1>3, <3>2 DEF Gone, Meant, Agreed
    <3> QED
      BY <2>1, <3>1, <3>2 DEF Witnesses
  <2>3. Witnesses(m)'
    BY <1>1, <2>2 DEF Witnesses, Gone, Was
  <2> QED
    BY <2>3
<1> QED
  BY <1>1, <1>4, <1>5, <1>6, <1>7, <1>8 DEF LookInv, Listing, TestedIsTheCheckout, Accepted

\* The files are read in the order of their paths.
LEMMA LeastOf == ASSUME NEW S, S \subseteq Sources, S # {} PROVE Least(S) \in S
<1> DEFINE R == OpToRel(<, Nat)
<1>1. S \subseteq Nat
  BY DEF Sources, Paths
<1>2. \E p \in S : \A q \in S : ~(<<q, p>> \in R)
  <2>1. IsWellFoundedOn(R, Nat)
    BY NatLessThanWellFounded
  <2> HIDE DEF R
  <2> QED
    BY <1>1, <2>1, WFMin
<1>3. \A p, q \in Nat : <<q, p>> \notin R => p <= q
  BY DEF OpToRel
<1>4. \E p \in S : \A q \in S : p <= q
  BY <1>1, <1>2, <1>3
<1> QED
  BY <1>4 DEF Least

\* A file is read: the moment is one that holds it, and if it is what the first look
\* had seen, it was never gone.
LEMMA LooksRead == ASSUME LookInv, ReadFile PROVE LookInv'
<1> DEFINE p == Least(todo)
<1>1. /\ stage = "read" /\ todo # {} /\ stage' = stage
      /\ tree' = tree /\ moments' = moments /\ unseen' = unseen /\ calm' = calm
      /\ pass' = pass /\ listed' = listed /\ todo' = todo \ {p}
      /\ seen' = [seen EXCEPT !.files[p] = tree[p].content]
      /\ before' = before /\ copied' = copied /\ result' = result
  BY DEF ReadFile, user, verdict
<1>2. todo \subseteq listed /\ listed \subseteq Sources
  BY <1>1 DEF LookInv, InOrder
<1>3. p \in todo /\ p \in Sources
  BY <1>1, <1>2, LeastOf
<1>4. tree[p].content \in Contents /\ tree[p].content # "unlisted"
  BY <1>3 DEF LookInv, LooksTyped, Entries, Sources, Contents
<1> HIDE DEF p
<1>5. /\ LookedAt(seen')
      /\ seen'.files[p] = tree[p].content
      /\ \A q \in Sources \ {p} : seen'.files[q] = seen.files[q]
  BY <1>1, <1>3, <1>4 DEF LookInv, LooksTyped, LookedAt
<1>6. LooksTyped'
  BY <1>1, <1>5 DEF LookInv, LooksTyped, LookedAt, Visible, Working, Looking
<1>7. InOrder'
  BY <1>1, <1>2, <1>3, <1>4, <1>5 DEF LookInv, InOrder
<1>8. CopyInOrder' /\ CalmLook'
  BY <1>1, <1>3, <1>4, <1>5
  DEF LookInv, CopyInOrder, CalmLook, Meant, Working, Looking, Empty
<1>9. FirstLook'
  <2> SUFFICES ASSUME pass = "before", ~unseen, NEW q \in Sources, q \notin todo'
               PROVE  Was(q, Meant(seen'.files[q]))
    BY <1>1 DEF FirstLook, Was
  <2>1. CASE q = p
    <3>1. Visible \in moments /\ Visible[p] = tree[p].content
      BY <1>1, <1>3 DEF LookInv, LooksTyped, Visible, Working, Looking
    <3> QED
      BY <1>4, <1>5, <2>1, <3>1 DEF Was, Meant
  <2>2. CASE q # p
    BY <1>1, <1>5, <2>2 DEF LookInv, FirstLook
  <2> QED
    BY <2>1, <2>2
<1>10. Met'
  <2> SUFFICES ASSUME pass = "current", ~unseen
               PROVE  \E m \in moments : Witnesses(m)'
    BY <1>1 DEF Met, Working, Looking
  <2>1. PICK m \in moments : Witnesses(m)
    BY <1>1 DEF LookInv, Met, Working, Looking
  <2>2. ASSUME NEW q \in Sources
        PROVE  \/ m[q] = Meant(before.files[q])
               \/ Gone(q, Meant(before.files[q])) /\ ~Agreed(q)'
    <3>1. CASE q # p
      BY <1>1, <1>5, <2>1, <3>1 DEF Witnesses, Agreed
    <3>2. CASE q = p
      BY <1>1, <1>4, <1>5, <2>1, <3>2 DEF Witnesses, Agreed, Gone, Meant
    <3> QED
      BY <3>1, <3>2
  <2>3. Witnesses(m)'
    BY <1>1, <2>2 DEF Witnesses, Gone, Was
  <2> QED
    BY <2>3
<1> QED
  BY <1>1, <1>6, <1>7, <1>8, <1>9, <1>10 DEF LookInv, Listing, TestedIsTheCheckout, Accepted

\* The end of the first look is the moment the second is measured against.
LEMMA LooksCaptured == ASSUME LookInv, Captured PROVE LookInv'
<1>1. /\ stage = "read" /\ todo = {} /\ pass = "before" /\ stage' = "copy"
      /\ tree' = tree /\ moments' = moments /\ unseen' = unseen /\ calm' = calm
      /\ pass' = pass /\ seen' = seen /\ before' = seen
      /\ todo' = {p \in Sources : seen.files[p] \notin {"absent", "unlisted"}}
      /\ copied' = copied /\ result' = result
  BY DEF Captured, user, verdict
<1>2. LooksTyped'
  BY <1>1 DEF LookInv, LooksTyped, LookedAt, Visible, Working, Looking
<1>3. CopyInOrder'
  BY <1>1 DEF LookInv, CopyInOrder, Looking, Working, Empty, Meant
<1>4. Met'
  <2> SUFFICES ASSUME ~unseen PROVE \E m \in moments : Witnesses(m)'
    BY <1>1 DEF Met
  <2>1. Visible \in moments
    BY <1>1 DEF LookInv, LooksTyped, Working, Looking
  <2>2. ASSUME NEW p \in Sources
        PROVE  Visible[p] = tree[p].content /\ Was(p, Meant(seen.files[p]))
    BY <1>1, <2>1 DEF LookInv, FirstLook, Visible
  <2>3. Witnesses(Visible)'
    BY <1>1, <2>2 DEF Witnesses, Gone, Was, Agreed, Visible
  <2>4. Visible' = Visible
    BY <1>1 DEF Visible
  <2> QED
    BY <2>1, <2>3, <2>4
<1> QED
  BY <1>1, <1>2, <1>3, <1>4 DEF LookInv, InOrder, Listing, CalmLook, FirstLook,
     TestedIsTheCheckout, Accepted

\* A file is copied as the look has seen it.
LEMMA LooksCopy == ASSUME LookInv, Copy PROVE LookInv'
<1> DEFINE p == Least(todo)
<1>1. /\ stage = "copy" /\ stage' = stage /\ tree[p].content = before.files[p]
      /\ tree' = tree /\ moments' = moments /\ unseen' = unseen /\ calm' = calm
      /\ pass' = pass /\ seen' = seen /\ before' = before
      /\ todo' = todo \ {p} /\ copied' = [copied EXCEPT ![p] = tree[p].content]
      /\ result' = result
  BY DEF Copy, user, verdict
<1> HIDE DEF p
<1>2. ASSUME p \in Sources PROVE tree[p].content \in Contents
  BY <1>2 DEF LookInv, LooksTyped, Entries, Sources
<1>3. copied' \in [Sources -> Contents]
  BY <1>1, <1>2 DEF LookInv, LooksTyped
<1>4. LooksTyped'
  BY <1>1, <1>3 DEF LookInv, LooksTyped, LookedAt, Visible, Working, Looking
<1>5. CopyInOrder'
  BY <1>1, <1>2 DEF LookInv, LooksTyped, CopyInOrder, Looking, Working, Meant, Contents
<1>6. Met'
  BY <1>1 DEF LookInv, Met, Witnesses, Gone, Was, Agreed, Working, Looking
<1> QED
  BY <1>1, <1>4, <1>5, <1>6 DEF LookInv, InOrder, Listing, CalmLook, FirstLook,
     TestedIsTheCheckout, Accepted

\* From the copy to the second look: nothing is looked at.
LEMMA LooksWait ==
  ASSUME LookInv,
         Snapshotted \/ Prepare \/ Probe \/ (\E status \in {"zero", "nonzero"} : Exited(status))
         \/ TimedOut \/ (Refuse /\ stage \in {"prepare", "probe", "command"})
  PROVE  LookInv'
<1>1. /\ stage \in {"copy", "prepare", "probe", "command"}
      /\ stage = "copy" => todo = {}
      /\ tree' = tree /\ moments' = moments /\ unseen' = unseen
      /\ listed' = listed /\ todo' = todo /\ seen' = seen /\ before' = before
      /\ copied' = copied
  BY DEF Snapshotted, Prepare, Probe, Exited, TimedOut, Refuse, LookAgain, look, user
<1>2. pass = "before"
  BY <1>1 DEF LookInv, LooksTyped
<1>3. \/ stage' \in {"prepare", "probe", "command"} /\ pass' = "before" /\ result' = result
      \/ stage' = "status" /\ pass' = "current"
  BY <1>1, <1>2 DEF Snapshotted, Prepare, Probe, Exited, TimedOut, Refuse, LookAgain, verdict
<1>4. LooksTyped'
  BY <1>1, <1>2, <1>3 DEF LookInv, LooksTyped, LookedAt, Visible, Working, Looking
<1>5. CopyInOrder'
  <2>1. copied \in [Sources -> Contents]
    BY DEF LookInv, LooksTyped
  <2>2. copied = [p \in Sources |-> Meant(before.files[p])]
    BY <1>1, <2>1 DEF LookInv, CopyInOrder, Looking, Working
  <2> QED
    BY <1>1, <1>2, <1>3, <2>2 DEF CopyInOrder, Looking, Working
<1>6. Met'
  BY <1>1, <1>2, <1>3 DEF LookInv, Met, Witnesses, Gone, Was, Agreed, Working, Looking
<1> QED
  BY <1>1, <1>3, <1>4, <1>5, <1>6 DEF LookInv, InOrder, Listing, CalmLook, FirstLook,
     TestedIsTheCheckout, Accepted

\* The run ends early: it reports a changed checkout or a failure.
LEMMA LooksRefuse ==
  ASSUME LookInv, Refuse, stage \notin {"prepare", "probe", "command"}
  PROVE  LookInv'
<1>1. /\ stage' = "quarantine" /\ pass' = pass /\ result' = result
      /\ tree' = tree /\ moments' = moments /\ copied' = copied
      /\ seen' = seen /\ before' = before
      /\ changed' \/ pass = "before"
  BY DEF Refuse, user, look, LookInv, LooksTyped
<1>2. LooksTyped'
  BY <1>1 DEF LookInv, LooksTyped, LookedAt, Visible, Working, Looking
<1>3. ~Accepted'
  BY <1>1, <1>2 DEF Accepted, LooksTyped
<1> QED
  BY <1>1, <1>2, <1>3 DEF LookInv, InOrder, CopyInOrder, Listing, CalmLook, FirstLook, Met,
     TestedIsTheCheckout, Working, Looking

\* The two looks are the same: so is the copy, at the end of the first look, and now
\* if the user has done nothing since the command.
LEMMA LooksCompare == ASSUME LookInv, Compare PROVE LookInv'
<1>1. /\ stage = "read" /\ todo = {} /\ pass = "current" /\ stage' = "quarantine"
      /\ tree' = tree /\ moments' = moments /\ unseen' = unseen /\ calm' = calm
      /\ pass' = pass /\ seen' = seen /\ before' = before /\ copied' = copied
      /\ result' = result /\ changed' = ~Same
  BY DEF Compare, user, look
<1>2. LooksTyped'
  BY <1>1 DEF LookInv, LooksTyped, LookedAt, Visible, Working, Looking
<1>3. TestedIsTheCheckout'
  <2> SUFFICES ASSUME Accepted' PROVE (unseen \/ copied \in moments) /\ (calm => copied = Visible)
    BY <1>1 DEF TestedIsTheCheckout, Visible
  <2>1. seen = before
    BY <1>1 DEF Accepted, Same
  <2>2. copied = [p \in Sources |-> Meant(before.files[p])]
    BY <1>1 DEF LookInv, CopyInOrder, Working, Looking
  <2>3. ASSUME ~unseen PROVE copied \in moments
    <3>1. PICK m \in moments : Witnesses(m)
      BY <1>1, <2>3 DEF LookInv, Met, Working, Looking
    <3>2. \A p \in Sources : m[p] = Meant(before.files[p])
      BY <1>1, <2>1, <3>1 DEF Witnesses, Agreed
    <3>3. m \in [Sources -> Contents]
      BY DEF LookInv, LooksTyped
    <3>4. m = copied
      BY <2>2, <3>2, <3>3
    <3> QED
      BY <3>4
  <2>4. ASSUME calm PROVE copied = Visible
    <3>1. \A p \in Sources : Meant(before.files[p]) = tree[p].content
      BY <1>1, <2>1, <2>4 DEF LookInv, CalmLook
    <3> QED
      BY <2>2, <3>1 DEF Visible
  <2> QED
    BY <2>3, <2>4
<1> QED
  BY <1>1, <1>2, <1>3 DEF LookInv, InOrder, CopyInOrder, Listing, CalmLook, FirstLook, Met,
     Working, Looking

\* The removal forgets what the looks have found.
LEMMA LooksCleaning ==
  ASSUME LookInv,
         \/ Quarantine \/ Rename \/ Open \/ Identify \/ Restore \/ EmptyFolders
         \/ RemoveFolders \/ Recheck \/ Rmdir \/ Stat \/ CleanupFails \/ Report
  PROVE  LookInv'
<1>1. /\ stage' \notin Working /\ stage' # "quarantine"
      /\ pass' = pass /\ result' = result /\ tree' = tree
  BY DEF Quarantine, Rename, Open, Identify, Restore, EmptyFolders, RemoveFolders, Recheck,
     Rmdir, Stat, CleanupFails, Report, Ends, Then, verdict, user, Forget, Working, Looking
<1>2. \/ moments' = moments /\ seen' = seen /\ before' = before /\ copied' = copied
      \/ moments' = {} /\ seen' = Nothing /\ before' = Nothing /\ copied' = Empty
  BY DEF Quarantine, Rename, Open, Identify, Restore, EmptyFolders, RemoveFolders, Recheck,
     Rmdir, Stat, CleanupFails, Report, user, look, Forget
<1>3. Empty \in [Sources -> Contents] /\ LookedAt(Nothing)
  BY DEF Empty, Contents, LookedAt, Nothing, NoFiles
<1>4. LooksTyped'
  BY <1>1, <1>2, <1>3 DEF LookInv, LooksTyped, LookedAt, Working
<1> QED
  BY <1>1, <1>4 DEF LookInv, InOrder, CopyInOrder, Listing, CalmLook, FirstLook, Met,
     TestedIsTheCheckout, Accepted, Working, Looking

\* An edit: what a path has held it still has held, and a content that is gone does not
\* come back unseen.
LEMMA LooksEdit ==
  ASSUME LookInv, NEW p \in Paths, NEW entry \in Entries, Edit(p, entry)
  PROVE  LookInv'
<1>1. /\ stage \in Working /\ stage' = stage /\ pass' = pass /\ result' = result
      /\ listed' = listed /\ todo' = todo /\ seen' = seen /\ before' = before
      /\ copied' = copied
      /\ tree' = [tree EXCEPT ![p] = entry] /\ calm' = FALSE
      /\ moments' = moments \cup {[q \in Sources |-> tree'[q].content]}
      /\ unseen' = (unseen \/ Hides(p, entry))
  BY DEF Edit, look, verdict
<1>2. tree \in [Paths -> Entries] /\ Sources \subseteq Paths
  BY DEF LookInv, LooksTyped, Sources
<1>3. tree' \in [Paths -> Entries]
  BY <1>1, <1>2
<1>4. [q \in Sources |-> tree'[q].content] \in [Sources -> Contents]
  BY <1>2, <1>3 DEF Entries
<1>5. LooksTyped'
  BY <1>1, <1>3, <1>4 DEF LookInv, LooksTyped, LookedAt, Visible
<1>6. InOrder' /\ CopyInOrder' /\ CalmLook'
  BY <1>1 DEF LookInv, InOrder, CopyInOrder, CalmLook
<1>7. Listing'
  <2> SUFFICES ASSUME stage = "untracked", ~unseen'
               PROVE  listed = {q \in Sources : tree'[q].tracked}
    BY <1>1 DEF Listing
  <2>1. ~unseen /\ entry.tracked = tree[p].tracked
    BY <1>1 DEF Hides
  <2>2. \A q \in Sources : tree'[q].tracked = tree[q].tracked
    BY <1>1, <1>2, <2>1
  <2> QED
    BY <2>1, <2>2 DEF LookInv, Listing
<1>8. \A q, v : Was(q, v) => Was(q, v)'
  BY <1>1 DEF Was
<1>9. FirstLook'
  BY <1>1, <1>8 DEF LookInv, FirstLook
<1>10. ASSUME ~unseen', NEW q \in Sources, NEW v, Gone(q, v) PROVE Gone(q, v)'
  <2>1. CASE q # p
    BY <1>1, <1>2, <1>8, <1>10, <2>1 DEF Gone
  <2>2. CASE q = p
    <3>1. tree'[q] = entry
      BY <1>1, <1>2, <2>2
    <3>2. entry.content # v
      BY <1>1, <1>10, <2>2 DEF Hides, Gone, Was
    <3> QED
      BY <1>8, <1>10, <3>1, <3>2 DEF Gone
  <2> QED
    BY <2>1, <2>2
<1>11. Met'
  <2> SUFFICES ASSUME stage \in Looking => pass = "current", ~unseen'
               PROVE  \E m \in moments' : Witnesses(m)'
    BY <1>1 DEF Met
  <2>1. PICK m \in moments : Witnesses(m)
    BY <1>1 DEF LookInv, Met
  <2>2. ASSUME NEW q \in Sources
        PROVE  \/ m[q] = Meant(before.files[q])
               \/ Gone(q, Meant(before.files[q]))' /\ ~Agreed(q)'
    <3>1. Agreed(q)' <=> Agreed(q)
      BY <1>1 DEF Agreed
    <3> QED
      BY <1>1, <1>10, <2>1, <3>1 DEF Witnesses
  <2>3. Witnesses(m)'
    BY <1>1, <2>2 DEF Witnesses
  <2> QED
    BY <1>1, <2>3
<1>12. TestedIsTheCheckout'
  BY <1>1 DEF TestedIsTheCheckout, Accepted, Working, Looking
<1> QED
  BY <1>5, <1>6, <1>7, <1>9, <1>11, <1>12 DEF LookInv

\* The processes left behind and the other programs do not touch the checkout.
LEMMA LooksOthers ==
  ASSUME LookInv,
         \/ Finished \/ UNCHANGED vars \/ Write
         \/ (\E o \in {"own", "other"}, name \in {"root", "quarantine", "elsewhere"} :
               Move(o, name))
  PROVE  LookInv'
<1>1. UNCHANGED <<user, stage, pass, look, verdict>>
  BY DEF Finished, vars, Write, Move
<1> QED
  BY <1>1 DEF user, look, verdict, LookInv, LooksTyped, LookedAt, Visible, InOrder,
     CopyInOrder, Listing, CalmLook, FirstLook, Was, Met, Witnesses, Gone, Agreed,
     TestedIsTheCheckout, Accepted

\* One lemma for each group of the actions.
LEMMA LooksNext == LookInv /\ [Next]_vars => LookInv'
<1> SUFFICES ASSUME LookInv, [Next]_vars PROVE LookInv'
  OBVIOUS
<1>1. CASE \/ ReadStatus \/ ListTracked \/ ListUntracked \/ ReadFile \/ Captured \/ Copy
           \/ Compare
  BY <1>1, LooksStatus, LooksTracked, LooksUntracked, LooksRead, LooksCaptured, LooksCopy,
     LooksCompare
<1>2. CASE \/ Snapshotted \/ Prepare \/ Probe
           \/ (\E status \in {"zero", "nonzero"} : Exited(status)) \/ TimedOut \/ Refuse
  BY <1>2, LooksWait, LooksRefuse
<1>3. CASE \/ Quarantine \/ Rename \/ Open \/ Identify \/ Restore \/ EmptyFolders
           \/ RemoveFolders \/ Recheck \/ Rmdir \/ Stat \/ CleanupFails \/ Report
  BY <1>3, LooksCleaning
<1>4. CASE \E p \in Paths, entry \in Entries : Edit(p, entry)
  BY <1>4, LooksEdit
<1>5. CASE \/ Finished \/ UNCHANGED vars \/ Write
           \/ (\E o \in {"own", "other"}, name \in {"root", "quarantine", "elsewhere"} :
                 Move(o, name))
  BY <1>5, LooksOthers
<1> QED
  BY <1>1, <1>2, <1>3, <1>4, <1>5 DEF Next, Run

\* The inductive invariant of the two looks: what has been seen of a path has been there,
\* and at the moment the first look ended the path held it, or it had gone for good, in
\* which case the second look cannot see the same.
THEOREM LooksAgree == Spec => []LookInv
BY LooksInit, LooksNext, PTL DEF Spec

\* create_snapshot and assert_checkout_unchanged: for every number of files and edits, the
\* result of a command is only accepted when what it ran on is what the checkout held at
\* one moment, but for the two edits no comparison of two looks can show; and what it
\* holds now, when nothing was edited since the command.
THEOREM TestsAreOfTheCheckout == Spec => []TestedIsTheCheckout
<1>1. LookInv => TestedIsTheCheckout
  BY DEF LookInv
<1> QED
  BY <1>1, LooksAgree, PTL
=============================================================================
