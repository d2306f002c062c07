------------------------ MODULE ValidationIsolation ------------------------
(***************************************************************************)
(* One run of the validation helper: it copies the checkout, a file at a   *)
(* time, runs a command on the copy, looks at the checkout again and       *)
(* removes its private directory.  The user edits the checkout meanwhile,  *)
(* with an editor or with Git; processes the command left behind may still *)
(* write in the copy; other programs may move what they find in the        *)
(* directory for temporary files.                                          *)
(*                                                                         *)
(* A file is its content; a read of a file that changes under it is        *)
(* refused by the code (_snapshot_file compares identity, size, time and   *)
(* mode around it), so a read is one step here.  Directories of the        *)
(* checkout, modes and the sandbox's own configuration are left out: each  *)
(* of their checks can only refuse, which Refuse stands for.               *)
(***************************************************************************)
EXTENDS Naturals

CONSTANTS
  Files,      \* how many paths there are; they are read in order
  Protected,  \* those the inventory never lists: secrets and caches
  MaxEdits,   \* how often the user acts
  MaxMoves    \* how often another program moves a temporary directory

ASSUME ValidationAssumption ==
  /\ Files \in Nat /\ Protected \subseteq 1 .. Files
  /\ MaxEdits \in Nat /\ MaxMoves \in Nat

VARIABLES
  tree,       \* the checkout: the content of each path, and whether Git tracks it
  stage, pass, \* where the run is, and which of its two looks at the checkout
  listed, todo, \* the inventory of this look, and what is left of it
  seen, before, \* this look and, once there is one, the first
  copied,     \* the snapshot
  primary, result, changed, code, outcome,
  place, left, held, \* of the private directory and of somebody else's
  late,       \* what came under a name after the run's last look at that name
  straggler,  \* a process of the command is still there
  moments,    \* what the checkout has held
  unseen,     \* the user did what no comparison of two looks can show
  calm, edits, moves

user == <<tree, moments, unseen, calm, edits>>
look == <<listed, todo, seen, before, copied>>
verdict == <<primary, result, changed, code, outcome>>
temporary == <<place, left, held, late, straggler, moves>>
vars == <<user, stage, pass, look, verdict, temporary>>

Paths == 1 .. Files
Sources == Paths \ Protected
Contents == {"absent", "head", "edited"}
Entries == [content : Contents, tracked : BOOLEAN]

\* Nothing there, a tracked file as committed or changed, a file Git does not track.
Found == {[content |-> "absent", tracked |-> FALSE], [content |-> "head", tracked |-> TRUE],
          [content |-> "edited", tracked |-> TRUE], [content |-> "head", tracked |-> FALSE]}

\* What there is of the checkout for a snapshot to hold.
Visible == [p \in Sources |-> tree[p].content]
Least(S) == CHOOSE p \in S : \A q \in S : p <= q

\* git status --untracked-files=all: that a file differs, not in what.
Status ==
  [p \in Paths |->
     <<tree[p].tracked,
       CASE tree[p].content = "absent" -> "absent"
         [] tree[p].content = "head" /\ tree[p].tracked -> "unchanged"
         [] OTHER -> "present">>]

NoFiles == [p \in Sources |-> "unlisted"]
Nothing == [status |-> << >>, files |-> NoFiles]
Empty == [p \in Sources |-> "absent"]

Looking == {"status", "tracked", "untracked", "read"}
\* create_snapshot, the child, assert_checkout_unchanged; then the removal.
Working == Looking \cup {"copy", "prepare", "probe", "command"}
Cleaning == {"rename", "open", "identify", "restore", "empty", "remove",
             "recheck", "rmdir", "stat"}

Init ==
  /\ tree \in [Paths -> Found]
  /\ stage = "status" /\ pass = "before"
  /\ listed = {} /\ todo = {} /\ seen = Nothing /\ before = Nothing /\ copied = Empty
  /\ primary = FALSE /\ result = "none" /\ changed = FALSE
  /\ code = "none" /\ outcome = "none"
  /\ place = [own |-> "root", other |-> "elsewhere"]
  /\ left \in [own : {"files"}, other : {"files", "nothing"}] /\ held = "none" /\ late = {}
  /\ straggler = FALSE
  /\ moments = {Visible} /\ unseen = FALSE /\ calm = TRUE /\ edits = 0 /\ moves = 0

-----------------------------------------------------------------------------
(* A look at the checkout: _capture_checkout_state, list_source_paths.      *)

ReadStatus ==
  /\ stage = "status"
  /\ seen' = [Nothing EXCEPT !.status = Status]
  /\ stage' = "tracked"
  /\ UNCHANGED <<user, pass, listed, todo, before, copied, verdict, temporary>>

ListTracked ==
  /\ stage = "tracked"
  /\ listed' = {p \in Sources : tree[p].tracked}
  /\ stage' = "untracked"
  /\ UNCHANGED <<user, pass, todo, seen, before, copied, verdict, temporary>>

\* A path that both inventories name refuses the look.
ListUntracked ==
  LET untracked == {p \in Sources : ~tree[p].tracked /\ tree[p].content # "absent"}
  IN /\ stage = "untracked"
     /\ listed \cap untracked = {}
     /\ listed' = listed \cup untracked /\ todo' = listed'
     /\ stage' = "read"
     /\ UNCHANGED <<user, pass, seen, before, copied, verdict, temporary>>

\* _snapshot_file; a tracked file that is not there is recorded as such.
ReadFile ==
  /\ stage = "read" /\ todo # {}
  /\ LET p == Least(todo)
     IN /\ seen' = [seen EXCEPT !.files[p] = tree[p].content]
        /\ todo' = todo \ {p}
  /\ UNCHANGED <<user, stage, pass, listed, before, copied, verdict, temporary>>

\* create_snapshot has its first look.
Captured ==
  /\ stage = "read" /\ todo = {} /\ pass = "before"
  /\ before' = seen
  /\ todo' = {p \in Sources : seen.files[p] \notin {"absent", "unlisted"}}
  /\ stage' = "copy"
  /\ UNCHANGED <<user, pass, listed, seen, copied, verdict, temporary>>

\* _copy_one, which refuses what is no longer what the look had seen.
Copy ==
  /\ stage = "copy" /\ todo # {}
  /\ LET p == Least(todo)
     IN /\ tree[p].content = before.files[p]
        /\ copied' = [copied EXCEPT ![p] = tree[p].content]
        /\ todo' = todo \ {p}
  /\ UNCHANGED <<user, stage, pass, listed, seen, before, verdict, temporary>>

Snapshotted ==
  /\ stage = "copy" /\ todo = {}
  /\ stage' = "prepare"
  /\ UNCHANGED <<user, pass, look, verdict, temporary>>

-----------------------------------------------------------------------------
(* The command: run_isolated, probe_backend, run_verified_process.          *)

\* The environment and the backend are there.
Prepare ==
  /\ stage = "prepare"
  /\ stage' = "probe"
  /\ UNCHANGED <<user, pass, look, verdict, temporary>>

\* The probe ran in the sandbox and left its marker.
Probe ==
  /\ stage = "probe"
  /\ stage' = "command"
  /\ UNCHANGED <<user, pass, look, verdict, temporary>>

\* The second look, once the command is over: assert_checkout_unchanged.
LookAgain ==
  /\ stage' = "status" /\ pass' = "current" /\ calm' = TRUE
  /\ UNCHANGED <<tree, moments, unseen, edits, look>>

\* The command ends by itself, or a process of it is left behind.
Exited(status) ==
  /\ stage = "command"
  /\ result' = status
  /\ straggler' \in BOOLEAN
  /\ LookAgain
  /\ UNCHANGED <<primary, changed, code, outcome, place, left, held, late, moves>>

\* Only the process that was started is killed.
TimedOut ==
  /\ stage = "command"
  /\ primary' = TRUE
  /\ straggler' \in BOOLEAN
  /\ LookAgain
  /\ UNCHANGED <<result, changed, code, outcome, place, left, held, late, moves>>

\* Something was not as it must be, the system refused, or the user interrupted.
Refuse ==
  /\ stage \in Working
  /\ IF pass = "current"
     THEN /\ stage' = "quarantine" /\ changed' = TRUE
          /\ UNCHANGED <<user, pass, look, primary>>
     ELSE /\ primary' = TRUE
          /\ IF stage \in {"prepare", "probe", "command"}
             THEN LookAgain
             ELSE stage' = "quarantine" /\ UNCHANGED <<user, pass, look>>
          /\ UNCHANGED changed
  /\ UNCHANGED <<result, code, outcome, temporary>>

\* Mutant: the files are not compared, Git's status is.
SameStatus == seen.status = before.status
Same == seen = before

Compare ==
  /\ stage = "read" /\ todo = {} /\ pass = "current"
  /\ changed' = ~Same
  /\ stage' = "quarantine"
  /\ UNCHANGED <<user, pass, look, primary, result, code, outcome, temporary>>

-----------------------------------------------------------------------------
(* The private directory is removed: cleanup_validation_root.               *)

At(name) == {o \in DOMAIN place : place[o] = name}

\* What the looks have found is not used any more and is forgotten here.
Forget ==
  /\ listed' = {} /\ todo' = {} /\ seen' = Nothing /\ before' = Nothing /\ copied' = Empty
  /\ moments' = {} /\ unseen' = FALSE /\ UNCHANGED <<tree, calm, edits>>

Ends(how) == stage' = "report" /\ code' = how /\ UNCHANGED <<primary, result, changed, outcome>>
Then(next) == stage' = next /\ UNCHANGED verdict

\* A free name next to the directory is found.
Quarantine ==
  /\ stage = "quarantine" /\ Forget
  /\ Then("rename") \/ Ends("cleanup_failed")
  /\ UNCHANGED <<pass, temporary>>

Rename ==
  /\ stage = "rename"
  /\ IF At("root") = {}
     THEN Ends("cleanup_root_changed") /\ UNCHANGED place
     ELSE \E o \in At("root") : place' = [place EXCEPT ![o] = "quarantine"] /\ Then("open")
  /\ UNCHANGED <<user, pass, look, left, held, late, straggler, moves>>

Open ==
  /\ stage = "open"
  /\ IF At("quarantine") = {}
     THEN Ends("cleanup_root_changed") /\ UNCHANGED held
     ELSE \E o \in At("quarantine") : held' = o /\ Then("identify")
  /\ UNCHANGED <<user, pass, look, place, left, late, straggler, moves>>

\* Mutant: what was opened is taken for the directory of the run.
IdentifyNothing ==
  /\ stage = "identify" /\ Then("empty")
  /\ UNCHANGED <<user, pass, look, temporary>>

Identify ==
  /\ stage = "identify"
  /\ CASE held = "own" -> Then("empty")
       [] held # "own" /\ At("root") = {} -> Then("restore")
       [] held # "own" /\ At("root") # {} -> Ends("cleanup_root_changed")
  /\ UNCHANGED <<user, pass, look, temporary>>

\* It is somebody else's: it goes back, unless there is something in the way; the
\* rename removes an empty directory that has taken the name.
Restore ==
  /\ stage = "restore" /\ Ends("cleanup_root_changed")
  /\ IF At("quarantine") # {} /\ \A o \in At("root") : left[o] = "nothing"
     THEN place' = [o \in DOMAIN place |->
                      CASE place[o] = "quarantine" -> "root"
                        [] place[o] = "root" -> "gone"
                        [] OTHER -> place[o]]
     ELSE UNCHANGED place
  /\ UNCHANGED <<user, pass, look, left, held, late, straggler, moves>>

\* _cleanup_directory_fd, through the opened directory: the files ...
EmptyFolders ==
  /\ stage = "empty"
  /\ left' = [left EXCEPT ![held] = "folders"]
  /\ Then("remove")
  /\ UNCHANGED <<user, pass, look, place, held, late, straggler, moves>>

\* ... and the folders, if nothing was written there in between.
RemoveFolders ==
  /\ stage = "remove"
  /\ IF left[held] = "folders"
     THEN left' = [left EXCEPT ![held] = "nothing"] /\ Then("recheck")
     ELSE Ends("cleanup_failed") /\ UNCHANGED left
  /\ UNCHANGED <<user, pass, look, place, held, late, straggler, moves>>

Recheck ==
  /\ stage = "recheck"
  /\ IF At("quarantine") = {held} THEN Then("rmdir") ELSE Ends("cleanup_failed")
  /\ UNCHANGED <<user, pass, look, temporary>>

\* Mutant: a name that is not there any more counts as removed.
RmdirMissing ==
  /\ stage = "rmdir"
  /\ IF \E o \in At("quarantine") : left[o] # "nothing"
     THEN Ends("cleanup_failed")
     ELSE Then("stat")
  /\ place' = [o \in DOMAIN place |->
                 IF place[o] = "quarantine" /\ left[o] = "nothing" THEN "gone" ELSE place[o]]
  /\ UNCHANGED <<user, pass, look, left, held, late, straggler, moves>>

Rmdir ==
  /\ stage = "rmdir"
  /\ IF \E o \in At("quarantine") : left[o] = "nothing"
     THEN Then("stat")
     ELSE Ends("cleanup_failed")
  /\ place' = [o \in DOMAIN place |->
                 IF place[o] = "quarantine" /\ left[o] = "nothing" THEN "gone" ELSE place[o]]
  /\ UNCHANGED <<user, pass, look, left, held, late, straggler, moves>>

Stat ==
  /\ stage = "stat"
  /\ Ends(IF At("quarantine") = {} THEN "cleaned" ELSE "cleanup_failed")
  /\ UNCHANGED <<user, pass, look, temporary>>

\* The system refuses, or the user interrupts.
CleanupFails ==
  /\ stage \in {"empty", "remove", "recheck", "rmdir", "stat"}
  /\ Ends("cleanup_failed")
  /\ UNCHANGED <<user, pass, look, temporary>>

\* A changed checkout goes before a failure, and that before a failed cleanup.
Report ==
  /\ stage = "report" /\ stage' = "done"
  /\ outcome' = CASE changed -> "changed"
                  [] ~changed /\ primary -> "blocked"
                  [] ~changed /\ ~primary /\ result = "zero" /\ code # "cleaned" -> "uncleaned"
                  [] OTHER -> result
  /\ UNCHANGED <<user, pass, look, primary, result, changed, code, temporary>>

Finished == stage = "done" /\ UNCHANGED vars

-----------------------------------------------------------------------------
(* Others.                                                                  *)

\* A path is again what it was at an earlier moment, or Git is told of it between
\* the two inventories of a look.
Hides(p, entry) ==
  \/ /\ p \in Sources /\ entry.content # tree[p].content
     /\ \E moment \in moments : moment[p] = entry.content
  \/ entry.tracked # tree[p].tracked /\ stage = "untracked"

\* The user writes or deletes a file, or tells Git to track it or not.
Edit(p, entry) ==
  /\ stage \in Working /\ edits < MaxEdits
  /\ entry # tree[p]
  /\ entry.tracked = tree[p].tracked \/ entry.content = tree[p].content
  /\ tree' = [tree EXCEPT ![p] = entry]
  /\ moments' = moments \cup {[q \in Sources |-> tree'[q].content]}
  /\ unseen' = (unseen \/ Hides(p, entry))
  /\ edits' = edits + 1 /\ calm' = FALSE
  /\ UNCHANGED <<stage, pass, look, verdict, temporary>>

\* What the command left behind writes in the folders it knows.
Write ==
  /\ straggler /\ stage \in Cleaning /\ left["own"] = "folders"
  /\ left' = [left EXCEPT !["own"] = "files"]
  /\ UNCHANGED <<user, stage, pass, look, verdict, place, held, late, straggler, moves>>

\* Another program moves one of the two directories, of which its own may be
\* empty; the name of the quarantine is not known before.
Move(o, name) ==
  /\ stage \in Cleaning /\ moves < MaxMoves
  /\ place[o] \notin {name, "gone"} /\ (name = "elsewhere" \/ At(name) = {})
  /\ name = "quarantine" => stage # "rename"
  /\ place' = [place EXCEPT ![o] = name]
  /\ late' = IF <<stage, name>> \in {<<"rmdir", "quarantine">>, <<"restore", "root">>}
             THEN late \cup {o} ELSE late
  /\ moves' = moves + 1
  /\ UNCHANGED <<user, stage, pass, look, verdict, left, held, straggler>>

Run ==
  \/ ReadStatus \/ ListTracked \/ ListUntracked \/ ReadFile \/ Captured
  \/ Copy \/ Snapshotted \/ Prepare \/ Probe
  \/ \E status \in {"zero", "nonzero"} : Exited(status)
  \/ TimedOut \/ Refuse \/ Compare
  \/ Quarantine \/ Rename \/ Open \/ Identify \/ Restore \/ EmptyFolders \/ RemoveFolders
  \/ Recheck \/ Rmdir \/ Stat \/ CleanupFails \/ Report \/ Finished

Next ==
  \/ Run
  \/ \E p \in Paths, entry \in Entries : Edit(p, entry)
  \/ Write
  \/ \E o \in {"own", "other"}, name \in {"root", "quarantine", "elsewhere"} : Move(o, name)

Spec == Init /\ [][Next]_vars

-----------------------------------------------------------------------------
(* Properties.                                                              *)

Accepted == stage = "quarantine" /\ result # "none" /\ ~changed

\* The files of a snapshot are listed and read one after the other, and Git is
\* asked three times; the command's result is only reported when what it ran on
\* is what the checkout held, all of it, at one moment of the run.  Two edits no
\* comparison of two looks can show: a path that is changed and changed back, and
\* one that is added to Git's index between the inventory of what is tracked and
\* that of what is not.  When nothing is edited any more once the command is over,
\* the copy is what is there now whatever was done before, also where Git's status
\* says the same of two contents.
TestedIsTheCheckout ==
  Accepted => (unseen \/ copied \in moments) /\ (calm => copied = Visible)

\* A run that reports success has removed its private directory, whatever
\* processes of the command still write in it and whoever moves it; or it has
\* removed an empty directory that was put in its place after the run's last look
\* at the name, which cleanup_validation_root takes for its own.
SuccessLeavesNothing ==
  outcome = "zero" =>
    place["own"] = "gone" \/ (place["other"] = "gone" /\ "other" \in late)

\* What another program has put under the name of the private directory or of
\* its quarantine is never emptied; it is removed only when it is empty and came
\* there after the run's last look at the name.
OthersKept ==
  [][/\ left'["other"] = left["other"]
     /\ place["other"] # "gone" /\ place'["other"] = "gone" =>
          left["other"] = "nothing" /\ "other" \in late]_vars
=============================================================================
