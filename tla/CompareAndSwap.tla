--------------------------- MODULE CompareAndSwap ---------------------------
(***************************************************************************)
(* compare_and_swap of filesystem.py, one system call or one reading of a  *)
(* file's evidence at a time, beside a user who works on the same path.    *)
(*                                                                         *)
(* The three names are the path, the private temporary with the new        *)
(* content and the private quarantine link of the file that is replaced;   *)
(* the random names are known to nobody else.  A name denotes an inode; an *)
(* inode has its data, which only the user's edits change, and a number of *)
(* names.  chmod, which no caller asks for, is left out.                   *)
(***************************************************************************)
EXTENDS Naturals, FiniteSets

CONSTANTS MaxMeddles,  \* steps of the user
          MaxFaults    \* system calls that raise

ASSUME SwapAssumption == MaxMeddles \in Nat /\ MaxFaults \in Nat

Names == {"target", "temporary", "quarantine"}
Original == 1
New == 2
Inodes == 1..2 + MaxMeddles

VARIABLES
  action,     \* what compare_and_swap was called for
  entry,      \* the inode of each name, 0 if there is none
  elsewhere,  \* further names the user gave an inode
  data,       \* the edit that wrote an inode's data, 0 if none did
  since,      \* where the call was when that edit came
  dropped,    \* the inodes the user himself took from the path
  pc,         \* the next system call, or how the call ended
  held,       \* evidence of the quarantine: detached, then after_unlink
  again,      \* _restore_quarantine will be called a second time
  meddles, faults

disk == <<entry, elsewhere, data, since, dropped>>
vars == <<action, disk, pc, held, again, meddles, faults>>

Links(i) == Cardinality({n \in Names : entry[n] = i}) + elsewhere[i]

\* IdentityEvidence: the inode, its data and its number of links.
Nothing == [inode |-> 0, data |-> 0, links |-> 0]
At(n) == IF entry[n] = 0 THEN Nothing
         ELSE [inode |-> entry[n], data |-> data[entry[n]], links |-> Links(entry[n])]
Proof(i, links) == [inode |-> i, data |-> 0, links |-> links]

Before == IF action = "create" THEN Nothing ELSE Proof(Original, 1)
Linked == Proof(Original, 2)      \* _linked_evidence_matches

Installed == action # "unlink"    \* a temporary is made and linked
Ended == {"done", "failed"}

\* What every step of the call leaves alone, but for the names it changes.
Goto(next) == pc' = next /\ UNCHANGED <<action, elsewhere, data, since, dropped,
                                        again, meddles, faults>>
Reads == UNCHANGED <<entry, held>>
Link(from, to) == entry' = [entry EXCEPT ![to] = entry[from]] /\ UNCHANGED held
Unlink(n) == entry' = [entry EXCEPT ![n] = 0] /\ UNCHANGED held

\* A reading that decides between going on and giving up.
Check(here, ok, next, otherwise) ==
  pc = here /\ Reads /\ Goto(IF ok THEN next ELSE otherwise)

\* os.unlink of a private name, which nobody else takes away.
Remove(here, n, next) == pc = here /\ Unlink(n) /\ Goto(next)

\* The finally clause: a temporary that was not installed is removed.
GiveUp == IF Installed THEN "discard" ELSE "failed"

-----------------------------------------------------------------------------
(***************************************************************************)
(* The preparation: evidence, the temporary, evidence once more.           *)
(***************************************************************************)
Compare == Check("compare", At("target") = Before,
                 IF Installed THEN "temporary" ELSE "recheck", "failed")

\* O_EXCL: the random name is free.
OpenTemporary ==
  /\ pc = "temporary"
  /\ entry' = [entry EXCEPT !["temporary"] = New] /\ UNCHANGED held
  /\ Goto("write")

WriteTemporary == Check("write", TRUE, "recheck", "failed")

Recheck == Check("recheck", At("target") = Before,
                 IF action = "create" THEN "install" ELSE "source", GiveUp)

-----------------------------------------------------------------------------
(***************************************************************************)
(* _reserve_quarantine: the file gets a second, private name.              *)
(***************************************************************************)
OpenSource == Check("source", entry["target"] = Original, "link", GiveUp)

LinkQuarantine ==
  /\ pc = "link"
  /\ IF entry["target"] # 0 THEN Link("target", "quarantine") /\ Goto("stat")
                            ELSE Reads /\ Goto(GiveUp)

StatQuarantine ==
  /\ pc = "stat" /\ UNCHANGED entry /\ held' = At("quarantine")
  /\ Goto("verify")

VerifyQuarantine ==
  /\ pc = "verify"
  /\ IF At("quarantine") = Linked
       THEN UNCHANGED entry /\ held' = Linked /\ Goto("boundary")
       ELSE Reads /\ Goto("unreserve")

\* _remove_created_quarantine_link: only a link as it was created.
CheckCreated == Check("unreserve", At("quarantine") = held, "unreserve-unlink", GiveUp)
RemoveCreated == Remove("unreserve-unlink", "quarantine", GiveUp)

-----------------------------------------------------------------------------
(***************************************************************************)
(* The boundary: the last look, the unlink, and what was detached.         *)
(***************************************************************************)
\* Mutant: the last look is at the name only.
BoundaryByName == Check("boundary", entry["target"] # 0, "unlink", "withdraw")
Boundary == Check("boundary", At("target") = Linked, "unlink", "withdraw")

\* The original keeps its name and loses the quarantine link: tried where the
\* mismatch is seen and, if that fails, in the exception handler.
Withdraw == Check("withdraw", At("quarantine") = held, "withdraw-unlink", "handler")
WithdrawUnlink == Remove("withdraw-unlink", "quarantine", GiveUp)
Handler == Check("handler", At("quarantine") = held, "handler-unlink", GiveUp)
HandlerUnlink == Remove("handler-unlink", "quarantine", GiveUp)

UnlinkTarget ==
  /\ pc = "unlink"
  /\ IF entry["target"] # 0 THEN Unlink("target") /\ Goto("capture")
                            ELSE Reads /\ Goto("handler")

\* Mutant: nothing is restored.
AfterUnlinkForgets == "failed"
\* Nothing is restored when a removal raises.
AfterUnlink == IF Installed THEN "restore" ELSE "failed"

\* Of the detached file only the number of links is compared.
Capture ==
  /\ pc = "capture" /\ UNCHANGED entry
  /\ IF At("quarantine").links = Before.links
       THEN held' = At("quarantine") /\ Goto(IF Installed THEN "install" ELSE "drop")
       ELSE UNCHANGED held /\ Goto(AfterUnlink)

-----------------------------------------------------------------------------
(***************************************************************************)
(* The installation and the end of the quarantine.                         *)
(***************************************************************************)
\* _link_no_replace.
Install ==
  /\ pc = "install"
  /\ IF entry["target"] = 0
       THEN Link("temporary", "target") /\ Goto(IF action = "create" THEN "finish" ELSE "drop")
       ELSE Reads /\ Goto(IF action = "create" THEN "discard" ELSE "restore")

AfterDrop == IF Installed THEN "proof" ELSE "failed"
Drop == Check("drop", At("quarantine") = held, "drop-unlink", AfterDrop)
DropUnlink == Remove("drop-unlink", "quarantine",
                     IF Installed THEN "finish" ELSE "final")

\* Mutant: a quarantine that is still there does not count.
ProveLoosely == Check("proof", At("target") = Proof(New, 2), "finish", "retract")
\* _installed_replacement_proven, and the quarantine is gone all the same.
Prove == Check("proof", At("target") = Proof(New, 2) /\ entry["quarantine"] = 0,
               "finish", "retract")

\* _remove_owned_temp: both links of the new file are its own.
Ours(n, links) == entry[n] = New /\ data[New] = 0 /\ Links(New) \in links
Finish == Check("finish", Ours("temporary", {1, 2}), "finish-unlink", "failed")
FinishUnlink == Remove("finish-unlink", "temporary", "final")

Final == Check("final", IF Installed THEN At("target") = Proof(New, 1)
                                     ELSE entry["target"] = 0, "done", "failed")

-----------------------------------------------------------------------------
(***************************************************************************)
(* Undoing a replacement: _rollback_installed_replacement, the restoration *)
(* of the quarantine, and the clean-up of the temporary.                   *)
(***************************************************************************)
Retract == Check("retract", Ours("target", {1, 2}), "retract-unlink", "restore")

RetractUnlink ==
  /\ pc = "retract-unlink" /\ pc' = "restore"
  /\ again' = (entry["target"] # 0)
  /\ entry' = [entry EXCEPT !["target"] = 0]
  /\ UNCHANGED <<action, elsewhere, data, since, dropped, held, meddles, faults>>

\* The restoration returns without a word; the handler calls it once more.
Restored ==
  /\ pc' = IF again THEN "restore" ELSE "leave"
  /\ again' = FALSE
  /\ UNCHANGED <<action, elsewhere, data, since, dropped, meddles, faults>>

Restore ==
  /\ pc = "restore" /\ Reads
  /\ IF At("quarantine") = Before THEN Goto("relink") ELSE Restored
Relink ==
  /\ pc = "relink"
  /\ IF entry["target"] = 0 THEN Link("quarantine", "target") /\ Goto("restore-unlink")
                            ELSE Reads /\ Restored
RestoreUnlink == pc = "restore-unlink" /\ Unlink("quarantine") /\ Restored

\* Mutant: the quarantine is dropped although the path has no file.
LeaveUnconditionally == Check("leave", At("quarantine") = Before, "leave-unlink", "discard")
\* If the path has a file now the quarantine is not needed.
Leave == Check("leave", entry["target"] # 0 /\ At("quarantine") = Before,
               "leave-unlink", "discard")
LeaveUnlink == Remove("leave-unlink", "quarantine", "discard")

Discard == Check("discard", Ours("temporary", {1}), "discard-unlink", "failed")
DiscardUnlink == Remove("discard-unlink", "temporary", "failed")

Step ==
  \/ Compare \/ OpenTemporary \/ WriteTemporary \/ Recheck
  \/ OpenSource \/ LinkQuarantine \/ StatQuarantine \/ VerifyQuarantine
  \/ CheckCreated \/ RemoveCreated
  \/ Boundary \/ Withdraw \/ WithdrawUnlink \/ Handler \/ HandlerUnlink
  \/ UnlinkTarget \/ Capture \/ Install \/ Drop \/ DropUnlink
  \/ Prove \/ Finish \/ FinishUnlink \/ Final
  \/ Retract \/ RetractUnlink \/ Restore \/ Relink \/ RestoreUnlink
  \/ Leave \/ LeaveUnlink \/ Discard \/ DiscardUnlink

-----------------------------------------------------------------------------
(***************************************************************************)
(* What goes wrong.                                                        *)
(***************************************************************************)
\* Where an exception out of the current system call leads.
Handlers ==
  CASE pc \in {"compare", "temporary", "write", "discard", "discard-unlink",
               "finish", "finish-unlink", "final"} -> {"failed"}
    [] pc \in {"recheck", "source", "link", "stat", "unreserve", "unreserve-unlink",
               "handler", "handler-unlink"} -> {GiveUp}
    [] pc = "verify" -> {"unreserve"}
    [] pc \in {"boundary", "withdraw", "withdraw-unlink", "unlink"} -> {"handler"}
    [] pc = "capture" -> {AfterUnlink}
    [] pc = "install" -> {IF action = "create" THEN "discard" ELSE "restore"}
    [] pc \in {"drop", "drop-unlink"} -> {AfterDrop}
    [] pc = "proof" -> {"retract", "failed"}
    [] pc \in {"retract", "retract-unlink"} -> {"restore"}
    [] pc \in {"restore", "relink", "restore-unlink"} ->
         {IF again THEN "restore" ELSE "leave"}
    [] pc \in {"leave", "leave-unlink"} -> {"discard"}

\* A system call raises.  The unlink of the quarantine may have worked then.
Fault ==
  /\ pc \notin Ended /\ faults < MaxFaults /\ faults' = faults + 1
  /\ pc' \in Handlers
  /\ again' = (again /\ pc \notin {"restore", "relink", "restore-unlink"})
  /\ \/ UNCHANGED entry
     \/ /\ pc = "drop-unlink"
        /\ entry' = [entry EXCEPT !["quarantine"] = 0]
  /\ UNCHANGED <<action, elsewhere, data, since, dropped, held, meddles>>

\* The user edits the file of the path, or the original that he had opened
\* before, puts another file there, takes the file away or links it elsewhere.
Write(i) ==
  /\ Links(i) > 0
  /\ data' = [data EXCEPT ![i] = meddles + 1] /\ since' = [since EXCEPT ![i] = pc]
  /\ UNCHANGED <<entry, elsewhere, dropped>>

Put ==
  LET i == New + meddles + 1 IN
  /\ entry' = [entry EXCEPT !["target"] = i]
  /\ data' = [data EXCEPT ![i] = meddles + 1] /\ since' = [since EXCEPT ![i] = pc]
  /\ dropped' = dropped \cup {entry["target"]} /\ UNCHANGED elsewhere

TakeAway ==
  /\ entry["target"] # 0 /\ entry' = [entry EXCEPT !["target"] = 0]
  /\ dropped' = dropped \cup {entry["target"]} /\ UNCHANGED <<elsewhere, data, since>>

LinkElsewhere ==
  /\ entry["target"] # 0
  /\ elsewhere' = [elsewhere EXCEPT ![entry["target"]] = @ + 1]
  /\ UNCHANGED <<entry, data, since, dropped>>

Meddle ==
  /\ pc \notin Ended /\ meddles < MaxMeddles /\ meddles' = meddles + 1
  /\ \/ \E i \in {entry["target"], Original} \ {0} : Write(i)
     \/ Put \/ TakeAway \/ LinkElsewhere
  /\ UNCHANGED <<action, pc, held, again, faults>>

-----------------------------------------------------------------------------
\* The caller has the evidence of the path, and asks for what it allows.
Init ==
  /\ action \in {"create", "replace", "unlink"}
  /\ entry = [n \in Names |-> IF n = "target" /\ action # "create" THEN Original ELSE 0]
  /\ elsewhere = [i \in Inodes |-> 0] /\ data = [i \in Inodes |-> 0]
  /\ since = [i \in Inodes |-> "compare"] /\ dropped = {}
  /\ pc = "compare" /\ held = Nothing /\ again = FALSE
  /\ meddles = 0 /\ faults = 0

Next == Step \/ Fault \/ Meddle
Spec == Init /\ [][Next]_vars

-----------------------------------------------------------------------------
\* Between the last look at a name and its unlink, for which there is no call
\* bound to an inode ...
LookToUnlink == {"unlink", "drop-unlink", "leave-unlink", "retract-unlink"}
\* ... and before the look at what was detached, where data is not compared.
Window == LookToUnlink \cup {"capture"}

LosesLastName(i) == Links(i) > 0 /\ Links(i)' = 0 /\ meddles' = meddles /\ i \notin dropped

\* Whatever the user writes in place, puts at the path or links elsewhere, at
\* any moment of the call and of its error handling, the call destroys it only
\* if it came in one of these windows; before each of them it is noticed.
LostOnlyInWindow ==
  [][\A i \in Inodes : data[i] # 0 /\ LosesLastName(i) => since[i] \in Window]_vars

\* A replacement, however it fails, gives up the last name of the original only
\* when the path has another file, the new one or one that appeared there,
\* unless the user took that one away in between.
OriginalKept ==
  [][Installed /\ LosesLastName(Original) => entry["target"] # 0 \/ dropped # {}]_vars

\* Success is exact: the path has the new file alone (or none after a removal),
\* and neither the temporary nor the quarantine is left behind.
SuccessExact ==
  [][pc = "final" /\ pc' = "done" =>
       /\ At("target") = IF Installed THEN Proof(New, 1) ELSE Nothing
       /\ entry["temporary"] = 0 /\ entry["quarantine"] = 0]_vars

\* What a failed call leaves at the path after one exception, with no user in
\* the way (CasLeft in Transaction): the file it found, the new one, or one of them with a second link;
\* never nothing, unless there was nothing or it was to be removed.
FailedLeaves ==
  pc = "failed" /\ meddles = 0 /\ faults <= 1 =>
    CASE action = "create" -> At("target") \in {Nothing, Proof(New, 1), Proof(New, 2)}
      [] action = "replace" -> At("target") \in {Proof(i, l) : i \in {Original, New}, l \in {1, 2}}
      [] action = "unlink" -> At("target") \in {Nothing, Proof(Original, 1), Linked}
=============================================================================
