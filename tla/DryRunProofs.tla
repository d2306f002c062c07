---------------------------- MODULE DryRunProofs ----------------------------
(***************************************************************************)
(* The dry run beside any number of transactions, homes and edits: what    *)
(* it takes for a transaction that is half way to be taken for a conflict, *)
(* and what it takes for a report that was true at no moment.              *)
(***************************************************************************)
EXTENDS DryRun, TLAPS

-----------------------------------------------------------------------------
(* What there is.                                                           *)

Phases == {"idle", "journal", "apply", "place", "undo", "restore", "seal", "clean", "dead"}
Journals == [tx : Nat, sealed : BOOLEAN]
Writers == [phase : Phases, tx : Nat, next : Nat, operation : {"install", "uninstall"},
            stuck : BOOLEAN, recovers : BOOLEAN, mishaps : Nat,
            files : [T -> Files], manifests : [T -> Manifests]]
Watches == [count : Nat, files : SUBSET T, twice : BOOLEAN, first : Nat,
            missed : BOOLEAN, earlier : BOOLEAN]
TypeOK ==
  /\ file \in [T -> Files] /\ manifest \in [T -> Manifests] /\ journal \in [T -> Journals]
  /\ away \in {0} \cup T /\ litter \in {0} \cup T
  /\ writer \in Writers
  /\ writer.phase \in {"journal", "seal", "clean"} => writer.next \in T
  /\ writer.phase = "apply" => writer.next \in 1 .. Last + 1
  /\ writer.phase \in {"place", "restore"} => writer.next \in 1 .. Last
  /\ writer.phase = "undo" => writer.next \in 0 .. Last
  /\ edits \in Watches
  /\ request \in {"install", "uninstall"}

-----------------------------------------------------------------------------
(* The other process: which journals there are, whatever the user edits.    *)

\* A home has the journal of the transaction; it is still open.
Held(t) == journal[t].tx = writer.tx /\ writer.tx > 0
Open(t) == Held(t) /\ ~journal[t].sealed

\* Which homes have a journal at each step, and which journals are sealed.
Journaled(t) ==
  /\ writer.phase = "idle" => journal[t] = NoJournal
  /\ writer.phase = "journal" =>
       (t < writer.next => Open(t)) /\ (t >= writer.next => journal[t] = NoJournal)
  /\ writer.phase \in {"apply", "place", "undo", "restore"} => Open(t)
  /\ writer.phase = "seal" => Held(t) /\ (t < writer.next => journal[t].sealed)
  /\ writer.phase = "clean" /\ t < writer.next => journal[t] = NoJournal
\* Journals are sealed in the order of the homes, and all of them before one is removed.
Decided(t) ==
  journal[t].sealed =>
    /\ writer.phase \in {"seal", "clean", "dead"}
    /\ \A u \in T : u < t => journal[u].sealed \/ journal[u] = NoJournal
    /\ writer.phase = "clean" \/ (\E u \in T : journal[u] = NoJournal) =>
         \A u \in T : journal[u].sealed \/ journal[u] = NoJournal
JournalInv ==
  /\ writer.phase # "idle" => writer.tx > 0
  /\ \A t \in T : /\ journal[t] # NoJournal => Held(t)
                  /\ Journaled(t) /\ Decided(t)

-----------------------------------------------------------------------------
(* What it has changed, as long as the user does not.                       *)

\* A home says in its manifest that it has the current file, or it has another or none.
Honest(t) == manifest[t] = "claims" <=> file[t] = "current"
\* A home whose manifest claims a file it does not have: what a plan calls a conflict.
Phantom(t) == manifest[t] = "claims" /\ file[t] # "current"

\* All of a transaction is done, or nothing; an operation is done or not.
AllDone == \A k \in 1 .. Last : Now(k) = After(k)
AllUndone == \A k \in 1 .. Last : Now(k) = Before(k)
Within(k) == Now(k) \in {Before(k), After(k)}
\* Operations are done in their order, and undone from the last one on.
Doing ==
  /\ \A k \in 1 .. Last : (k < writer.next => Now(k) = After(k))
                          /\ (k > writer.next => Now(k) = Before(k))
  /\ writer.phase = "apply" /\ writer.next <= Last => Now(writer.next) = Before(writer.next)
  /\ writer.phase = "place" => Now(writer.next) = "absent"
Undoing ==
  /\ \A k \in 1 .. Last : (k < writer.next => Within(k))
                          /\ (k > writer.next => Now(k) = Before(k))
  /\ writer.phase = "undo" /\ writer.next > 0 => Within(writer.next)
WriterInv ==
  /\ \A t \in T : writer.manifests[t] = "claims" <=> writer.files[t] = "current"
  /\ writer.phase = "idle" => \A t \in T : Honest(t)
  /\ writer.phase = "journal" => AllUndone
  /\ writer.phase \in {"apply", "place"} => Doing
  /\ writer.phase \in {"undo", "restore"} /\ ~writer.stuck => Undoing
  /\ writer.phase \in {"seal", "clean"} => AllDone \/ AllUndone
  /\ writer.phase = "dead" => AllDone \/ AllUndone \/ \A t \in T : Open(t)

-----------------------------------------------------------------------------
(* The dry run: how many transactions a conflict in its plans takes.        *)

\* Transaction n has had its journal on home t, and t has none of the first n.
Spent(t, n) ==
  writer.tx > n \/ (writer.tx = n /\ ~(writer.phase = "journal" /\ writer.next <= t))
Past(t, n) == Spent(t, n) /\ (journal[t] # NoJournal => journal[t].tx > n)

\* The plans that are finished.
Passes ==
  IF at.round = 1 THEN IF at.part <= 3 THEN 0 ELSE IF at.part <= 5 THEN 1 ELSE 2
  ELSE IF at.part <= 3 THEN 2 ELSE IF at.part <= 5 THEN 3 ELSE 4
Noted(t) == memo.plan.kind = "plan" /\ memo.plan.effects[t][1] = "conflict"
Suspect(t) == Passes = 0 \/ Noted(t)

Collecting == at.round \in {1, 2}
Values == Files \cup Manifests \cup Journals
Reading ==
  /\ at \in [round : 0 .. 4, part : 1 .. 6] /\ (at.round = 0 => at.part = 1)
  /\ memo = [groups |-> memo.groups, state |-> memo.state, plan |-> memo.plan]
  /\ got \in Seq(Values) /\ (Running => Len(got) < Targets * Len(Cells))
  /\ at.round \in {0, 3, 4} \/ (at.round = 1 /\ at.part <= 3) => memo.plan = Nothing
  /\ Collecting /\ at.part \in {3, 5} => Pending(memo.groups) = {}
  /\ Collecting /\ memo.plan.kind = "plan" => Pending(memo.groups) = {}
  /\ at.round # 3 => exit = 0
  /\ at.round \in {0, 1} => ~edits.earlier
\* What the reads of the current part have shown.
Seen(t, reads) ==
  /\ Suspect(t) /\ Part = "groups" /\ t <= Len(reads) /\ reads[t] = NoJournal => Past(t, Passes)
  /\ Part = "plan" =>
       /\ 3 * t - 2 <= Len(reads) => reads[3 * t - 2] \in Manifests
       /\ 3 * t - 1 <= Len(reads) => reads[3 * t - 1] \in Files
  /\ Suspect(t) /\ Part = "plan" /\ 3 * t - 2 <= Len(reads) /\ reads[3 * t - 2] = "claims" =>
       /\ Len(reads) = 3 * t - 2 => Spent(t, Passes + 1) \/ file[t] = "current"
       /\ Len(reads) >= 3 * t - 1 /\ reads[3 * t - 1] # "current" => Spent(t, Passes + 1)
Counted(t) ==
  /\ Suspect(t) => Spent(t, Passes)
  /\ Suspect(t) /\ at.part \in {2, 3, 5} /\ Pending(memo.groups) = {} => Past(t, Passes)
  /\ Seen(t, got)
ReaderInv ==
  /\ Collecting => \A t \in T : Counted(t)
  /\ exit = 4 => writer.tx >= 4

\* The user has edited nothing, and no journal was missed.
Untouched == edits.count = 0 /\ ~edits.missed /\ ~edits.earlier
IInv ==
  /\ TypeOK /\ Reading /\ JournalInv
  /\ edits.count = 0 => WriterInv
  /\ Untouched => ReaderInv

-----------------------------------------------------------------------------
(* The operations of a transaction.                                         *)

\* Operations are numbered home by home, the file before the manifest.
LEMMA Numbers ==
  /\ Targets \in Nat /\ Targets > 0 /\ 1 \in T /\ Last = 2 * Targets
  /\ \A t \in T : /\ t \in Nat /\ t >= 1 /\ t <= Targets
                  /\ 2 * t - 1 \in 1 .. Last /\ 2 * t \in 1 .. Last
                  /\ (2 * t - 1 + 1) \div 2 = t /\ (2 * t + 1) \div 2 = t
                  /\ (2 * t - 1) % 2 = 1 /\ (2 * t) % 2 = 0
  /\ Last \in Nat
  /\ \A k \in 1 .. Last : k \in Nat /\ (k + 1) \div 2 \in T /\ \E t \in T : k = 2 * t - 1 \/ k = 2 * t
<1>1. Targets \in Nat /\ Targets > 0
  BY DryRunAssumption
<1>2. ASSUME NEW k \in 1 .. Last
      PROVE  k \in Nat /\ (k + 1) \div 2 \in T /\ \E t \in T : k = 2 * t - 1 \/ k = 2 * t
  <2>1. k \in Nat /\ (k + 1) \div 2 \in T
    BY <1>1 DEF T, Last
  <2>2. k = 2 * ((k + 1) \div 2) - 1 \/ k = 2 * ((k + 1) \div 2)
    BY <2>1
  <2> QED
    BY <2>1, <2>2
<1>3. ASSUME NEW t \in T
      PROVE  /\ t \in Nat /\ t >= 1 /\ t <= Targets
             /\ 2 * t - 1 \in 1 .. Last /\ 2 * t \in 1 .. Last
             /\ (2 * t - 1 + 1) \div 2 = t /\ (2 * t + 1) \div 2 = t
             /\ (2 * t - 1) % 2 = 1 /\ (2 * t) % 2 = 0
  BY <1>1 DEF T, Last
<1> QED
  BY <1>1, <1>2, <1>3 DEF T, Last

\* What an operation finds and leaves, by the home it is for.
LEMMA Operated ==
  ASSUME NEW t \in T
  PROVE  /\ Before(2 * t - 1) = writer.files[t] /\ Before(2 * t) = writer.manifests[t]
         /\ Now(2 * t - 1) = file[t] /\ Now(2 * t) = manifest[t]
         /\ After(2 * t) = Claims(writer.operation, writer.manifests[t], writer.files[t])
         /\ After(2 * t - 1) =
              LET effect == Effect(writer.operation, writer.manifests[t], writer.files[t])
              IN CASE effect \in {"create", "replace", "adopt"} -> "current"
                   [] effect = "remove" -> "absent"
                   [] OTHER -> writer.files[t]
<1>1. /\ (2 * t - 1 + 1) \div 2 = t /\ (2 * t + 1) \div 2 = t
      /\ (2 * t - 1) % 2 = 1 /\ (2 * t) % 2 = 0
  BY Numbers
<1>2. /\ Before(2 * t - 1) = writer.files[t] /\ Before(2 * t) = writer.manifests[t]
      /\ Now(2 * t - 1) = file[t] /\ Now(2 * t) = manifest[t]
  BY <1>1 DEF Before, Now
<1>3. After(2 * t) = Claims(writer.operation, writer.manifests[t], writer.files[t])
  BY <1>1 DEF After
<1>4. After(2 * t - 1) =
        LET effect == Effect(writer.operation, writer.manifests[t], writer.files[t])
        IN CASE effect \in {"create", "replace", "adopt"} -> "current"
             [] effect = "remove" -> "absent"
             [] OTHER -> writer.files[t]
  BY <1>1 DEF After
<1> QED
  BY <1>2, <1>3, <1>4

\* What an operation finds and leaves are values it may have, whatever the user has done;
\* "absent" may stand for either.
LEMMA OperatedTyped ==
  ASSUME TypeOK, NEW k \in 1 .. Last, NEW value \in {"absent", Before(k), After(k)}, Put(k, value)
  PROVE  file' \in [T -> Files] /\ manifest' \in [T -> Manifests]
<1>1. PICK t \in T : k = 2 * t - 1 \/ k = 2 * t
  BY Numbers
<1>2. writer.files[t] \in Files /\ writer.manifests[t] \in Manifests
  BY DEF TypeOK, Writers
<1>n. k = 2 * t - 1 => (k + 1) \div 2 = t /\ k % 2 = 1
  BY Numbers
<1>m. k = 2 * t => (k + 1) \div 2 = t /\ k % 2 = 0
  BY Numbers
<1>3. CASE k = 2 * t - 1
  <2>1. file' = [file EXCEPT ![t] = value] /\ UNCHANGED manifest
    BY <1>n, <1>3 DEF Put
  <2>2. After(k) \in Files
    BY <1>2, <1>3, Operated DEF Files
  <2>3. value \in Files
    BY <1>2, <1>3, <2>2, Operated DEF Files
  <2> QED
    BY <2>1, <2>3 DEF TypeOK
<1>4. CASE k = 2 * t
  <2>1. manifest' = [manifest EXCEPT ![t] = value] /\ UNCHANGED file
    BY <1>m, <1>4 DEF Put
  <2>2. value \in Manifests
    BY <1>2, <1>4, Operated DEF Claims, Manifests
  <2> QED
    BY <2>1, <2>2 DEF TypeOK
<1> QED
  BY <1>1, <1>3, <1>4

\* A call for one operation leaves the others as they are.
LEMMA PutIs ==
  ASSUME TypeOK, NEW k \in 1 .. Last, NEW value, Put(k, value)
  PROVE  /\ Now(k)' = value
         /\ \A j \in 1 .. Last : j # k => Now(j)' = Now(j)
<1>1. \A j \in 1 .. Last : (j + 1) \div 2 \in T /\ j \in Nat
  BY Numbers
<1>2. CASE k % 2 = 1
  <2>1. file' = [file EXCEPT ![(k + 1) \div 2] = value] /\ UNCHANGED manifest
    BY <1>2 DEF Put
  <2>2. Now(k)' = value
    BY <1>1, <1>2, <2>1 DEF Now, TypeOK
  <2>3. ASSUME NEW j \in 1 .. Last, j # k PROVE Now(j)' = Now(j)
    <3>1. j % 2 = 1 => (j + 1) \div 2 # (k + 1) \div 2
      BY <1>1, <1>2, <2>3
    <3> QED
      BY <1>1, <2>1, <3>1 DEF Now, TypeOK
  <2> QED
    BY <2>2, <2>3
<1>3. CASE k % 2 # 1
  <2>1. manifest' = [manifest EXCEPT ![(k + 1) \div 2] = value] /\ UNCHANGED file
    BY <1>3 DEF Put
  <2>2. Now(k)' = value
    BY <1>1, <1>3, <2>1 DEF Now, TypeOK
  <2>3. ASSUME NEW j \in 1 .. Last, j # k PROVE Now(j)' = Now(j)
    <3>1. j % 2 # 1 => (j + 1) \div 2 # (k + 1) \div 2
      BY <1>1, <1>3, <2>3
    <3> QED
      BY <1>1, <2>1, <3>1 DEF Now, TypeOK
  <2> QED
    BY <2>2, <2>3
<1> QED
  BY <1>2, <1>3

\* What a transaction leaves agrees with its manifest, if what it found did.
LEMMA EffectsAgree ==
  ASSUME TypeOK, WriterInv, AllDone \/ AllUndone, NEW t \in T
  PROVE  Honest(t)
<1> DEFINE m == writer.manifests[t]
           f == writer.files[t]
           o == writer.operation
<1>1. m \in Manifests /\ f \in Files /\ (m = "claims" <=> f = "current")
      /\ o \in {"install", "uninstall"}
  BY DEF TypeOK, WriterInv, Writers
<1>2. /\ Now(2 * t - 1) = file[t] /\ Now(2 * t) = manifest[t]
      /\ 2 * t - 1 \in 1 .. Last /\ 2 * t \in 1 .. Last
  BY Operated, Numbers
<1>3. After(2 * t) = "claims" <=> After(2 * t - 1) = "current"
  <2>2. CASE o = "install" /\ m = "claims"
    BY <1>1, <2>2, Operated DEF Effect, Claims, Files, Manifests
  <2>3. CASE o = "install" /\ m = "absent"
    BY <1>1, <2>3, Operated DEF Effect, Claims, Files, Manifests
  <2>4. CASE o = "uninstall" /\ m = "claims"
    BY <1>1, <2>4, Operated DEF Effect, Claims, Files, Manifests
  <2>5. CASE o = "uninstall" /\ m = "absent"
    BY <1>1, <2>5, Operated DEF Effect, Claims, Files, Manifests
  <2> QED
    BY <1>1, <2>2, <2>3, <2>4, <2>5 DEF Manifests
<1>4. AllDone => file[t] = After(2 * t - 1) /\ manifest[t] = After(2 * t)
  BY <1>2 DEF AllDone
<1>5. AllUndone => file[t] = Before(2 * t - 1) /\ manifest[t] = Before(2 * t)
  BY <1>2 DEF AllUndone
<1>6. Before(2 * t - 1) = f /\ Before(2 * t) = m
  BY Operated
<1> QED
  BY <1>1, <1>3, <1>4, <1>5, <1>6 DEF Honest

-----------------------------------------------------------------------------
(* Its steps.                                                               *)

\* The transaction goes on with what it was planned with.
Goes(p, n) ==
  /\ writer'.phase = p /\ writer'.next = n /\ writer'.tx = writer.tx
  /\ writer'.operation = writer.operation
  /\ writer'.files = writer.files /\ writer'.manifests = writer.manifests
LEMMA Moving ==
  ASSUME TypeOK, NEW p, NEW n, Moves(p, n)
  PROVE  /\ Goes(p, n) /\ writer'.stuck = writer.stuck
         /\ p \in Phases /\ n \in Nat => writer' \in Writers
BY DEF TypeOK, Moves, Goes, Writers

LEMMA Resuming ==
  ASSUME TypeOK, NEW p, NEW n, Resumes(p, n)
  PROVE  /\ Goes(p, n) /\ writer'.stuck = writer.stuck
         /\ p \in Phases /\ n \in Nat => writer' \in Writers
BY DEF TypeOK, Resumes, Goes, Writers

LEMMA Halting ==
  ASSUME TypeOK, NEW n \in Nat, NEW more \in {0, 1}, Halts(n, more)
  PROVE  /\ writer' \in Writers
         /\ Goes("dead", n) \/ (Goes("undo", n) /\ writer'.stuck)
<1>0. writer \in Writers /\ writer.mishaps \in Nat
  BY DEF TypeOK, Writers
<1>1. writer' = [writer EXCEPT !.phase = IF writer.recovers THEN "dead" ELSE "undo",
                   !.next = n, !.stuck = ~writer.recovers, !.mishaps = @ + more]
  BY DEF Halts
<1>2. writer.mishaps + more \in Nat
  BY <1>0
<1>3. CASE writer.recovers
  <2>1. writer' = [writer EXCEPT !.phase = "dead", !.next = n, !.stuck = FALSE, !.mishaps = @ + more]
    BY <1>1, <1>3
  <2> QED
    BY <1>0, <1>2, <2>1 DEF Writers, Goes, Phases
<1>4. CASE ~writer.recovers
  <2>1. writer' = [writer EXCEPT !.phase = "undo", !.next = n, !.stuck = TRUE, !.mishaps = @ + more]
    BY <1>1, <1>4
  <2> QED
    BY <1>0, <1>2, <2>1 DEF Writers, Goes, Phases
<1> QED
  BY <1>3, <1>4

LEMMA Crashing ==
  ASSUME TypeOK, Crash
  PROVE  Goes("dead", writer.next) /\ writer' \in Writers /\ writer.phase \notin {"idle", "dead"}
<1>1. writer \in Writers /\ writer' = [writer EXCEPT !.phase = "dead", !.mishaps = @ + 1]
      /\ writer.phase \notin {"idle", "dead"}
  BY DEF TypeOK, Crash
<1>2. "dead" \in Phases /\ writer.mishaps + 1 \in Nat
  BY <1>1 DEF Phases, Writers
<1> QED
  BY <1>1, <1>2 DEF Goes, Writers

\* A step in the middle of the operations: from where to where, with the journals as they are.
Steps == {<<"apply", "apply">>, <<"apply", "place">>, <<"apply", "undo">>, <<"apply", "seal">>,
          <<"place", "apply">>, <<"place", "undo">>, <<"undo", "undo">>, <<"undo", "restore">>,
          <<"undo", "seal">>, <<"undo", "dead">>, <<"restore", "undo">>, <<"restore", "dead">>}
Midway == Apply \/ Place \/ Applied \/ Undo \/ Restore \/ Undone \/ (Fail /\ writer.phase # "journal")
\* Midway steps go along these arcs, and the next operation is one there is.
Landing(p, n) ==
  /\ <<writer.phase, p>> \in Steps /\ p \in Phases /\ n \in Nat
  /\ p = "apply" => n \in 1 .. Last + 1
  /\ p \in {"place", "restore"} => n \in 1 .. Last
  /\ p = "undo" => n \in 0 .. Last
  /\ p = "seal" => n = 1
LEMMA Counts ==
  ASSUME TypeOK
  PROVE  /\ writer.next \in Nat /\ Last \in Nat
         /\ writer.phase = "apply" => writer.next \in 1 .. Last + 1
         /\ writer.phase = "apply" /\ writer.next <= Last => writer.next \in 1 .. Last
         /\ writer.phase \in {"place", "restore"} => writer.next \in 1 .. Last
         /\ writer.phase = "undo" => writer.next \in 0 .. Last
         /\ writer.phase = "undo" /\ writer.next > 0 => writer.next \in 1 .. Last
         /\ writer.next \in 1 .. Last =>
              writer.next + 1 \in 1 .. Last + 1 /\ writer.next - 1 \in 0 .. Last
                /\ writer.next \in 0 .. Last
<1>1. writer.next \in Nat /\ Last \in Nat
  BY Numbers DEF TypeOK, Writers
<1>2. /\ writer.phase = "apply" => writer.next \in 1 .. Last + 1
      /\ writer.phase \in {"place", "restore"} => writer.next \in 1 .. Last
      /\ writer.phase = "undo" => writer.next \in 0 .. Last
  BY DEF TypeOK
<1> QED
  BY <1>1, <1>2

\* What a midway step does to the homes, and where it goes.
LEMMA MidwayIs ==
  ASSUME TypeOK, Midway
  PROVE  /\ UNCHANGED <<journal, away, litter, reader, edits>>
         /\ \/ \E p \in Phases, n \in Nat : Moves(p, n) /\ Landing(p, n)
            \/ \E n \in 0 .. Last, more \in {0, 1} :
                 writer.phase \in {"undo", "restore"} /\ Halts(n, more)
         /\ \/ UNCHANGED <<file, manifest>>
            \/ \E value \in {"absent", Before(writer.next), After(writer.next)} :
                 writer.next \in 1 .. Last /\ Put(writer.next, value)
<1> DEFINE k == writer.next
<1> DEFINE Turning == \/ \E p \in Phases, n \in Nat : Moves(p, n) /\ Landing(p, n)
                      \/ \E n \in 0 .. Last, more \in {0, 1} :
                           writer.phase \in {"undo", "restore"} /\ Halts(n, more)
           Putting == \/ UNCHANGED <<file, manifest>>
                      \/ \E value \in {"absent", Before(k), After(k)} :
                           k \in 1 .. Last /\ Put(k, value)
<1>1. UNCHANGED <<away, litter, reader, edits>>
  BY DEF Midway, Apply, Place, Applied, Undo, Restore, Undone, Fail, Writes, Beside, reader
<1>2. UNCHANGED journal
  BY DEF Midway, Apply, Place, Applied, Undo, Restore, Undone, Fail, PutBack, world
<1>3. ASSUME NEW p, NEW n, Moves(p, n), Landing(p, n) PROVE Turning
  BY <1>3 DEF Landing
<1>4. ASSUME NEW value \in {"absent", Before(k), After(k)}, k \in 1 .. Last, Put(k, value)
      PROVE  Putting
  BY <1>4
<1>5. UNCHANGED world => Putting
  BY DEF world
<1>6. ASSUME NEW value \in {Before(k), After(k)}, k \in 1 .. Last, PutBack(k, value)
      PROVE  Putting
  BY <1>6 DEF PutBack
<1>7. ASSUME writer.phase \in {"undo", "restore"}, NEW n \in 0 .. Last, NEW more \in {0, 1}, Halts(n, more)
      PROVE  Turning
  BY <1>7
<1> HIDE DEF Turning, Putting
<1>8. Turning /\ Putting
  <2>1. CASE Apply
    <3>1. writer.phase = "apply" /\ k \in 1 .. Last
      BY <2>1, Counts DEF Apply
    <3>2. /\ <<"apply", "apply">> \in Steps /\ <<"apply", "place">> \in Steps
          /\ <<"apply", "undo">> \in Steps
      BY DEF Steps
    <3>3. Landing("apply", k + 1) /\ Landing("place", k) /\ Landing("undo", k)
      BY <3>1, <3>2, Counts DEF Landing, Phases
    <3>4. \/ Moves("apply", k + 1) \/ Moves("place", k) \/ Moves("undo", k)
      BY <2>1 DEF Apply
    <3>5. UNCHANGED world \/ Put(k, After(k)) \/ Put(k, "absent")
      BY <2>1 DEF Apply
    <3> QED
      BY <1>3, <1>4, <1>5, <3>1, <3>3, <3>4, <3>5
  <2>2. CASE Place
    <3>1. writer.phase = "place" /\ k \in 1 .. Last
      BY <2>2, Counts DEF Place
    <3>2. <<"place", "apply">> \in Steps /\ <<"place", "undo">> \in Steps
      BY DEF Steps
    <3>3. Landing("apply", k + 1) /\ Landing("undo", k)
      BY <3>1, <3>2, Counts DEF Landing, Phases
    <3>4. (Moves("apply", k + 1) /\ Put(k, After(k))) \/ (Moves("undo", k) /\ UNCHANGED world)
      BY <2>2 DEF Place
    <3> QED
      BY <1>3, <1>4, <1>5, <3>1, <3>3, <3>4
  <2>3. CASE Applied
    <3>1. writer.phase = "apply" /\ Moves("seal", 1) /\ UNCHANGED world
      BY <2>3 DEF Applied
    <3>2. <<"apply", "seal">> \in Steps
      BY DEF Steps
    <3>3. Landing("seal", 1)
      BY <3>1, <3>2 DEF Landing, Phases
    <3> QED
      BY <1>3, <1>5, <3>1, <3>3
  <2>4. CASE Undo
    <3>1. writer.phase = "undo" /\ k \in 1 .. Last
      BY <2>4, Counts DEF Undo
    <3>2. <<"undo", "undo">> \in Steps /\ <<"undo", "restore">> \in Steps
      BY DEF Steps
    <3>3. Landing("undo", k - 1) /\ Landing("restore", k)
      BY <3>1, <3>2, Counts DEF Landing, Phases
    <3>4. \/ Moves("undo", k - 1) \/ Moves("restore", k) \/ Halts(k - 1, 0)
      BY <2>4 DEF Undo
    <3>5. UNCHANGED world \/ Put(k, Before(k)) \/ Put(k, "absent")
      BY <2>4 DEF Undo
    <3>6. k - 1 \in 0 .. Last
      BY <3>1, Counts
    <3> QED
      BY <1>3, <1>4, <1>5, <1>7, <3>1, <3>3, <3>4, <3>5, <3>6
  <2>5. CASE Restore
    <3>1. writer.phase = "restore" /\ k \in 1 .. Last /\ k - 1 \in 0 .. Last
      BY <2>5, Counts DEF Restore
    <3>2. <<"restore", "undo">> \in Steps
      BY DEF Steps
    <3>3. Landing("undo", k - 1)
      BY <3>1, <3>2, Counts DEF Landing, Phases
    <3>4. \/ Put(k, Before(k)) /\ Moves("undo", k - 1)
          \/ Halts(k - 1, 0) /\ UNCHANGED world
      BY <2>5 DEF Restore
    <3> QED
      BY <1>3, <1>4, <1>5, <1>7, <3>1, <3>3, <3>4
  <2>6. CASE Undone
    <3>1. writer.phase = "undo" /\ (Moves("dead", 0) \/ Moves("seal", 1)) /\ UNCHANGED world
      BY <2>6 DEF Undone
    <3>2. <<"undo", "dead">> \in Steps /\ <<"undo", "seal">> \in Steps
      BY DEF Steps
    <3>3. Landing("dead", 0) /\ Landing("seal", 1)
      BY <3>1, <3>2 DEF Landing, Phases
    <3> QED
      BY <1>3, <1>5, <3>1, <3>3
  <2>7. CASE /\ writer.phase = "apply" /\ UNCHANGED world
             /\ \E last \in {k - 1, k} : last <= Last /\ Moves("undo", last)
    <3>1. PICK last \in {k - 1, k} : last <= Last /\ Moves("undo", last)
      BY <2>7
    <3>2. last \in 0 .. Last /\ last \in Nat
      BY <2>7, <3>1, Counts
    <3>3. Landing("undo", last)
      BY <2>7, <3>2 DEF Landing, Phases, Steps
    <3> QED
      BY <1>3, <1>5, <2>7, <3>1, <3>3
  <2>8. CASE writer.phase = "place" /\ PutBack(k, Before(k)) /\ Moves("undo", k)
    <3>1. k \in 1 .. Last /\ k \in 0 .. Last /\ k \in Nat
      BY <2>8, Counts
    <3>2. Landing("undo", k)
      BY <2>8, <3>1 DEF Landing, Phases, Steps
    <3> QED
      BY <1>3, <1>6, <2>8, <3>1, <3>2
  <2>9. CASE /\ writer.phase = "undo" /\ UNCHANGED world
             /\ \E last \in {k - 1, k} : last >= 0 /\ Halts(last, 1)
    <3>1. PICK last \in {k - 1, k} : last >= 0 /\ Halts(last, 1)
      BY <2>9
    <3>2. last \in 0 .. Last
      BY <2>9, <3>1, Counts
    <3> QED
      BY <1>5, <1>7, <2>9, <3>1, <3>2
  <2>10. CASE writer.phase = "restore" /\ PutBack(k, After(k)) /\ Halts(k - 1, 1)
    <3>1. k \in 1 .. Last /\ k - 1 \in 0 .. Last
      BY <2>10, Counts
    <3> QED
      BY <1>6, <1>7, <2>10, <3>1
  <2>11. CASE Fail /\ writer.phase # "journal"
    BY <2>7, <2>8, <2>9, <2>10, <2>11 DEF Fail
  <2> QED
    BY <2>1, <2>2, <2>3, <2>4, <2>5, <2>6, <2>11 DEF Midway
<1> QED
  BY <1>1, <1>2, <1>8 DEF Turning, Putting

LEMMA MidwayGoes ==
  ASSUME TypeOK, Midway
  PROVE  /\ writer' \in Writers
         /\ file' \in [T -> Files] /\ manifest' \in [T -> Manifests]
         /\ \E p \in Phases, n \in Nat : Goes(p, n) /\ Landing(p, n)
<1>1. file' \in [T -> Files] /\ manifest' \in [T -> Manifests]
  BY MidwayIs, OperatedTyped DEF TypeOK
<1>2. ASSUME NEW p \in Phases, NEW n \in Nat, Moves(p, n), Landing(p, n)
      PROVE  Goes(p, n) /\ writer' \in Writers
  BY <1>2, Moving
<1>3. ASSUME NEW n \in 0 .. Last, NEW more \in {0, 1}, writer.phase \in {"undo", "restore"},
             Halts(n, more)
      PROVE  /\ writer' \in Writers
             /\ \E p \in Phases : Goes(p, n) /\ Landing(p, n)
  <2>1. n \in Nat
    BY Numbers
  <2>2. writer' \in Writers /\ \E p \in {"dead", "undo"} : Goes(p, n)
    BY <1>3, <2>1, Halting
  <2>3. \A p \in {"dead", "undo"} : p \in Phases /\ Landing(p, n)
    BY <1>3, <2>1 DEF Landing, Steps, Phases
  <2> QED
    BY <2>2, <2>3
<1>4. \A n \in 0 .. Last : n \in Nat
  BY Numbers
<1> QED
  BY <1>1, <1>2, <1>3, <1>4, MidwayIs

\* The transaction as it was planned does not change on the way.
LEMMA GoesKeeps ==
  ASSUME NEW p, NEW n, Goes(p, n)
  PROVE  /\ \A k : Before(k)' = Before(k) /\ After(k)' = After(k)
         /\ UNCHANGED <<file, manifest>> => \A k : Now(k)' = Now(k)
         /\ UNCHANGED journal => \A t : (Held(t)' <=> Held(t)) /\ (Open(t)' <=> Open(t))
<1>1. \A k : Before(k)' = Before(k) /\ After(k)' = After(k)
  BY DEF Goes, Before, After
<1>2. UNCHANGED <<file, manifest>> => \A k : Now(k)' = Now(k)
  BY DEF Now
<1>3. UNCHANGED journal => \A t : (Held(t)' <=> Held(t)) /\ (Open(t)' <=> Open(t))
  BY DEF Goes, Held, Open
<1> QED
  BY <1>1, <1>2, <1>3

\* What the other process and the user may do.
LEMMA OthersAre ==
  ASSUME Others
  PROVE  \/ \E o \in {"install", "uninstall"} : Plan(o)
         \/ Journal \/ Detach \/ Attach \/ Midway \/ (Fail /\ writer.phase = "journal")
         \/ Seal \/ Clean \/ Crash \/ Recover \/ Edit
BY DEF Others, Midway

\* Nothing is under way at first.
LEMMA TypeInit == Init => TypeOK
<1> SUFFICES ASSUME Init PROVE TypeOK
  OBVIOUS
<1>1. Found \subseteq [T -> Files]
  BY DryRunAssumption DEF Files, T
<1>2. file \in [T -> Files] /\ manifest \in [T -> Manifests]
  BY <1>1 DEF Init
<1>3. journal \in [T -> Journals] /\ away = 0 /\ litter = 0
  BY DEF Init, NoJournal, Journals
<1>4. writer \in Writers /\ writer.phase = "idle"
  BY <1>2 DEF Init, Phases, Writers
<1>5. edits \in Watches
  BY DEF Init, Watches
<1>6. request \in {"install", "uninstall"}
  BY DEF Init
<1> QED
  BY <1>2, <1>3, <1>4, <1>5, <1>6 DEF TypeOK

\* The transaction goes where there is a next operation or home.
LEMMA TypeGoes ==
  ASSUME TypeOK, NEW p, NEW n, Goes(p, n), writer' \in Writers, UNCHANGED <<edits, request>>,
         file' \in [T -> Files], manifest' \in [T -> Manifests], journal' \in [T -> Journals],
         away' \in {0} \cup T, litter' \in {0} \cup T,
         p \in {"journal", "seal", "clean"} => n \in T,
         p = "apply" => n \in 1 .. Last + 1, p \in {"place", "restore"} => n \in 1 .. Last,
         p = "undo" => n \in 0 .. Last
  PROVE  TypeOK'
<1>1. writer'.phase = p /\ writer'.next = n /\ (Last + 1)' = Last + 1 /\ Last' = Last
  BY DEF Goes, Last
<1>2. edits' \in Watches /\ request' \in {"install", "uninstall"}
  BY DEF TypeOK
<1> QED
  BY <1>1, <1>2 DEF TypeOK

\* The steps of the other process and the user keep the types.
LEMMA TypeOthers == TypeOK /\ Others => TypeOK'
<1> SUFFICES ASSUME TypeOK, Others PROVE TypeOK'
  OBVIOUS
<1>n. /\ Targets \in Nat /\ Targets > 0 /\ Last = 2 * Targets /\ Last \in Nat /\ 1 \in T /\ 1 \in Nat
      /\ \A t \in T : t \in Nat /\ t <= Targets /\ (t # Targets => t + 1 \in T /\ t + 1 \in Nat)
      /\ 1 \in 1 .. Last + 1 /\ Last \in 0 .. Last
  BY Numbers DEF T
<1>t. /\ file \in [T -> Files] /\ manifest \in [T -> Manifests] /\ journal \in [T -> Journals]
      /\ away \in {0} \cup T /\ litter \in {0} \cup T /\ writer \in Writers /\ edits \in Watches
      /\ writer.phase \in {"journal", "seal", "clean"} => writer.next \in T
      /\ request \in {"install", "uninstall"}
  BY DEF TypeOK
<1>w. \A j \in Journals, t \in T : [journal EXCEPT ![t] = j] \in [T -> Journals]
  BY <1>t
<1>1. ASSUME NEW o \in {"install", "uninstall"}, Plan(o) PROVE TypeOK'
  <2>1. UNCHANGED <<world, edits, request>>
    BY <1>1 DEF Plan, Writes, Beside, reader
  <2>2. writer' \in Writers /\ writer'.phase = "journal" /\ writer'.next = 1
    <3>1. writer' = [writer EXCEPT !.phase = "journal", !.tx = @ + 1, !.next = 1,
                      !.operation = o, !.stuck = FALSE, !.recovers = FALSE,
                      !.files = file, !.manifests = manifest]
      BY <1>1 DEF Plan
    <3>2. "journal" \in Phases /\ 1 \in Nat /\ writer.tx + 1 \in Nat
      BY <1>t DEF Phases, Writers
    <3> QED
      BY <1>t, <3>1, <3>2 DEF Writers
  <2> QED
    BY <1>n, <1>t, <2>1, <2>2 DEF TypeOK, world
<1>2. CASE Journal
  <2>1. UNCHANGED <<file, manifest, edits, request, away, litter>> /\ writer.phase = "journal"
    BY <1>2 DEF Journal, Writes, Beside, reader
  <2>2. journal' \in [T -> Journals]
    <3>1. [tx |-> writer.tx, sealed |-> FALSE] \in Journals
      BY <1>t DEF Journals, Writers
    <3> QED
      BY <1>2, <1>t, <1>w, <2>1, <3>1 DEF Journal
  <2>3. CASE writer.next = Targets
    <3>1. Moves("apply", 1)
      BY <1>2, <2>3 DEF Journal
    <3>2. Goes("apply", 1) /\ writer' \in Writers
      BY <1>n, <3>1, Moving DEF Phases
    <3> QED
      BY <1>n, <1>t, <2>1, <2>2, <3>2, TypeGoes
  <2>4. CASE writer.next # Targets
    <3>1. Moves("journal", writer.next + 1) /\ writer.next + 1 \in T /\ writer.next + 1 \in Nat
      BY <1>2, <1>n, <1>t, <2>1, <2>4 DEF Journal
    <3>2. Goes("journal", writer.next + 1) /\ writer' \in Writers
      BY <3>1, Moving DEF Phases
    <3> QED
      BY <1>t, <2>1, <2>2, <3>1, <3>2, TypeGoes
  <2> QED
    BY <2>3, <2>4
<1>3. CASE Detach \/ Attach
  <2>1. UNCHANGED <<file, manifest, journal, litter, writer, edits, request>> /\ away' \in {0} \cup T
    BY <1>3 DEF Detach, Attach, Beside, reader
  <2> QED
    BY <1>t, <2>1 DEF TypeOK
<1>4. CASE Midway
  <2>1. UNCHANGED <<journal, away, litter, edits, request>>
    BY <1>4, MidwayIs DEF reader
  <2>2. PICK p \in Phases, n \in Nat : Goes(p, n) /\ Landing(p, n)
    BY <1>4, MidwayGoes
  <2>3. p \notin {"journal", "clean"} /\ (p = "seal" => n \in T)
    BY <1>n, <2>2 DEF Landing, Steps
  <2>4. writer' \in Writers /\ file' \in [T -> Files] /\ manifest' \in [T -> Manifests]
    BY <1>4, MidwayGoes
  <2> QED
    BY <1>t, <2>1, <2>2, <2>3, <2>4, TypeGoes DEF Landing
<1>5. CASE Fail /\ writer.phase = "journal"
  <2>1. Moves("clean", 1) /\ UNCHANGED <<world, edits, request>>
    BY <1>5 DEF Fail, Writes, Beside, reader
  <2>2. Goes("clean", 1) /\ writer' \in Writers
    BY <1>n, <2>1, Moving DEF Phases
  <2> QED
    BY <1>n, <1>t, <2>1, <2>2, TypeGoes DEF world
<1>6. CASE Seal
  <2>1. UNCHANGED <<file, manifest, litter, edits, request>> /\ writer.phase = "seal" /\ away' = 0
    BY <1>6 DEF Seal, Beside, reader
  <2>2. journal' \in [T -> Journals]
    BY <1>6, <1>t DEF Seal, Journals
  <2>3. CASE writer.next = Targets
    <3>1. Moves("clean", 1)
      BY <1>6, <2>3 DEF Seal
    <3>2. Goes("clean", 1) /\ writer' \in Writers
      BY <1>n, <3>1, Moving DEF Phases
    <3> QED
      BY <1>n, <1>t, <2>1, <2>2, <3>2, TypeGoes
  <2>4. CASE writer.next # Targets
    <3>1. Moves("seal", writer.next + 1) /\ writer.next + 1 \in T /\ writer.next + 1 \in Nat
      BY <1>6, <1>n, <1>t, <2>1, <2>4 DEF Seal
    <3>2. Goes("seal", writer.next + 1) /\ writer' \in Writers
      BY <3>1, Moving DEF Phases
    <3> QED
      BY <1>t, <2>1, <2>2, <3>1, <3>2, TypeGoes
  <2> QED
    BY <2>3, <2>4
<1>7. CASE Clean
  <2>1. UNCHANGED <<file, manifest, away, litter, edits, request>> /\ writer.phase = "clean"
    BY <1>7 DEF Clean, Writes, Beside, reader
  <2>2. journal' \in [T -> Journals]
    BY <1>7, <1>t, <1>w, <2>1 DEF Clean, Journals, NoJournal
  <2>3. CASE writer.next = Targets
    <3>1. Moves("idle", 1)
      BY <1>7, <2>3 DEF Clean
    <3>2. Goes("idle", 1) /\ writer' \in Writers
      BY <1>n, <3>1, Moving DEF Phases
    <3> QED
      BY <1>n, <1>t, <2>1, <2>2, <3>2, TypeGoes
  <2>4. CASE writer.next # Targets
    <3>1. Moves("clean", writer.next + 1) /\ writer.next + 1 \in T /\ writer.next + 1 \in Nat
      BY <1>7, <1>n, <1>t, <2>1, <2>4 DEF Clean
    <3>2. Goes("clean", writer.next + 1) /\ writer' \in Writers
      BY <3>1, Moving DEF Phases
    <3> QED
      BY <1>t, <2>1, <2>2, <3>1, <3>2, TypeGoes
  <2> QED
    BY <2>3, <2>4
<1>8. CASE Crash
  <2>1. UNCHANGED <<file, manifest, journal, away, edits, request>> /\ litter' \in {0} \cup T
    BY <1>8, <1>t DEF Crash, Beside, reader
  <2> QED
    BY <1>8, <1>t, <2>1, Crashing, TypeGoes
<1>9. CASE Recover
  <2>1. UNCHANGED <<world, edits, request>>
    BY <1>9 DEF Recover, Writes, Beside, reader
  <2>2. Resumes("clean", 1) \/ Resumes("seal", 1) \/ Resumes("undo", Last)
    BY <1>9 DEF Recover
  <2>3. PICK p \in {"clean", "seal", "undo"}, n \in Nat :
          Resumes(p, n) /\ (p # "undo" => n = 1) /\ (p = "undo" => n = Last)
    BY <1>n, <2>2
  <2>4. Goes(p, n) /\ writer' \in Writers
    BY <2>3, Resuming DEF Phases
  <2> QED
    BY <1>n, <1>t, <2>1, <2>3, <2>4, TypeGoes DEF world
<1>10. CASE Edit
  <2>1. UNCHANGED <<manifest, journal, away, litter, writer, request>>
    BY <1>10 DEF Edit, reader
  <2>2. PICK t \in T, f \in Edited :
          /\ file' = [file EXCEPT ![t] = f]
          /\ edits' = [edits EXCEPT !.count = @ + 1, !.files = @ \cup {t},
                                    !.twice = @ \/ t \in edits.files]
    BY <1>10 DEF Edit
  <2>3. f \in Files
    BY DryRunAssumption DEF Files
  <2>4. edits' \in Watches
    <3>1. /\ edits.count + 1 \in Nat /\ edits.files \cup {t} \in SUBSET T
          /\ (edits.twice \/ t \in edits.files) \in BOOLEAN
      BY <1>t DEF Watches
    <3> QED
      BY <1>t, <2>2, <3>1 DEF Watches
  <2> QED
    BY <1>t, <2>1, <2>2, <2>3, <2>4 DEF TypeOK
<1> QED
  BY <1>1, <1>2, <1>3, <1>4, <1>5, <1>6, <1>7, <1>8, <1>9, <1>10, OthersAre

-----------------------------------------------------------------------------
(* Journals stay as the program says, whatever the user edits.              *)

\* A home has a journal, or it has none, and then it has no transaction.
LEMMA HeldIsThere ==
  ASSUME TypeOK, JournalInv, NEW t \in T
  PROVE  /\ Held(t) <=> journal[t] # NoJournal
         /\ journal[t].sealed => journal[t] # NoJournal
BY DEF JournalInv, Held, NoJournal

\* There are no journals at first.
LEMMA JournalInit == Init => JournalInv
BY DEF Init, JournalInv, Journaled, Decided, NoJournal

\* From the first operation to the last every home has its journal, and it is open.
LEMMA MidwayOpen ==
  ASSUME JournalInv, writer.phase \in {"apply", "place", "undo", "restore"}
  PROVE  writer.tx > 0 /\ \A t \in T : Open(t)
BY DEF JournalInv, Journaled

LEMMA JournalSteps ==
  ASSUME TypeOK, JournalInv, Others
  PROVE  JournalInv'
<1>a. \A t \in T : t \in Nat /\ t >= 1 /\ t <= Targets /\ ~(t < 1)
  BY Numbers
<1>b. /\ writer.tx \in Nat /\ writer.next \in Nat /\ writer \in Writers
      /\ journal \in [T -> Journals]
      /\ writer.phase \in {"journal", "seal", "clean"} => writer.next \in T
  BY DEF TypeOK, Writers
<1>0. /\ \A t \in T : t \in Nat /\ t >= 1 /\ t <= Targets /\ ~(t < 1)
      /\ writer.tx \in Nat /\ writer.next \in Nat /\ writer \in Writers
      /\ journal \in [T -> Journals]
      /\ writer.phase \in {"journal", "seal", "clean"} => writer.next \in T
  BY <1>a, <1>b
<1>g. ASSUME NEW p, NEW n, Goes(p, n)
      PROVE  writer'.phase = p /\ writer'.next = n /\ writer'.tx = writer.tx
  BY <1>g DEF Goes
<1>w. ASSUME NEW p, NEW n, Goes(p, n), UNCHANGED journal, writer.tx > 0,
             \A t \in T : Journaled(t)' /\ Decided(t)'
      PROVE  JournalInv'
  BY <1>w, GoesKeeps DEF JournalInv, Goes
<1>o. ASSUME \A u \in T : Open(u), writer.tx > 0, UNCHANGED journal, NEW n,
             NEW p \in {"apply", "place", "undo", "restore", "seal", "dead"}, Goes(p, n),
             p = "seal" => n = 1
      PROVE  JournalInv'
  <2>1. \A u \in T : Open(u)' /\ ~journal'[u].sealed
    BY <1>o, GoesKeeps DEF Open
  <2>2. \A u \in T : Journaled(u)'
    BY <1>0, <1>g, <1>o, <2>1 DEF Journaled, Open
  <2> QED
    BY <1>o, <1>w, <2>1, <2>2 DEF Decided
<1>1. ASSUME NEW o \in {"install", "uninstall"}, Plan(o) PROVE JournalInv'
  <2>1. UNCHANGED journal /\ Pending(journal) = {}
    BY <1>1 DEF Plan, world
  <2>2. writer'.phase = "journal" /\ writer'.tx = writer.tx + 1 /\ writer'.next = 1
    BY <1>0, <1>1 DEF Plan, Writers
  <2>3. \A t \in T : journal'[t] = NoJournal
    BY <2>1 DEF Pending
  <2> QED
    BY <1>0, <2>2, <2>3 DEF JournalInv, Journaled, Decided, NoJournal
<1>2. CASE Journal
  <2>1. /\ writer.phase = "journal" /\ writer.next \in T
        /\ journal' = [journal EXCEPT ![writer.next] = [tx |-> writer.tx, sealed |-> FALSE]]
    BY <1>0, <1>2 DEF Journal
  <2>2. PICK p \in {"apply", "journal"}, n \in Nat :
          /\ Moves(p, n)
          /\ writer.next = Targets => p = "apply" /\ n = 1
          /\ writer.next # Targets => p = "journal" /\ n = writer.next + 1
    BY <1>0, <1>2 DEF Journal
  <2>3. writer'.phase = p /\ writer'.next = n /\ writer'.tx = writer.tx /\ writer.tx > 0
    BY <1>g, <2>1, <2>2, Moving DEF JournalInv
  <2>4. /\ journal'[writer.next].tx = writer.tx /\ ~journal'[writer.next].sealed
        /\ \A t \in T \ {writer.next} : journal'[t] = journal[t]
    BY <1>0, <2>1
  <2>5. \A t \in T : /\ t <= writer.next => Open(t)'
                     /\ t > writer.next => journal'[t] = NoJournal
    <3> SUFFICES ASSUME NEW t \in T
                 PROVE  /\ t <= writer.next => Open(t)'
                        /\ t > writer.next => journal'[t] = NoJournal
      OBVIOUS
    <3> QED
      BY <1>0, <2>1, <2>3, <2>4 DEF JournalInv, Journaled, Open, Held
  <2>6. \A t \in T : (t < writer.next + 1 <=> t <= writer.next)
                     /\ (t >= writer.next + 1 <=> t > writer.next)
    BY <1>0
  <2>7. \A t \in T : Journaled(t)'
    BY <1>0, <2>2, <2>3, <2>5, <2>6 DEF Journaled
  <2>8. \A t \in T : ~journal'[t].sealed /\ (journal'[t] # NoJournal => Held(t)')
    BY <1>0, <2>5 DEF Open, NoJournal
  <2> QED
    BY <2>3, <2>7, <2>8 DEF JournalInv, Decided
<1>3. CASE Detach \/ Attach
  BY <1>3 DEF Detach, Attach, JournalInv, Journaled, Decided, Held, Open
<1>4. CASE Midway
  <2>1. UNCHANGED journal
    BY <1>4, MidwayIs
  <2>2. PICK p \in Phases, n \in Nat : Goes(p, n) /\ Landing(p, n)
    BY <1>4, MidwayGoes
  <2>3. /\ writer.phase \in {"apply", "place", "undo", "restore"} /\ (p = "seal" => n = 1)
        /\ p \in {"apply", "place", "undo", "restore", "seal", "dead"}
    BY <2>2 DEF Landing, Steps
  <2> QED
    BY <1>o, <2>1, <2>2, <2>3, MidwayOpen
<1>5. CASE Fail /\ writer.phase = "journal"
  <2>1. UNCHANGED journal /\ writer.tx > 0 /\ Moves("clean", 1)
    BY <1>5 DEF Fail, world, JournalInv
  <2>2. Goes("clean", 1)
    BY <2>1, Moving
  <2>3. \A t \in T : ~journal[t].sealed
    BY <1>0, <1>5 DEF JournalInv, Decided
  <2>4. \A t \in T : Journaled(t)'
    BY <1>0, <1>g, <2>2 DEF Journaled
  <2> QED
    BY <1>w, <2>1, <2>2, <2>3, <2>4 DEF Decided
<1>6. CASE Seal
  <2>1. /\ writer.phase = "seal" /\ writer.next \in T /\ writer.tx > 0
        /\ journal' = [journal EXCEPT ![writer.next].sealed = TRUE]
    BY <1>0, <1>6 DEF Seal, JournalInv
  <2>2. PICK p \in {"seal", "clean"}, n \in Nat :
          /\ Moves(p, n)
          /\ writer.next = Targets => p = "clean" /\ n = 1
          /\ writer.next # Targets => p = "seal" /\ n = writer.next + 1
    BY <1>0, <1>6 DEF Seal
  <2>3. writer'.phase = p /\ writer'.next = n /\ writer'.tx = writer.tx
    BY <1>g, <2>2, Moving
  <2>4. \A t \in T : /\ journal'[t].tx = journal[t].tx
                     /\ journal'[t].sealed <=> journal[t].sealed \/ t = writer.next
    BY <1>0, <2>1 DEF Journals
  <2>5. \A t \in T : Held(t)' /\ journal'[t] # NoJournal
    BY <2>1, <2>3, <2>4 DEF JournalInv, Journaled, Held, NoJournal
  <2>6. \A t \in T : t <= writer.next => journal'[t].sealed
    <3> SUFFICES ASSUME NEW t \in T, t <= writer.next PROVE journal'[t].sealed
      OBVIOUS
    <3>1. t = writer.next \/ t < writer.next
      BY <1>0
    <3> QED
      BY <2>1, <2>4, <3>1 DEF JournalInv, Journaled
  <2>7. \A t \in T : Journaled(t)'
    <3> SUFFICES ASSUME NEW t \in T PROVE Journaled(t)'
      OBVIOUS
    <3>1. t < writer.next + 1 => t <= writer.next
      BY <1>0
    <3>2. ~(t < 1)
      BY <1>0
    <3> QED
      BY <2>2, <2>3, <2>5, <2>6, <3>1, <3>2 DEF Journaled
  <2>8. ASSUME NEW t \in T, journal'[t].sealed, NEW u \in T, u < t PROVE journal'[u].sealed
    <3>1. CASE t = writer.next
      BY <1>0, <2>6, <2>8, <3>1
    <3>2. CASE t # writer.next
      <4>1. journal[t].sealed
        BY <2>4, <2>8, <3>2
      <4>2. journal[u].sealed \/ journal[u] = NoJournal
        BY <2>8, <4>1 DEF JournalInv, Decided
      <4>3. Held(u)
        BY <2>1 DEF JournalInv, Journaled
      <4> QED
        BY <2>4, <4>2, <4>3, HeldIsThere
    <3> QED
      BY <3>1, <3>2
  <2>9. p = "clean" => \A u \in T : journal'[u].sealed
    BY <1>0, <2>2, <2>6
  <2>10. \A t \in T : Decided(t)'
    BY <2>3, <2>5, <2>8, <2>9 DEF Decided
  <2> QED
    BY <2>1, <2>3, <2>5, <2>7, <2>10 DEF JournalInv
<1>7. CASE Clean
  <2>1. /\ writer.phase = "clean" /\ writer.next \in T /\ writer.tx > 0
        /\ journal' = [journal EXCEPT ![writer.next] = NoJournal]
    BY <1>0, <1>7 DEF Clean, JournalInv
  <2>2. PICK p \in {"clean", "idle"}, n \in Nat :
          /\ Moves(p, n)
          /\ writer.next = Targets => p = "idle" /\ n = 1
          /\ writer.next # Targets => p = "clean" /\ n = writer.next + 1
    BY <1>0, <1>7 DEF Clean
  <2>3. writer'.phase = p /\ writer'.next = n /\ writer'.tx = writer.tx
    BY <1>g, <2>2, Moving
  <2>4. \A t \in T : journal'[t] = (IF t = writer.next THEN NoJournal ELSE journal[t])
    BY <1>0, <2>1
  <2>5. \A t \in T : t <= writer.next => journal'[t] = NoJournal
    <3> SUFFICES ASSUME NEW t \in T, t <= writer.next, t # writer.next
                 PROVE  journal'[t] = NoJournal
      BY <2>4
    <3>1. t < writer.next
      BY <1>0
    <3> QED
      BY <2>1, <2>4, <3>1 DEF JournalInv, Journaled
  <2>6. \A t \in T : Journaled(t)'
    <3> SUFFICES ASSUME NEW t \in T PROVE Journaled(t)'
      OBVIOUS
    <3>1. t < writer.next + 1 => t <= writer.next
      BY <1>0
    <3> QED
      BY <1>0, <2>2, <2>3, <2>5, <3>1 DEF Journaled
  <2>7. ASSUME NEW t \in T, journal'[t].sealed
        PROVE  p = "clean" /\ \A u \in T : journal'[u].sealed \/ journal'[u] = NoJournal
    <3>1. journal[t].sealed /\ t # writer.next
      BY <2>4, <2>7 DEF NoJournal
    <3>2. \A u \in T : journal[u].sealed \/ journal[u] = NoJournal
      BY <2>1, <3>1 DEF JournalInv, Decided
    <3>3. journal'[t] # NoJournal
      BY <2>7 DEF NoJournal
    <3> QED
      BY <1>0, <2>2, <2>4, <2>5, <3>2, <3>3
  <2>8. \A t \in T : Decided(t)'
    BY <2>3, <2>7 DEF Decided
  <2>9. \A t \in T : journal'[t] # NoJournal => Held(t)'
    BY <2>3, <2>4 DEF JournalInv, Held
  <2> QED
    BY <2>1, <2>3, <2>6, <2>8, <2>9 DEF JournalInv
<1>8. CASE Crash
  <2>1. UNCHANGED journal /\ writer.phase \notin {"idle", "dead"} /\ writer'.phase = "dead"
        /\ writer'.tx = writer.tx
    BY <1>8, <1>g, Crashing DEF Crash
  <2> QED
    BY <2>1 DEF JournalInv, Journaled, Decided, Held
<1>9. CASE Recover
  <2>1. UNCHANGED journal /\ writer.phase = "dead" /\ writer.tx > 0 /\ ~Torn(journal)
    BY <1>9 DEF Recover, world, JournalInv
  <2>2. CASE \A t \in Pending(journal) : journal[t].sealed
    <3>1. Goes("clean", 1)
      BY <1>9, <2>2, Resuming DEF Recover
    <3>2. \A t \in T : Journaled(t)'
      BY <1>0, <1>g, <3>1 DEF Journaled
    <3>3. \A t \in T : Decided(t)'
      BY <1>g, <2>1, <2>2, <3>1 DEF JournalInv, Decided, Pending
    <3> QED
      BY <1>w, <2>1, <3>1, <3>2, <3>3
  <2>3. CASE ~\A t \in Pending(journal) : journal[t].sealed
    <3>1. Pending(journal) = T
      BY <2>1, <2>3 DEF Torn
    <3>2. \A t \in T : Held(t) /\ journal[t] # NoJournal
      BY <3>1 DEF Pending, JournalInv
    <3>3. CASE \E t \in T : journal[t].sealed
      <4>1. Goes("seal", 1)
        BY <1>9, <2>3, <3>3, Resuming DEF Recover
      <4>2. \A t \in T : Held(t)'
        BY <2>1, <3>2, <4>1, GoesKeeps
      <4>3. \A t \in T : Journaled(t)'
        BY <1>0, <1>g, <4>1, <4>2 DEF Journaled
      <4>4. \A t \in T : Decided(t)'
        BY <1>g, <2>1, <3>2, <4>1 DEF JournalInv, Decided
      <4> QED
        BY <1>w, <2>1, <4>1, <4>3, <4>4
    <3>4. CASE ~\E t \in T : journal[t].sealed
      <4>1. Goes("undo", Last)
        BY <1>9, <2>3, <3>4, Resuming DEF Recover
      <4> QED
        BY <1>o, <2>1, <3>2, <3>4, <4>1 DEF Open
    <3> QED
      BY <3>3, <3>4
  <2> QED
    BY <2>2, <2>3
<1>10. CASE Edit
  BY <1>10 DEF Edit, JournalInv, Journaled, Decided, Held, Open
<1> QED
  BY <1>1, <1>2, <1>3, <1>4, <1>5, <1>6, <1>7, <1>8, <1>9, <1>10, OthersAre

-----------------------------------------------------------------------------
(* The transaction does and undoes its operations in order.                 *)

\* Nothing is under way at first, and a home has the file that its manifest claims.
LEMMA WriterInit == Init => WriterInv
BY DEF Init, WriterInv, Honest

\* An operation is done: what is before it is done too, what is behind it is not.
LEMMA Does ==
  ASSUME TypeOK, WriterInv, writer.phase \in {"apply", "place"}, NEW k \in 1 .. Last,
         k = writer.next, Goes("apply", k + 1),
         Now(k)' = After(k), \A j \in 1 .. Last : j # k => Now(j)' = Now(j)
  PROVE  Doing'
<1>1. k \in Nat /\ Last \in Nat /\ Last' = Last /\ Doing
      /\ writer'.phase = "apply" /\ writer'.next = k + 1
      /\ \A j \in 1 .. Last : j \in Nat
  BY Numbers DEF WriterInv, Last, Goes
<1>2. ASSUME NEW j \in 1 .. Last
      PROVE  (j < k + 1 => Now(j)' = After(j)) /\ (j >= k + 1 => Now(j)' = Before(j))
  <2>1. CASE j = k
    BY <1>1, <2>1
  <2>2. CASE j # k
    <3>1. (j < k + 1 => j < writer.next) /\ (j >= k + 1 => j > writer.next)
      BY <1>1, <2>2
    <3> QED
      BY <1>1, <2>2, <3>1 DEF Doing
  <2> QED
    BY <2>1, <2>2
<1>3. \A j \in 1 .. Last : (j > k + 1 => j >= k + 1) /\ (k + 1 <= Last => k + 1 \in 1 .. Last)
  BY <1>1
<1>4. k + 1 >= k + 1
  BY <1>1
<1> QED
  BY <1>1, <1>2, <1>3, <1>4, GoesKeeps DEF Doing

\* An operation is undone, or was never done: what is behind it is undone too.
LEMMA Undoes ==
  ASSUME TypeOK, NEW k \in 1 .. Last, Goes("undo", k - 1),
         Now(k)' = Before(k), \A j \in 1 .. Last : j # k => Now(j)' = Now(j),
         \A j \in 1 .. Last : (j < k => Within(j)) /\ (j > k => Now(j) = Before(j))
  PROVE  Undoing'
<1>1. k \in Nat /\ Last \in Nat /\ Last' = Last /\ writer'.next = k - 1
      /\ \A j \in 1 .. Last : j \in Nat
  BY Numbers DEF Last, Goes
<1>2. ASSUME NEW j \in 1 .. Last
      PROVE  (j <= k - 1 => Within(j)') /\ (j > k - 1 => Now(j)' = Before(j))
  <2>1. CASE j = k
    BY <1>1, <2>1
  <2>2. CASE j # k
    <3>1. (j <= k - 1 => j < k) /\ (j > k - 1 => j > k)
      BY <1>1, <2>2
    <3> QED
      BY <2>2, <3>1, GoesKeeps DEF Within
  <2> QED
    BY <2>1, <2>2
<1>3. \A j \in 1 .. Last : j < k - 1 => j <= k - 1
  BY <1>1
<1>4. k - 1 > 0 => k - 1 \in 1 .. Last /\ k - 1 <= k - 1
  BY <1>1
<1> QED
  BY <1>1, <1>2, <1>3, <1>4, GoesKeeps DEF Undoing

\* A transaction that is stopped half way has its journals.
LEMMA Stopped ==
  ASSUME TypeOK, JournalInv, WriterInv, Midway, NEW n, Goes("dead", n)
  PROVE  WriterInv'
<1>1. UNCHANGED journal /\ writer.phase \in {"apply", "place", "undo", "restore"}
  BY MidwayIs DEF Midway, Apply, Place, Applied, Undo, Restore, Undone, Fail
<1>2. \A t \in T : Open(t)'
  BY <1>1, MidwayOpen, GoesKeeps
<1> QED
  BY <1>2 DEF WriterInv, Goes

\* A transaction that could not undo an operation goes on with the others, or is given up.
LEMMA Halted ==
  ASSUME TypeOK, JournalInv, WriterInv, Midway, NEW n \in Nat, NEW more \in {0, 1}, Halts(n, more)
  PROVE  WriterInv'
<1>1. Goes("dead", n) \/ (Goes("undo", n) /\ writer'.stuck)
  BY Halting
<1>2. ASSUME Goes("undo", n), writer'.stuck PROVE WriterInv'
  BY <1>2 DEF WriterInv, Goes
<1> QED
  BY <1>1, <1>2, Stopped

LEMMA WriterMidway ==
  ASSUME TypeOK, JournalInv, WriterInv, Midway, edits.count = 0
  PROVE  WriterInv'
<1>k. PICK k : k = writer.next
  OBVIOUS
<1> USE <1>k
<1>0. /\ k \in Nat /\ Last \in Nat /\ Last' = Last
      /\ \A j \in 1 .. Last : j \in Nat
      /\ 0 \in 0 .. Last
  BY Numbers, Counts DEF Last
<1>m. \A t \in T : writer.manifests[t] = "claims" <=> writer.files[t] = "current"
  BY DEF WriterInv
<1>u. UNCHANGED world => UNCHANGED <<file, manifest>>
  BY DEF world
<1>a. ASSUME NEW p \in {"apply", "place"}, NEW n, Goes(p, n), Doing' PROVE WriterInv'
  BY <1>a, <1>m DEF WriterInv, Goes
<1>b. ASSUME NEW p \in {"undo", "restore"}, NEW n, Goes(p, n), Undoing' PROVE WriterInv'
  BY <1>b, <1>m DEF WriterInv, Goes
<1>c. ASSUME NEW n, Goes("seal", n), AllDone' \/ AllUndone' PROVE WriterInv'
  BY <1>c, <1>m DEF WriterInv, Goes
<1>d. ASSUME NEW p \in {"undo", "restore", "dead"}, NEW n, Moves(p, n), writer.stuck PROVE WriterInv'
  <2>1. Goes(p, n) /\ writer'.stuck
    BY <1>d, Moving
  <2>2. CASE p = "dead"
    BY <2>1, <2>2, Stopped
  <2>3. CASE p # "dead"
    BY <1>d, <1>m, <2>1, <2>3 DEF WriterInv, Goes
  <2> QED
    BY <2>2, <2>3
<1>e. ASSUME k \in 1 .. Last, NEW value, Put(k, value)
      PROVE  Now(k)' = value /\ \A j \in 1 .. Last : j # k => Now(j)' = Now(j)
  BY <1>e, PutIs
<1>f. ASSUME UNCHANGED <<file, manifest>> PROVE \A j \in 1 .. Last : Now(j)' = Now(j)
  BY <1>f DEF Now
\* What is behind the operation under way is as it was, what is before it is done.
<1>h. ASSUME writer.phase \in {"apply", "place"}
      PROVE  \A j \in 1 .. Last : (j < k => Now(j) = After(j) /\ Within(j))
                                  /\ (j > k => Now(j) = Before(j))
  BY <1>h DEF WriterInv, Doing, Within
<1>1. CASE Apply
  <2>1. writer.phase = "apply" /\ k \in 1 .. Last /\ Now(k) = Before(k)
    BY <1>1, Counts DEF Apply, WriterInv, Doing
  <2>2. CASE Before(k) = After(k) /\ Moves("apply", k + 1) /\ UNCHANGED world
    BY <1>a, <1>f, <1>u, <2>1, <2>2, Does, Moving
  <2>3. CASE Put(k, After(k)) /\ Moves("apply", k + 1)
    BY <1>a, <1>e, <2>1, <2>3, Does, Moving
  <2>4. CASE Put(k, "absent") /\ Moves("place", k)
    <3>1. Goes("place", k)
      BY <2>4, Moving
    <3>2. Now(k)' = "absent" /\ \A j \in 1 .. Last : j # k => Now(j)' = Now(j)
      BY <1>e, <2>1, <2>4
    <3>3. \A j \in 1 .. Last : (j < k => Now(j)' = After(j)) /\ (j > k => Now(j)' = Before(j))
      BY <1>0, <1>h, <2>1, <3>2
    <3>4. Doing'
      BY <1>0, <3>1, <3>2, <3>3, GoesKeeps DEF Doing, Goes
    <3> QED
      BY <1>a, <3>1, <3>4
  <2> QED
    BY <1>1, <2>1, <2>2, <2>3, <2>4 DEF Apply
<1>2. CASE Place
  <2>1. writer.phase = "place" /\ k \in 1 .. Last /\ Now(k) = "absent"
    BY <1>2, Counts DEF Place, WriterInv, Doing
  <2>2. Put(k, After(k)) /\ Moves("apply", k + 1)
    BY <1>2, <2>1 DEF Place
  <2> QED
    BY <1>a, <1>e, <2>1, <2>2, Does, Moving
<1>3. CASE Applied
  <2>1. writer.phase = "apply" /\ k = Last + 1 /\ Moves("seal", 1) /\ UNCHANGED world
    BY <1>3 DEF Applied
  <2>2. \A j \in 1 .. Last : j < k
    BY <1>0, <2>1
  <2>3. Goes("seal", 1)
    BY <2>1, Moving
  <2>4. AllDone'
    BY <1>0, <1>f, <1>h, <1>u, <2>1, <2>2, <2>3, GoesKeeps DEF AllDone
  <2> QED
    BY <1>c, <2>3, <2>4
<1>4. CASE Undo
  <2>1. writer.phase = "undo" /\ k \in 1 .. Last /\ k - 1 \in Nat
    BY <1>4, Counts DEF Undo
  <2>2. CASE Halts(k - 1, 0)
    BY <1>4, <2>1, <2>2, Halted DEF Midway
  <2>3. CASE writer.stuck
    <3>1. Moves("undo", k - 1) \/ Moves("restore", k) \/ Halts(k - 1, 0)
      BY <1>4 DEF Undo
    <3> QED
      BY <1>d, <2>2, <2>3, <3>1
  <2>4. CASE ~writer.stuck
    <3>0. /\ \A j \in 1 .. Last : (j < k => Within(j)) /\ (j > k => Now(j) = Before(j))
          /\ Within(k)
      BY <1>0, <2>1, <2>4 DEF WriterInv, Undoing
    <3>1. CASE Now(k) = Before(k) /\ Moves("undo", k - 1) /\ UNCHANGED world
      <4>1. Goes("undo", k - 1) /\ Now(k)' = Before(k) /\ \A j \in 1 .. Last : j # k => Now(j)' = Now(j)
        BY <1>f, <1>u, <2>1, <3>1, Moving
      <4> QED
        BY <1>b, <2>1, <3>0, <4>1, Undoes
    <3>2. CASE Put(k, Before(k)) /\ Moves("undo", k - 1)
      <4>1. Goes("undo", k - 1) /\ Now(k)' = Before(k) /\ \A j \in 1 .. Last : j # k => Now(j)' = Now(j)
        BY <1>e, <2>1, <3>2, Moving
      <4> QED
        BY <1>b, <2>1, <3>0, <4>1, Undoes
    <3>3. CASE Put(k, "absent") /\ Moves("restore", k)
      <4>1. Goes("restore", k)
        BY <3>3, Moving
      <4>2. \A j \in 1 .. Last : j # k => Now(j)' = Now(j)
        BY <1>e, <2>1, <3>3
      <4>3. \A j \in 1 .. Last : (j < k => Within(j)') /\ (j > k => Now(j)' = Before(j))
        BY <1>0, <3>0, <4>1, <4>2, GoesKeeps DEF Within
      <4>4. Undoing'
        BY <1>0, <4>1, <4>3, GoesKeeps DEF Undoing, Goes
      <4> QED
        BY <1>b, <4>1, <4>4
    <3>4. \/ Now(k) = Before(k) /\ Moves("undo", k - 1) /\ UNCHANGED world
          \/ Put(k, Before(k)) /\ Moves("undo", k - 1)
          \/ Put(k, "absent") /\ Moves("restore", k)
          \/ Halts(k - 1, 0)
      BY <1>4 DEF Undo
    <3> QED
      BY <2>2, <3>1, <3>2, <3>3, <3>4
  <2> QED
    BY <2>3, <2>4
<1>5. CASE Restore
  <2>1. writer.phase = "restore" /\ k \in 1 .. Last /\ k - 1 \in Nat
    BY <1>5, Counts DEF Restore
  <2>2. CASE Halts(k - 1, 0)
    BY <1>5, <2>1, <2>2, Halted DEF Midway
  <2>3. CASE Put(k, Before(k)) /\ Moves("undo", k - 1)
    <3>1. CASE writer.stuck
      BY <1>d, <2>3, <3>1
    <3>2. CASE ~writer.stuck
      <4>0. \A j \in 1 .. Last : (j < k => Within(j)) /\ (j > k => Now(j) = Before(j))
        BY <1>0, <2>1, <3>2 DEF WriterInv, Undoing
      <4>1. Goes("undo", k - 1) /\ Now(k)' = Before(k) /\ \A j \in 1 .. Last : j # k => Now(j)' = Now(j)
        BY <1>e, <2>1, <2>3, Moving
      <4> QED
        BY <1>b, <2>1, <4>0, <4>1, Undoes
    <3> QED
      BY <3>1, <3>2
  <2> QED
    BY <1>5, <2>2, <2>3 DEF Restore
<1>6. CASE Undone
  <2>1. writer.phase = "undo" /\ k = 0 /\ UNCHANGED world
    BY <1>6 DEF Undone
  <2>2. CASE writer.stuck
    BY <1>6, <1>d, <2>2 DEF Undone
  <2>3. CASE ~writer.stuck
    <3>1. Goes("seal", 1)
      BY <1>6, <2>3, Moving DEF Undone
    <3>2. \A j \in 1 .. Last : j > k
      BY <1>0, <2>1
    <3>3. \A j \in 1 .. Last : Now(j) = Before(j)
      BY <1>0, <2>1, <2>3, <3>2 DEF WriterInv, Undoing
    <3>4. AllUndone'
      BY <1>0, <1>f, <1>u, <2>1, <3>1, <3>3, GoesKeeps DEF AllUndone
    <3> QED
      BY <1>c, <3>1, <3>4
  <2> QED
    BY <2>2, <2>3
<1>7. CASE Fail /\ writer.phase = "apply"
  <2>1. PICK last \in {k - 1, k} : last <= Last /\ Moves("undo", last) /\ UNCHANGED world
    BY <1>7 DEF Fail
  <2>2. Goes("undo", last) /\ \A j \in 1 .. Last : Now(j)' = Now(j)
    BY <1>f, <1>u, <2>1, Moving
  <2>3. k \in 1 .. Last + 1
    BY <1>7, Counts
  <2>4. ASSUME NEW j \in 1 .. Last
        PROVE  (j <= last => Within(j)) /\ (j > last => Now(j) = Before(j))
    <3>1. CASE j = k
      BY <1>7, <1>0, <2>1, <3>1 DEF WriterInv, Doing, Within
    <3>2. CASE j # k
      <4>1. (j <= last => j < k) /\ (j > last => j > k)
        BY <1>0, <2>1, <3>2
      <4> QED
        BY <1>7, <1>h, <4>1
    <3> QED
      BY <3>1, <3>2
  <2>5. last > 0 => last \in 1 .. Last /\ last <= last
    BY <1>0, <2>1
  <2>6. \A j \in 1 .. Last : j < last => j <= last
    BY <1>0, <2>1
  <2>7. \A j \in 1 .. Last : (j <= last => Within(j)') /\ (j > last => Now(j)' = Before(j))
    BY <2>2, <2>4, GoesKeeps DEF Within
  <2>8. Undoing'
    BY <1>0, <2>2, <2>5, <2>6, <2>7, GoesKeeps DEF Undoing, Goes
  <2> QED
    BY <1>b, <2>2, <2>8
<1>8. CASE Fail /\ writer.phase = "place"
  <2>1. k \in 1 .. Last /\ Now(k) = "absent" /\ k <= Last
    BY <1>8, <1>0, Counts DEF WriterInv, Doing
  <2>2. Put(k, Before(k)) /\ Moves("undo", k)
    BY <1>8, <2>1 DEF Fail, PutBack
  <2>3. Goes("undo", k) /\ Now(k)' = Before(k) /\ \A j \in 1 .. Last : j # k => Now(j)' = Now(j)
    BY <1>e, <2>1, <2>2, Moving
  <2>4. \A j \in 1 .. Last : (j < k => Within(j)') /\ (j > k => Now(j)' = Before(j))
    BY <1>0, <1>8, <1>h, <2>3, GoesKeeps DEF Within
  <2>5. Now(k)' = Before(k)'
    BY <2>3, GoesKeeps
  <2>6. Undoing'
    BY <1>0, <2>3, <2>4, <2>5, GoesKeeps DEF Undoing, Goes, Within
  <2> QED
    BY <1>b, <2>3, <2>6
<1>9. CASE Fail /\ writer.phase \in {"undo", "restore"}
  <2>1. PICK n \in {k - 1, k} : n >= 0 /\ Halts(n, 1)
    BY <1>9, <1>0, Counts DEF Fail
  <2>2. n \in Nat
    BY <1>0, <2>1
  <2> QED
    BY <2>1, <2>2, Halted
<1>10. Fail => writer.phase \in {"journal", "apply", "place", "undo", "restore"}
  BY DEF Fail
<1> QED
  BY <1>1, <1>2, <1>3, <1>4, <1>5, <1>6, <1>7, <1>8, <1>9, <1>10 DEF Midway

LEMMA WriterSteps ==
  ASSUME TypeOK, JournalInv, WriterInv, Others, edits'.count = 0
  PROVE  WriterInv'
<1>0. edits.count \in Nat /\ writer \in Writers /\ Last \in Nat /\ Last' = Last
      /\ \A j \in 1 .. Last : j \in Nat
  BY Numbers DEF TypeOK, Watches, Last
<1>m. \A t \in T : writer.manifests[t] = "claims" <=> writer.files[t] = "current"
  BY DEF WriterInv
<1>a. ASSUME UNCHANGED <<file, manifest>>, NEW p, NEW n, Goes(p, n)
      PROVE  /\ AllDone => AllDone'
             /\ AllUndone => AllUndone'
             /\ \A j \in 1 .. Last : (Within(j) => Within(j)')
                                     /\ (Now(j) = Before(j) => Now(j)' = Before(j)')
             /\ \A t \in T : Honest(t)' <=> Honest(t)
  BY <1>0, <1>a, GoesKeeps DEF AllDone, AllUndone, Within, Honest
<1>g. ASSUME NEW p, NEW n, Goes(p, n)
      PROVE  /\ writer'.phase = p /\ writer'.next = n
             /\ \A t \in T : writer'.manifests[t] = "claims" <=> writer'.files[t] = "current"
  BY <1>g, <1>m DEF Goes
<1>c. ASSUME UNCHANGED <<file, manifest>>, AllDone \/ AllUndone,
             NEW p \in {"seal", "clean", "dead"}, NEW n, Goes(p, n)
      PROVE  WriterInv'
  BY <1>a, <1>c, <1>g DEF WriterInv
<1>1. ASSUME NEW o \in {"install", "uninstall"}, Plan(o) PROVE WriterInv'
  <2>1. UNCHANGED <<file, manifest>> /\ writer.phase = "idle"
    BY <1>1 DEF Plan, world
  <2>2. writer'.phase = "journal" /\ writer'.files = file /\ writer'.manifests = manifest
    BY <1>0, <1>1 DEF Plan, Writers
  <2>3. AllUndone'
    BY <2>1, <2>2 DEF AllUndone, Now, Before
  <2> QED
    BY <2>1, <2>2, <2>3 DEF WriterInv, Honest
<1>2. CASE Journal
  <2>1. UNCHANGED <<file, manifest>> /\ AllUndone
    BY <1>2 DEF Journal, WriterInv
  <2>2. CASE Moves("apply", 1)
    <3>1. Goes("apply", 1)
      BY <2>2, Moving
    <3>2. /\ \A j \in 1 .. Last : ~(j < 1)
          /\ 1 <= Last => 1 \in 1 .. Last
      BY <1>0
    <3>3. \A j \in 1 .. Last : Now(j)' = Before(j)'
      BY <1>a, <2>1, <3>1 DEF AllUndone
    <3>4. Doing'
      <4>1. writer'.phase = "apply" /\ writer'.next = 1
        BY <3>1 DEF Goes
      <4> QED
        BY <1>0, <3>2, <3>3, <4>1 DEF Doing
    <3> QED
      BY <1>g, <3>1, <3>4 DEF WriterInv
  <2>3. CASE Moves("journal", writer.next + 1)
    BY <1>a, <1>g, <2>1, <2>3, Moving DEF WriterInv
  <2> QED
    BY <1>2, <2>2, <2>3 DEF Journal
<1>3. CASE Detach \/ Attach
  BY <1>3 DEF Detach, Attach, WriterInv, Honest, AllDone, AllUndone, Doing, Undoing, Within,
              Now, Before, After, Open, Held, Last
<1>4. CASE Midway
  <2>1. edits.count = 0
    BY <1>4, MidwayIs
  <2> QED
    BY <1>4, <2>1, WriterMidway
<1>5. CASE Fail /\ writer.phase = "journal"
  <2>1. UNCHANGED <<file, manifest>> /\ AllUndone /\ Goes("clean", 1)
    BY <1>5, Moving DEF Fail, WriterInv, world
  <2> QED
    BY <1>c, <2>1
<1>6. CASE Seal
  <2>1. UNCHANGED <<file, manifest>> /\ (AllDone \/ AllUndone)
    BY <1>6 DEF Seal, WriterInv
  <2>2. Goes("clean", 1) \/ Goes("seal", writer.next + 1)
    BY <1>6, Moving DEF Seal
  <2> QED
    BY <1>c, <2>1, <2>2
<1>7. CASE Clean
  <2>1. UNCHANGED <<file, manifest>> /\ (AllDone \/ AllUndone)
    BY <1>7 DEF Clean, WriterInv
  <2>2. CASE Moves("clean", writer.next + 1)
    BY <1>c, <2>1, <2>2, Moving
  <2>3. CASE Moves("idle", 1)
    <3>1. Goes("idle", 1)
      BY <2>3, Moving
    <3>2. \A t \in T : Honest(t)'
      BY <1>a, <2>1, <3>1, EffectsAgree
    <3> QED
      BY <1>g, <3>1, <3>2 DEF WriterInv
  <2> QED
    BY <1>7, <2>2, <2>3 DEF Clean
<1>8. CASE Crash
  <2>1. UNCHANGED <<file, manifest, journal>> /\ Goes("dead", writer.next)
        /\ writer.phase \notin {"idle", "dead"}
    BY <1>8, Crashing DEF Crash
  <2>2. CASE writer.phase \in {"journal", "seal", "clean"}
    BY <1>c, <2>1, <2>2 DEF WriterInv
  <2>3. CASE writer.phase \in {"apply", "place", "undo", "restore"}
    <3>1. \A t \in T : Open(t)'
      BY <2>1, <2>3, MidwayOpen, GoesKeeps
    <3> QED
      BY <1>g, <2>1, <3>1 DEF WriterInv
  <2> QED
    BY <1>0, <2>1, <2>2, <2>3 DEF Writers, Phases
<1>9. CASE Recover
  <2>1. UNCHANGED <<file, manifest>> /\ writer.phase = "dead"
    BY <1>9 DEF Recover, world
  <2>2. CASE \/ \A t \in Pending(journal) : journal[t].sealed
             \/ \E t \in T : journal[t].sealed
    <3>1. Goes("clean", 1) \/ Goes("seal", 1)
      BY <1>9, <2>2, Resuming DEF Recover
    <3>2. AllDone \/ AllUndone
      <4>1. ASSUME \A t \in T : Open(t) PROVE FALSE
        <5>1. \A t \in T : t \in Pending(journal) /\ ~journal[t].sealed
          BY <4>1, HeldIsThere DEF Open, Pending
        <5> QED
          BY <2>2, <5>1, Numbers
      <4> QED
        BY <2>1, <4>1 DEF WriterInv
    <3> QED
      BY <1>c, <2>1, <3>1, <3>2
  <2>3. CASE Resumes("undo", Last) /\ \A j \in 1 .. Last : Now(j) \in {Before(j), After(j)}
    <3>1. Goes("undo", Last)
      BY <2>3, Resuming
    <3>2. \A j \in 1 .. Last : Within(j)' /\ ~(j > Last)
      BY <1>0, <1>a, <2>1, <2>3, <3>1 DEF Within
    <3>3. Last > 0 => Last \in 1 .. Last
      BY <1>0
    <3>4. Undoing'
      BY <1>0, <1>g, <3>1, <3>2, <3>3 DEF Undoing
    <3> QED
      BY <1>g, <3>1, <3>4 DEF WriterInv
  <2> QED
    BY <1>9, <2>2, <2>3 DEF Recover
<1>10. ~Edit
  <2>1. Edit => edits'.count = edits.count + 1
    BY DEF Edit, TypeOK, Watches
  <2> QED
    BY <1>0, <2>1
<1> QED
  BY <1>1, <1>2, <1>3, <1>4, <1>5, <1>6, <1>7, <1>8, <1>9, <1>10, OthersAre

-----------------------------------------------------------------------------
(* The dry run beside the other process.                                    *)

\* Who has met a home without its file, has met a transaction that had begun there.
LEMMA PhantomSpends ==
  ASSUME TypeOK, JournalInv, WriterInv, NEW t \in T, NEW n \in Nat, Past(t, n), Phantom(t)
  PROVE  Spent(t, n + 1)
<1>1. ~Honest(t) /\ ~(AllDone \/ AllUndone)
  BY EffectsAgree DEF Phantom, Honest
<1>2. writer.phase \notin {"idle", "journal", "seal", "clean"}
  BY <1>1 DEF WriterInv
<1>3. Open(t)
  BY <1>1, <1>2, MidwayOpen DEF WriterInv, TypeOK, Writers, Phases
<1>4. writer.tx > n /\ writer.tx \in Nat
  BY <1>3 DEF Past, Open, Held, NoJournal, TypeOK, Writers
<1> QED
  BY <1>2, <1>4 DEF Spent

\* A transaction that has left its journals behind does not come back to them.
LEMMA SpentGoes ==
  ASSUME TypeOK, NEW t \in T, NEW n \in Nat, NEW p, NEW m, Goes(p, m),
         p = "journal" => writer.phase = "journal" /\ m = writer.next + 1
  PROVE  Spent(t, n) => Spent(t, n)'
<1>0. t \in Nat /\ writer.tx \in Nat /\ writer.next \in Nat
  BY Numbers DEF TypeOK, Writers
<1>1. writer'.tx = writer.tx /\ writer'.phase = p /\ writer'.next = m
  BY DEF Goes
<1> QED
  BY <1>0, <1>1 DEF Spent

\* The other process takes a new number before it writes a journal where there is none,
\* and changes files only where it has one.
LEMMA NumbersGrow ==
  ASSUME TypeOK, JournalInv, Others, edits'.count = 0, NEW t \in T, NEW n \in Nat
  PROVE  /\ writer'.tx >= writer.tx
         /\ Spent(t, n) => Spent(t, n)'
         /\ Past(t, n) => Past(t, n)'
         /\ Past(t, n) /\ file'[t] # file[t] => Spent(t, n + 1)'
<1>a. t \in Nat
  BY Numbers
<1>0. /\ t \in Nat /\ writer.tx \in Nat /\ writer.next \in Nat /\ writer \in Writers
      /\ journal \in [T -> Journals] /\ writer.tx >= writer.tx
      /\ writer.phase \in {"journal", "seal", "clean"} => writer.next \in T
  BY <1>a DEF TypeOK, Writers
<1>e. ~Edit
  <2>1. Edit => edits'.count = edits.count + 1 /\ edits.count \in Nat
    BY DEF Edit, TypeOK, Watches
  <2> QED
    BY <2>1
<1>1. ASSUME NEW o \in {"install", "uninstall"}, Plan(o)
      PROVE  /\ writer'.tx = writer.tx + 1 /\ UNCHANGED <<file, manifest, journal>>
  BY <1>0, <1>1 DEF Plan, world, Writers
<1>2. ASSUME Detach \/ Attach PROVE UNCHANGED <<file, manifest, journal, writer>>
  BY <1>2 DEF Detach, Attach
<1>3. writer'.tx >= writer.tx /\ (Spent(t, n) => Spent(t, n)')
  <2>1. CASE \E o \in {"install", "uninstall"} : Plan(o)
    BY <1>0, <1>1, <2>1 DEF Spent
  <2>2. CASE Detach \/ Attach
    BY <1>0, <1>2, <2>2 DEF Spent
  <2>3. CASE \E p, m : /\ Goes(p, m)
                       /\ p = "journal" => writer.phase = "journal" /\ m = writer.next + 1
    BY <1>0, <2>3, SpentGoes DEF Goes
  <2>4. CASE Journal
    BY <2>3, <2>4, Moving DEF Journal
  <2>5. CASE Midway
    <3>1. \E p \in Phases, m \in Nat : Goes(p, m) /\ p # "journal"
      BY <2>5, MidwayGoes DEF Landing, Steps
    <3> QED
      BY <2>3, <3>1
  <2>6. CASE Fail /\ writer.phase = "journal"
    <3>1. Goes("clean", 1)
      BY <2>6, Moving DEF Fail
    <3> QED
      BY <2>3, <3>1
  <2>7. CASE Seal
    <3>1. Goes("clean", 1) \/ Goes("seal", writer.next + 1)
      BY <2>7, Moving DEF Seal
    <3> QED
      BY <2>3, <3>1
  <2>8. CASE Clean
    <3>1. Goes("idle", 1) \/ Goes("clean", writer.next + 1)
      BY <2>8, Moving DEF Clean
    <3> QED
      BY <2>3, <3>1
  <2>9. CASE Crash
    BY <2>3, <2>9, Crashing
  <2>10. CASE Recover
    <3>1. Goes("clean", 1) \/ Goes("seal", 1) \/ Goes("undo", Last)
      BY <2>10, Resuming DEF Recover
    <3> QED
      BY <2>3, <3>1
  <2> QED
    BY <1>e, <2>1, <2>2, <2>4, <2>5, <2>6, <2>7, <2>8, <2>9, <2>10, OthersAre
<1>4. ASSUME Past(t, n), journal'[t] # NoJournal PROVE journal'[t].tx > n
  <2>1. Spent(t, n) /\ (journal[t] # NoJournal => journal[t].tx > n)
    BY <1>4 DEF Past
  <2>2. ASSUME journal'[t] = journal[t] PROVE journal'[t].tx > n
    BY <1>4, <2>1, <2>2
  <2>3. CASE UNCHANGED journal
    BY <2>2, <2>3
  <2>4. CASE Journal
    <3>1. /\ writer.phase = "journal" /\ writer.next \in T
          /\ journal' = [journal EXCEPT ![writer.next] = [tx |-> writer.tx, sealed |-> FALSE]]
      BY <1>0, <2>4 DEF Journal
    <3>2. CASE writer.next = t
      BY <1>0, <2>1, <3>1, <3>2 DEF Spent
    <3> QED
      BY <1>0, <2>2, <3>1, <3>2
  <2>5. CASE Seal
    <3>1. journal'[t].tx = journal[t].tx
      BY <1>0, <2>5 DEF Seal, Journals
    <3>2. Held(t)
      BY <2>5 DEF Seal, JournalInv, Journaled
    <3> QED
      BY <2>1, <3>1, <3>2 DEF Held, NoJournal
  <2>6. CASE Clean
    BY <1>0, <1>4, <2>2, <2>6 DEF Clean
  <2>7. Midway => UNCHANGED journal
    BY MidwayIs
  <2> QED
    BY <1>1, <1>2, <1>e, <2>3, <2>4, <2>5, <2>6, <2>7, OthersAre DEF Fail, Crash, Recover, world
<1>5. ASSUME Past(t, n), file'[t] # file[t] PROVE Spent(t, n + 1)'
  <2>1. Midway
    BY <1>1, <1>2, <1>5, <1>e, OthersAre DEF Journal, Fail, Seal, Clean, Crash, Recover, world
  <2>2. PICK p \in Phases, m \in Nat : Goes(p, m) /\ Landing(p, m)
    BY <2>1, MidwayGoes
  <2>3. writer.phase \in {"apply", "place", "undo", "restore"} /\ p # "journal"
    BY <2>2 DEF Landing, Steps
  <2>4. Open(t)
    BY <2>3, MidwayOpen
  <2>5. writer.tx > n
    BY <1>5, <2>4 DEF Past, Open, Held, NoJournal
  <2>6. writer'.tx = writer.tx /\ writer'.phase # "journal"
    BY <2>2, <2>3 DEF Goes
  <2> QED
    BY <1>0, <2>5, <2>6 DEF Spent
<1> QED
  BY <1>3, <1>4, <1>5 DEF Past

\* The parts of a collection.
LEMMA PartsAre ==
  ASSUME at.part \in 1 .. 6
  PROVE  /\ at.part \in {1, 4} => Part = "groups" /\ Cells = <<"journal">> /\ Len(Cells) = 1
         /\ at.part \in {2, 6} =>
              Part = "state" /\ Cells = <<"manifest", "journal">> /\ Len(Cells) = 2
         /\ at.part \in {3, 5} =>
              Part = "plan" /\ Cells = <<"manifest", "file", "manifest">> /\ Len(Cells) = 3
BY DEF Part, Parts, Cells

\* One read gives what a home has there now.
LEMMA ReadAt ==
  ASSUME TypeOK, at.part \in 1 .. 6, NEW n \in Nat, n < Targets * Len(Cells)
  PROVE  /\ Value(n) \in Values
         /\ Part = "groups" =>
              /\ n + 1 \in T /\ Value(n) \in {NoJournal, journal[n + 1]}
              /\ at.round > 0 /\ ~Missed(n) => Value(n) = journal[n + 1]
         /\ Part = "plan" => \A t \in T :
              /\ n = 3 * t - 3 => Value(n) = manifest[t]
              /\ n = 3 * t - 2 => Value(n) = file[t]
              /\ n = 3 * t - 1 => Value(n) = manifest[t]
<1>0. Targets \in Nat /\ Targets > 0
  BY Numbers
<1>1. CASE at.part \in {1, 4}
  <2>1. Part = "groups" /\ Len(Cells) = 1 /\ Cells[1] = "journal"
    BY <1>1, PartsAre
  <2>2. n \div 1 = n /\ n % 1 = 0 /\ 1 + n \in T /\ n + 1 = 1 + n
    BY <1>0, <2>1 DEF T
  <2>3. Home(n) = n + 1 /\ Cell(n) = "journal"
    BY <2>1, <2>2 DEF Home, Cell
  <2>4. Value(n) = IF n + 1 = away THEN NoJournal ELSE journal[n + 1]
    BY <2>3 DEF Value
  <2>5. at.round > 0 /\ ~Missed(n) => n + 1 # away
    BY <2>3 DEF Missed
  <2>6. journal[n + 1] \in Journals /\ NoJournal \in Journals
    BY <2>2 DEF TypeOK, NoJournal, Journals
  <2> QED
    BY <2>1, <2>2, <2>4, <2>5, <2>6 DEF Values
<1>2. CASE at.part \in {2, 6}
  <2>1. Part = "state" /\ Len(Cells) = 2 /\ Cells[1] = "manifest" /\ Cells[2] = "journal"
    BY <1>2, PartsAre
  <2>2. 1 + (n \div 2) \in T /\ 1 + (n % 2) \in {1, 2}
    BY <1>0, <2>1 DEF T
  <2>3. Value(n) \in {manifest[1 + (n \div 2)], journal[1 + (n \div 2)], NoJournal}
    BY <2>1, <2>2 DEF Value, Home, Cell
  <2>4. NoJournal \in Journals
    BY DEF NoJournal, Journals
  <2> QED
    BY <2>1, <2>2, <2>3, <2>4 DEF TypeOK, Values
<1>3. CASE at.part \in {3, 5}
  <2>1. /\ Part = "plan" /\ Len(Cells) = 3
        /\ Cells[1] = "manifest" /\ Cells[2] = "file" /\ Cells[3] = "manifest"
    BY <1>3, PartsAre
  <2>2. 1 + (n \div 3) \in T /\ 1 + (n % 3) \in {1, 2, 3}
    BY <1>0, <2>1 DEF T
  <2>3. /\ 1 + (n % 3) \in {1, 3} => Value(n) = manifest[1 + (n \div 3)]
        /\ 1 + (n % 3) = 2 => Value(n) = file[1 + (n \div 3)]
    BY <2>1, <2>2 DEF Value, Home, Cell
  <2>4. Value(n) \in Values
    BY <2>2, <2>3 DEF TypeOK, Values
  <2>5. ASSUME NEW t \in T
        PROVE  /\ n = 3 * t - 3 => Value(n) = manifest[t]
               /\ n = 3 * t - 2 => Value(n) = file[t]
               /\ n = 3 * t - 1 => Value(n) = manifest[t]
    <3>0. t \in Nat /\ t >= 1
      BY Numbers
    <3>1. /\ n = 3 * t - 3 => 1 + (n \div 3) = t /\ 1 + (n % 3) = 1
          /\ n = 3 * t - 2 => 1 + (n \div 3) = t /\ 1 + (n % 3) = 2
          /\ n = 3 * t - 1 => 1 + (n \div 3) = t /\ 1 + (n % 3) = 3
      BY <3>0
    <3> QED
      BY <2>3, <3>1
  <2> QED
    BY <2>1, <2>4, <2>5
<1> QED
  BY <1>1, <1>2, <1>3

\* The read that is added to the others.
LEMMA ReadsAre ==
  ASSUME TypeOK, Reading, Running
  PROVE  /\ Reads \in Seq(Values) /\ Len(Reads) = Len(got) + 1
         /\ Len(got) \in Nat /\ Len(got) < Targets * Len(Cells) /\ Len(Cells) \in 1 .. 3
         /\ \A i \in 1 .. Len(got) : Reads[i] = got[i]
         /\ Reads[Len(got) + 1] = Value(Len(got)) /\ Value(Len(got)) \in Values
<1>1. got \in Seq(Values) /\ Len(got) \in Nat /\ Len(got) < Targets * Len(Cells)
      /\ at.part \in 1 .. 6
  BY DEF Reading
<1>2. Value(Len(got)) \in Values
  BY <1>1, ReadAt
<1>3. Len(Cells) \in 1 .. 3
  BY <1>1, PartsAre
<1> HIDE DEF Values
<1>4. /\ Append(got, Value(Len(got))) \in Seq(Values)
      /\ Len(Append(got, Value(Len(got)))) = Len(got) + 1
      /\ \A i \in 1 .. Len(got) : Append(got, Value(Len(got)))[i] = got[i]
      /\ Append(got, Value(Len(got)))[Len(got) + 1] = Value(Len(got))
  BY <1>1, <1>2
<1> QED
  BY <1>1, <1>2, <1>3, <1>4 DEF Reads

\* What the part has shown with one more read.
LEMMA ReadsSeen ==
  ASSUME TypeOK, Reading, Running, JournalInv, WriterInv, ReaderInv, Collecting,
         ~Missed(Len(got)), NEW t \in T
  PROVE  Seen(t, Reads)
<1>1. /\ Len(Reads) = Len(got) + 1 /\ Len(got) \in Nat /\ Len(got) < Targets * Len(Cells)
      /\ \A i \in 1 .. Len(got) : Reads[i] = got[i]
      /\ Reads[Len(got) + 1] = Value(Len(got))
  BY ReadsAre
<1>2. t \in Nat /\ t >= 1 /\ at.part \in 1 .. 6
  BY Numbers DEF Reading
<1>3. Seen(t, got) /\ (Suspect(t) => Spent(t, Passes))
  BY DEF ReaderInv, Counted
<1>4. Passes \in Nat
  BY DEF Passes
<1>5. ASSUME Suspect(t), Part = "groups", t <= Len(Reads), Reads[t] = NoJournal
      PROVE  Past(t, Passes)
  <2>1. CASE t <= Len(got)
    BY <1>1, <1>2, <1>3, <1>5, <2>1 DEF Seen
  <2>2. CASE t = Len(got) + 1
    <3>1. journal[t] = NoJournal
      BY <1>1, <1>2, <1>5, <2>2, ReadAt DEF Collecting
    <3> QED
      BY <1>3, <1>5, <3>1 DEF Past
  <2> QED
    BY <1>1, <1>2, <1>5, <2>1, <2>2
<1>6. ASSUME Part = "plan"
      PROVE  /\ Len(Reads) = 3 * t - 2 => Reads[3 * t - 2] = manifest[t]
             /\ Len(Reads) = 3 * t - 1 => Reads[3 * t - 1] = file[t]
             /\ 3 * t - 2 < Len(Reads) => 3 * t - 2 <= Len(got) /\ Reads[3 * t - 2] = got[3 * t - 2]
             /\ 3 * t - 1 < Len(Reads) => 3 * t - 1 <= Len(got) /\ Reads[3 * t - 1] = got[3 * t - 1]
  <2>1. /\ Len(got) = 3 * t - 3 => Value(Len(got)) = manifest[t]
        /\ Len(got) = 3 * t - 2 => Value(Len(got)) = file[t]
    BY <1>1, <1>2, <1>6, ReadAt
  <2> QED
    BY <1>1, <1>2, <2>1
<1>7. ASSUME Part = "plan"
      PROVE  /\ 3 * t - 2 <= Len(Reads) => Reads[3 * t - 2] \in Manifests
             /\ 3 * t - 1 <= Len(Reads) => Reads[3 * t - 1] \in Files
  <2>1. manifest[t] \in Manifests /\ file[t] \in Files
    BY DEF TypeOK
  <2>2. /\ 3 * t - 2 <= Len(got) => got[3 * t - 2] \in Manifests
        /\ 3 * t - 1 <= Len(got) => got[3 * t - 1] \in Files
    BY <1>3, <1>7 DEF Seen
  <2>3. /\ 3 * t - 2 <= Len(Reads) => Len(Reads) = 3 * t - 2 \/ 3 * t - 2 < Len(Reads)
        /\ 3 * t - 1 <= Len(Reads) => Len(Reads) = 3 * t - 1 \/ 3 * t - 1 < Len(Reads)
    BY <1>1, <1>2
  <2>4. 3 * t - 2 <= Len(Reads) => Reads[3 * t - 2] \in Manifests
    BY <1>6, <1>7, <2>1, <2>2, <2>3
  <2>5. 3 * t - 1 <= Len(Reads) => Reads[3 * t - 1] \in Files
    BY <1>6, <1>7, <2>1, <2>2, <2>3
  <2> QED
    BY <2>4, <2>5
<1>8. ASSUME Suspect(t), Part = "plan", 3 * t - 2 <= Len(Reads), Reads[3 * t - 2] = "claims"
      PROVE  /\ Len(Reads) = 3 * t - 2 => Spent(t, Passes + 1) \/ file[t] = "current"
             /\ Len(Reads) >= 3 * t - 1 /\ Reads[3 * t - 1] # "current" => Spent(t, Passes + 1)
  <2>1. Past(t, Passes)
    <3>1. at.part \in {3, 5}
      BY <1>2, <1>8, PartsAre
    <3> QED
      BY <1>8, <3>1 DEF Reading, ReaderInv, Counted
  <2>2. CASE Len(Reads) = 3 * t - 2
    <3>1. manifest[t] = "claims" /\ ~(Len(Reads) >= 3 * t - 1)
      BY <1>1, <1>2, <1>6, <1>8, <2>2
    <3>2. file[t] # "current" => Spent(t, Passes + 1)
      BY <1>4, <2>1, <3>1, PhantomSpends DEF Phantom
    <3> QED
      BY <3>1, <3>2
  <2>3. CASE Len(Reads) = 3 * t - 1
    <3>1. Len(got) = 3 * t - 2 /\ got[3 * t - 2] = "claims" /\ Reads[3 * t - 1] = file[t]
      BY <1>1, <1>2, <1>6, <1>8, <2>3
    <3>2. Spent(t, Passes + 1) \/ file[t] = "current"
      BY <1>2, <1>3, <1>8, <3>1 DEF Seen
    <3> QED
      BY <1>2, <2>3, <3>1, <3>2
  <2>4. CASE Len(Reads) > 3 * t - 1
    <3>1. /\ Len(got) >= 3 * t - 1 /\ 3 * t - 2 <= Len(got) /\ got[3 * t - 2] = "claims"
          /\ Reads[3 * t - 1] = got[3 * t - 1]
      BY <1>1, <1>2, <1>6, <1>8, <2>4
    <3>2. got[3 * t - 1] # "current" => Spent(t, Passes + 1)
      BY <1>3, <1>8, <3>1 DEF Seen
    <3> QED
      BY <1>1, <1>2, <2>4, <3>1, <3>2
  <2> QED
    BY <1>1, <1>2, <1>8, <2>2, <2>3, <2>4
<1> QED
  BY <1>5, <1>7, <1>8 DEF Seen

-----------------------------------------------------------------------------
(* The invariant.                                                           *)

\* At first no transaction has begun, and nothing has been read.
LEMMA InitOK == Init => IInv
<1> SUFFICES ASSUME Init PROVE IInv
  OBVIOUS
<1>1. TypeOK
  BY TypeInit
<1>2. Reading
  BY DEF Init, Reading, NoMemo, Nothing, Start, Running, Collecting
<1>3. WriterInv
  BY WriterInit
<1>4. ReaderInv
  BY DEF Init, ReaderInv, Collecting, Start
<1> QED
  BY <1>1, <1>2, <1>3, <1>4, JournalInit DEF IInv

\* What is left alone by the others, and what they leave alone.
LEMMA OthersLeave ==
  ASSUME TypeOK, Others
  PROVE  /\ UNCHANGED reader
         /\ edits'.missed = edits.missed /\ edits'.earlier = edits.earlier /\ edits'.first = edits.first
         /\ edits'.count = 0 => edits.count = 0
<1>1. CASE Edit
  <2>1. \E t \in T : edits' = [edits EXCEPT !.count = @ + 1, !.files = @ \cup {t},
                                  !.twice = @ \/ t \in edits.files]
    BY <1>1 DEF Edit
  <2> QED
    BY <1>1, <2>1 DEF Edit, TypeOK, Watches
<1>2. Midway => UNCHANGED <<reader, edits>>
  BY MidwayIs
<1> QED
  BY <1>1, <1>2, OthersAre DEF Plan, Journal, Detach, Attach, Fail, Seal, Clean, Crash, Recover,
     Writes, Beside

\* While the other process writes and the user edits: what was read stays read, and a file
\* that has changed since its manifest was read has cost a transaction.
LEMMA OthersOK == IInv /\ Others => IInv'
<1> SUFFICES ASSUME IInv, Others PROVE IInv'
  OBVIOUS
<1>1. TypeOK /\ Reading /\ TypeOK' /\ JournalInv /\ JournalInv'
  BY TypeOthers, JournalSteps DEF IInv
<1>2. UNCHANGED <<request, at, got, memo, printed, exit>> /\ edits'.earlier = edits.earlier
  BY <1>1, OthersLeave DEF reader
<1>3. /\ (Running' <=> Running) /\ (Collecting' <=> Collecting) /\ Cells' = Cells /\ Part' = Part
      /\ Passes' = Passes /\ \A t \in T : Suspect(t)' <=> Suspect(t)
  BY <1>2 DEF Running, Collecting, Cells, Part, Passes, Suspect, Noted
<1>4. Reading'
  BY <1>1, <1>2, <1>3 DEF Reading, Pending
<1>w. edits'.count = 0 => WriterInv'
  BY <1>1, OthersLeave, WriterSteps DEF IInv
<1>5. ASSUME Untouched' PROVE ReaderInv'
  <2>2. edits'.count = 0 /\ ReaderInv
    BY <1>1, <1>5, OthersLeave DEF IInv, Untouched
  <2>4. Passes \in Nat /\ Passes + 1 \in Nat
    BY DEF Passes
  <2>5. ASSUME Collecting, NEW t \in T PROVE Counted(t)'
    <3>1. Counted(t)
      BY <2>2, <2>5 DEF ReaderInv
    <3>2. /\ Spent(t, Passes) => Spent(t, Passes)'
          /\ Past(t, Passes) => Past(t, Passes)'
          /\ Spent(t, Passes + 1) => Spent(t, Passes + 1)'
          /\ Past(t, Passes) /\ file'[t] # file[t] => Spent(t, Passes + 1)'
      <4> DEFINE n == Passes
                 m == Passes + 1
      <4>1. n \in Nat /\ m \in Nat /\ m = n + 1 /\ n' = n /\ m' = m
        BY <1>3, <2>4
      <4> HIDE DEF n, m
      <4>2. PICK x \in Nat, y \in Nat : x = n /\ y = m /\ y = x + 1
        BY <4>1
      <4>3. /\ Spent(t, x) => Spent(t, x)'
            /\ Past(t, x) => Past(t, x)'
            /\ Spent(t, y) => Spent(t, y)'
            /\ Past(t, x) /\ file'[t] # file[t] => Spent(t, y)'
        BY <1>1, <2>2, <4>2, NumbersGrow
      <4>4. x = n' /\ y = m'
        BY <4>1, <4>2
      <4> QED
        BY <4>2, <4>3, <4>4 DEF n, m, Spent, Past
    <3>3. Seen(t, got)'
      <4>1. Seen(t, got)
        BY <3>1 DEF Counted
      <4>2. Suspect(t) /\ Part = "plan" => Past(t, Passes)
        <5>1. Part = "plan" => at.part \in {3, 5}
          BY <1>1, PartsAre DEF Reading
        <5> QED
          BY <1>1, <2>5, <3>1, <5>1 DEF Counted, Reading
      <4> QED
        BY <1>2, <1>3, <3>2, <4>1, <4>2 DEF Seen
    <3> QED
      BY <1>2, <1>3, <3>1, <3>2, <3>3 DEF Counted, Pending
  <2>6. writer'.tx >= writer.tx
    BY <1>1, <2>2, NumbersGrow, Numbers
  <2>7. writer.tx \in Nat /\ writer'.tx \in Nat
    BY <1>1 DEF TypeOK, Writers
  <2> QED
    BY <1>2, <1>3, <2>2, <2>5, <2>6, <2>7 DEF ReaderInv
<1> QED
  BY <1>1, <1>4, <1>5, <1>w DEF IInv

\* The dry run changes nothing that is not its own.
LEMMA ReaderLeaves ==
  ASSUME TypeOK, Proceed \/ \E o \in Operations : Begin(o)
  PROVE  /\ TypeOK' /\ edits'.count = edits.count /\ UNCHANGED <<world, writer>>
         /\ JournalInv => JournalInv'
         /\ WriterInv => WriterInv'
<1>1. UNCHANGED <<world, writer>>
  BY DEF Proceed, Begin, Read, CloseCheck, CloseGroups, ClosePlan, OpenState, CloseFirst,
     CloseSecond, Raise, Return
<1>2. UNCHANGED edits \/ Looks \/ FromHere(FALSE) \/ FromHere(edits.missed \/ Missed(Len(got)))
  BY DEF Proceed, Begin, Read, CloseCheck, CloseGroups, ClosePlan, OpenState, CloseFirst,
     CloseSecond, Raise, Return
<1>3. edits' \in Watches /\ edits'.count = edits.count
  <2>0. /\ edits \in Watches /\ edits.missed \in BOOLEAN /\ Missed(Len(got)) \in BOOLEAN
        /\ (edits.missed \/ Missed(Len(got))) \in BOOLEAN
    BY DEF TypeOK, Watches, Missed
  <2>1. CASE UNCHANGED edits
    BY <2>0, <2>1
  <2>2. CASE Looks
    <3>1. edits' = [edits EXCEPT !.missed = edits.missed \/ Missed(Len(got))]
      BY <2>2 DEF Looks
    <3> QED
      BY <2>0, <3>1 DEF Watches
  <2>3. ASSUME NEW e \in BOOLEAN, FromHere(e)
        PROVE  edits' \in Watches /\ edits'.count = edits.count
    <3>1. (IF writer.phase = "idle" THEN writer.tx + 1 ELSE writer.tx) \in Nat
      BY DEF TypeOK, Writers
    <3> QED
      BY <2>0, <2>3, <3>1 DEF FromHere, Watches
  <2> QED
    BY <1>2, <2>0, <2>1, <2>2, <2>3
<1>4. request' \in {"install", "uninstall"}
  BY DryRunAssumption DEF Proceed, Begin, Read, CloseCheck, CloseGroups, ClosePlan, OpenState,
     CloseFirst, CloseSecond, Raise, Return, TypeOK
<1>5. TypeOK'
  BY <1>1, <1>3, <1>4 DEF TypeOK, world, Last
<1>6. /\ \A k : After(k)' = After(k) /\ Before(k)' = Before(k) /\ Now(k)' = Now(k)
      /\ Last' = Last
  BY <1>1 DEF After, Before, Now, Last, world
<1>7. WriterInv => WriterInv'
  BY <1>1, <1>6 DEF WriterInv, AllDone, AllUndone, Doing, Undoing, Within, Held, Open, Honest, world
<1>8. JournalInv => JournalInv'
  BY <1>1 DEF JournalInv, Journaled, Decided, Held, Open, world
<1> QED
  BY <1>1, <1>3, <1>5, <1>7, <1>8

\* A look at a journal that is not there between its names is noted.
LEMMA Unmissed ==
  ASSUME TypeOK, Reading, Proceed, Untouched'
  PROVE  /\ Untouched
         /\ Looks \/ FromHere(edits.missed \/ Missed(Len(got))) => ~Missed(Len(got))
<1>0. edits \in Watches
  BY DEF TypeOK
<1>1. CASE UNCHANGED edits
  <2>1. Looks => ~Missed(Len(got))
    BY <1>0, <1>1 DEF Looks, Watches, Untouched
  <2>2. FromHere(edits.missed \/ Missed(Len(got))) => ~Missed(Len(got))
    BY <1>0, <1>1 DEF FromHere, Watches, Untouched
  <2> QED
    BY <1>1, <2>1, <2>2 DEF Untouched
<1>2. CASE Looks
  <2>1. edits'.missed = (edits.missed \/ Missed(Len(got))) /\ edits'.earlier = edits.earlier
        /\ edits'.count = edits.count
    BY <1>0, <1>2 DEF Looks, Watches
  <2> QED
    BY <2>1 DEF Untouched
<1>3. CASE FromHere(edits.missed \/ Missed(Len(got))) /\ at.round = 1
  <2>1. edits'.earlier = (edits.missed \/ Missed(Len(got))) /\ edits'.count = edits.count
    BY <1>0, <1>3 DEF FromHere, Watches
  <2>2. ~edits.earlier
    BY <1>3 DEF Reading
  <2> QED
    BY <2>1, <2>2 DEF Untouched
<1> QED
  BY <1>1, <1>2, <1>3 DEF Proceed, Read, CloseCheck, CloseGroups, ClosePlan, OpenState, CloseFirst,
     CloseSecond, Raise, Return

\* The dry run ends, or has not begun to collect.
LEMMA Apart ==
  ASSUME IInv, TypeOK', JournalInv', edits'.count = edits.count, UNCHANGED <<world, writer>>,
         WriterInv => WriterInv', NEW r \in {0, 3, 4}, NEW p \in 1 .. 6, r = 0 => p = 1,
         at' = Start(r, p), got' = << >>, memo' = NoMemo \/ (memo' = memo /\ at.round \in {3, 4}),
         r # 3 => exit' = 0, r = 0 => ~edits'.earlier,
         Untouched' /\ exit' = 4 => writer.tx >= 4
  PROVE  IInv'
<1>1. at'.round = r /\ at'.part = p /\ at' \in [round : 0 .. 4, part : 1 .. 6]
  BY DEF Start
<1>2. /\ memo'.plan = Nothing
      /\ memo' = [groups |-> memo'.groups, state |-> memo'.state, plan |-> memo'.plan]
  BY DEF IInv, Reading, NoMemo
<1>3. r = 0 => Len(Cells') = 1
  <2>1. r = 0 => Part' = "groups"
    BY <1>1 DEF Part, Parts
  <2> QED
    BY <2>1 DEF Cells
<1>4. got' \in Seq(Values') /\ Len(got') = 0
  OBVIOUS
<1>5. Targets \in Nat /\ Targets > 0
  BY Numbers
<1>e. (at'.round # 3 => exit' = 0) /\ (at'.round \in {0, 1} => ~edits'.earlier)
  BY <1>1
<1>l. Running' => Len(got') < Targets' * Len(Cells')
  BY <1>1, <1>3, <1>4, <1>5 DEF Running
<1>6. Reading'
  BY <1>1, <1>2, <1>4, <1>e, <1>l DEF Reading, Collecting
<1>7. /\ edits'.count = 0 => WriterInv'
      /\ Untouched' => ReaderInv'
  BY <1>1 DEF IInv, ReaderInv, Collecting
<1> QED
  BY <1>6, <1>7 DEF IInv

\* The dry run turns to another part.
LEMMA NextPart ==
  ASSUME IInv, TypeOK', JournalInv', edits'.count = edits.count, UNCHANGED <<world, writer>>,
         WriterInv => WriterInv', NEW r \in {1, 2}, NEW p \in 1 .. 6,
         at' = Start(r, p), got' = << >>, at.round # 3, exit' = exit, r = 1 => ~edits'.earlier,
         memo' = [groups |-> memo'.groups, state |-> memo'.state, plan |-> memo'.plan],
         r = 1 /\ p <= 3 => memo'.plan = Nothing,
         p \in {3, 5} \/ memo'.plan.kind = "plan" => Pending(memo'.groups) = {},
         Untouched' => \A t \in T : Suspect(t)' =>
            /\ Spent(t, Passes')
            /\ p \in {2, 3, 5} /\ Pending(memo'.groups) = {} => Past(t, Passes')
  PROVE  IInv'
<1>1. at'.round = r /\ at'.part = p /\ at' \in [round : 0 .. 4, part : 1 .. 6]
  BY DEF Start
<1>2. Len(Cells') \in 1 .. 3
  <2>1. Part' \in {"groups", "state", "plan"}
    BY <1>1 DEF Part, Parts
  <2> QED
    BY <2>1 DEF Cells
<1>3. got' \in Seq(Values') /\ Len(got') = 0
  OBVIOUS
<1>4. Targets \in Nat /\ Targets > 0
  BY Numbers
<1>5. Targets * Len(Cells') > 0
  <2>1. Len(Cells') = 1 \/ Len(Cells') = 2 \/ Len(Cells') = 3
    BY <1>2
  <2>2. Targets * 1 > 0 /\ Targets * 2 > 0 /\ Targets * 3 > 0
    BY <1>4
  <2> QED
    BY <2>1, <2>2
<1>e. exit' = 0
  BY DEF IInv, Reading
<1>6. Reading'
  BY <1>1, <1>3, <1>5, <1>e DEF Reading, Running, Collecting, Pending
<1>7. ASSUME Untouched', NEW t \in T PROVE Counted(t)'
  <2>1. t \in Nat /\ t >= 1
    BY Numbers
  <2>2. Seen(t, got)'
    BY <1>3, <2>1 DEF Seen
  <2>3. Suspect(t)' => /\ Spent(t, Passes)'
                       /\ p \in {2, 3, 5} /\ Pending(memo.groups)' = {} => Past(t, Passes)'
    BY <1>7 DEF Spent, Past, Pending, world
  <2> QED
    BY <1>1, <2>2, <2>3 DEF Counted
<1>8. /\ edits'.count = 0 => WriterInv'
      /\ Untouched' => ReaderInv'
  BY <1>7, <1>e DEF IInv, ReaderInv
<1> QED
  BY <1>6, <1>8 DEF IInv

\* A part that is read to its end has been read for every home.
LEMMA ColumnsAre ==
  ASSUME TypeOK, Reading, Running, Complete, NEW t \in T
  PROVE  /\ Part = "groups" => t <= Len(Reads) /\ Column(1)[t] = Reads[t]
         /\ Part = "plan" => /\ 3 * t <= Len(Reads)
                             /\ Column(1)[t] = Reads[3 * t - 2]
                             /\ Column(2)[t] = Reads[3 * t - 1]
<1>0. /\ Targets \in Nat /\ t \in Nat /\ t >= 1 /\ t <= Targets
      /\ at.part \in 1 .. 6 /\ Len(Reads) = Targets * Len(Cells)
  BY Numbers DEF Reading, Complete
<1>1. CASE Part = "groups"
  <2>1. Len(Cells) = 1
    BY <1>1 DEF Cells
  <2>2. Len(Reads) = Targets /\ (t - 1) * Len(Cells) + 1 = t
    BY <1>0, <2>1
  <2> QED
    BY <1>0, <1>1, <2>2 DEF Column
<1>2. CASE Part = "plan"
  <2>1. Len(Cells) = 3
    BY <1>2 DEF Cells
  <2>2. /\ Len(Reads) = Targets * 3 /\ (t - 1) * Len(Cells) + 1 = 3 * t - 2
        /\ (t - 1) * Len(Cells) + 2 = 3 * t - 1
    BY <1>0, <2>1
  <2> QED
    BY <1>0, <1>2, <2>2 DEF Column
<1> QED
  BY <1>1, <1>2

\* Where the steps that end the dry run leave it.
LEMMA Failed ==
  ASSUME IInv, Proceed, NEW status \in {0, 3, 8}, Ends(status)
  PROVE  IInv'
<1>1. /\ at' = Start(3, 1) /\ got' = << >> /\ memo' = NoMemo /\ exit' = status
  BY DEF Ends
<1>2. TypeOK' /\ edits'.count = edits.count /\ UNCHANGED <<world, writer>>
      /\ JournalInv' /\ (WriterInv => WriterInv')
  BY ReaderLeaves DEF IInv
<1> QED
  BY <1>1, <1>2, Apart

\* A dry run begins.
LEMMA BeginOK == ASSUME IInv, NEW o \in Operations, Begin(o) PROVE IInv'
<1>1. TypeOK' /\ edits'.count = edits.count /\ UNCHANGED <<world, writer>>
      /\ JournalInv' /\ (WriterInv => WriterInv')
  BY ReaderLeaves DEF IInv
<1>2. at.round = 4 /\ at' = Start(0, 1) /\ got' = << >> /\ memo' = memo /\ exit' = exit
  BY DEF Begin, Turns
<1>3. exit' = 0
  BY <1>2 DEF IInv, Reading
<1>4. ~edits'.earlier
  BY DEF Begin, FromHere, IInv, TypeOK, Watches
<1> QED
  BY <1>1, <1>2, <1>3, <1>4, Apart

\* One more read.
LEMMA ReadOK == ASSUME IInv, Read PROVE IInv'
<1>1. TypeOK' /\ edits'.count = edits.count /\ UNCHANGED <<world, writer>>
      /\ JournalInv' /\ (WriterInv => WriterInv')
  BY ReaderLeaves DEF IInv, Proceed
<1>2. Running /\ ~Complete /\ got' = Reads /\ UNCHANGED <<at, memo, exit>>
  BY DEF Read
<1>3. TypeOK /\ Reading
  BY DEF IInv
<1>4. /\ (Running' <=> Running) /\ (Collecting' <=> Collecting) /\ Cells' = Cells /\ Part' = Part
      /\ Passes' = Passes /\ \A t \in T : Suspect(t)' <=> Suspect(t)
  BY <1>2 DEF Running, Collecting, Cells, Part, Passes, Suspect, Noted
<1>5. Reads \in Seq(Values) /\ Len(Reads) < Targets * Len(Cells)
  <2>1. Reads \in Seq(Values) /\ Len(Reads) = Len(got) + 1 /\ Len(got) \in Nat
        /\ Len(got) < Targets * Len(Cells) /\ Len(Cells) \in 1 .. 3
    BY <1>2, <1>3, ReadsAre
  <2>2. Targets * Len(Cells) \in Nat
    <3>1. Targets \in Nat
      BY Numbers
    <3>2. Len(Cells) = 1 \/ Len(Cells) = 2 \/ Len(Cells) = 3
      BY <2>1
    <3> QED
      BY <3>1, <3>2
  <2>3. Len(Reads) # Targets * Len(Cells)
    BY <1>2 DEF Complete
  <2> QED
    BY <2>1, <2>2, <2>3
<1>6. Reading'
  <2>1. edits'.earlier = edits.earlier
    BY <1>3 DEF Read, Looks, TypeOK, Watches
  <2> QED
    BY <1>2, <1>3, <1>4, <1>5, <2>1 DEF Reading, Pending
<1>u. Untouched' => Untouched /\ ~Missed(Len(got))
  BY <1>3, Unmissed DEF Read, Proceed
<1>7. ASSUME Untouched', Collecting, NEW t \in T PROVE Counted(t)'
  <2>1. WriterInv /\ ReaderInv /\ Counted(t) /\ JournalInv
    BY <1>7, <1>u DEF IInv, ReaderInv, Untouched
  <2>2. Seen(t, Reads)
    BY <1>2, <1>3, <1>7, <1>u, <2>1, ReadsSeen
  <2>3. Seen(t, got)'
    BY <1>1, <1>2, <1>4, <2>2 DEF Seen, Spent, Past, world
  <2> QED
    BY <1>1, <1>2, <1>4, <2>1, <2>3 DEF Counted, Spent, Past, Pending, world
<1>8. /\ edits'.count = 0 => WriterInv'
      /\ Untouched' => ReaderInv'
  BY <1>1, <1>2, <1>4, <1>7, <1>u DEF IInv, ReaderInv
<1> QED
  BY <1>1, <1>6, <1>8 DEF IInv

\* The first look at the journals.
LEMMA CloseCheckOK == ASSUME IInv, CloseCheck PROVE IInv'
<1>1. TypeOK' /\ edits'.count = edits.count /\ UNCHANGED <<world, writer>>
      /\ JournalInv' /\ (WriterInv => WriterInv')
  BY ReaderLeaves DEF IInv, Proceed
<1>2. CASE Fails(8)
  BY <1>2, Failed DEF Proceed, Fails
<1>3. CASE Turns(1, 1) /\ UNCHANGED memo
  <2>1. at' = Start(1, 1) /\ got' = << >> /\ exit' = exit /\ memo' = memo /\ at.round = 0
    BY <1>3 DEF Turns, CloseCheck
  <2>2. memo.plan = Nothing
        /\ memo = [groups |-> memo.groups, state |-> memo.state, plan |-> memo.plan]
    BY <2>1 DEF IInv, Reading
  <2>3. Passes' = 0 /\ memo'.plan.kind # "plan"
    BY <2>1, <2>2 DEF Passes, Start, Nothing
  <2>4. \A t \in T : Spent(t, 0)
    BY DEF IInv, JournalInv, Spent, TypeOK, Writers
  <2>5. ~edits'.earlier
    BY <2>1 DEF IInv, Reading, CloseCheck
  <2>6. \A t \in T : Spent(t, Passes')
    BY <2>3, <2>4
  <2> QED
    BY <1>1, <2>1, <2>2, <2>3, <2>5, <2>6, NextPart
<1> QED
  BY <1>2, <1>3 DEF CloseCheck

\* What is noted, or has to agree: then it is what was noted.
LEMMA Agreed ==
  ASSUME Reading, NEW part \in {"groups", "state", "plan"}, NEW value,
         ~Differs(part, value), Agrees(part, value)
  PROVE  /\ memo' = [groups |-> memo'.groups, state |-> memo'.state, plan |-> memo'.plan]
         /\ memo'[part] = value
         /\ part # "groups" => memo'.groups = memo.groups
         /\ part # "plan" => memo'.plan = memo.plan
<1>1. memo = [groups |-> memo.groups, state |-> memo.state, plan |-> memo.plan]
  BY DEF Reading
<1>2. CASE Noting
  <2>1. memo' = [memo EXCEPT ![part] = value]
    BY <1>2 DEF Agrees
  <2>2. CASE part = "groups"
    BY <1>1, <2>1, <2>2
  <2>3. CASE part = "state"
    BY <1>1, <2>1, <2>3
  <2>4. CASE part = "plan"
    BY <1>1, <2>1, <2>4
  <2> QED
    BY <2>2, <2>3, <2>4
<1>3. CASE ~Noting
  BY <1>1, <1>3 DEF Agrees, Differs
<1> QED
  BY <1>2, <1>3

\* _journal_groups: a home without a journal is done with all transactions so far.
LEMMA CloseGroupsOK == ASSUME IInv, CloseGroups PROVE IInv'
<1>1. TypeOK' /\ edits'.count = edits.count /\ UNCHANGED <<world, writer>>
      /\ JournalInv' /\ (WriterInv => WriterInv')
  BY ReaderLeaves DEF IInv, Proceed
<1>2. TypeOK /\ Reading /\ Running /\ Collecting /\ Complete /\ Part = "groups"
      /\ at.round \in {1, 2} /\ at.part \in {1, 4}
  <2>1. at.round \in {1, 2} /\ Complete /\ Part = "groups" /\ at.part \in 1 .. 6
    BY DEF IInv, Reading, CloseGroups
  <2> QED
    BY <2>1, PartsAre DEF IInv, Running, Collecting
<1>u. Untouched' => Untouched /\ ~Missed(Len(got))
  BY Unmissed DEF CloseGroups, Proceed, IInv
<1>e. at.round = 1 => ~edits'.earlier
  BY <1>2 DEF CloseGroups, Looks, IInv, TypeOK, Watches, Reading
<1>3. CASE Fails(3)
  BY <1>3, Failed DEF Proceed, Fails
<1>4. ASSUME ~Differs("groups", Column(1)), Agrees("groups", Column(1)),
             Turns(at.round, CASE at.part = 1 -> 2
                               [] at.part = 4 /\ Pending(Column(1)) = {} -> 5
                               [] OTHER -> 6)
      PROVE  IInv'
  <2>1. /\ memo' = [groups |-> memo'.groups, state |-> memo'.state, plan |-> memo'.plan]
        /\ memo'.groups = Column(1) /\ memo'.plan = memo.plan
    BY <1>2, <1>4, Agreed
  <2>2. PICK p \in {2, 5, 6} :
          /\ at' = Start(at.round, p) /\ got' = << >> /\ exit' = exit
          /\ at.part = 1 <=> p = 2
          /\ p = 5 <=> at.part = 4 /\ Pending(memo'.groups) = {}
    BY <1>2, <1>4, <2>1 DEF Turns
  <2>3. at.round = 1 /\ p = 2 => memo'.plan = Nothing
    BY <1>2, <2>1, <2>2 DEF Reading
  <2>4. ~Noting => memo'.groups = memo.groups
    BY <1>4, <2>1 DEF Differs
  <2>5. memo'.plan.kind = "plan" => Pending(memo'.groups) = {}
    <3>1. CASE Noting
      BY <1>2, <2>1, <3>1 DEF Noting, Reading, Nothing
    <3>2. CASE ~Noting
      BY <1>2, <2>1, <2>4, <3>2 DEF Reading
    <3> QED
      BY <3>1, <3>2
  <2>6. ASSUME Untouched', NEW t \in T, Suspect(t)'
        PROVE  /\ Spent(t, Passes')
               /\ p \in {2, 5} /\ Pending(memo'.groups) = {} => Past(t, Passes')
    <3>1. WriterInv /\ ReaderInv /\ Counted(t) /\ JournalInv /\ ~Missed(Len(got))
      BY <1>2, <1>u, <2>6 DEF IInv, ReaderInv, Untouched
    <3>2. p # 6
      <4>1. SUFFICES ASSUME p = 6 PROVE FALSE
        OBVIOUS
      <4>2. at.part = 4 /\ Pending(memo'.groups) # {}
        BY <1>2, <2>2, <4>1
      <4>3. memo'.plan.kind # "plan"
        BY <2>5, <4>2
      <4>4. Passes' # 0
        BY <1>2, <2>2, <4>1 DEF Passes, Start
      <4> QED
        BY <2>6, <4>3, <4>4 DEF Suspect, Noted
    <3>3. Passes' = Passes
      BY <1>2, <2>2, <3>2 DEF Passes, Start
    <3>4. Suspect(t)
      BY <2>1, <2>6, <3>3 DEF Suspect, Noted
    <3>5. Pending(memo'.groups) = {} => Past(t, Passes)
      <4>1. Seen(t, Reads)
        BY <1>2, <3>1, ReadsSeen
      <4>2. t <= Len(Reads) /\ Column(1)[t] = Reads[t]
        BY <1>2, ColumnsAre
      <4>3. Pending(memo'.groups) = {} => Reads[t] = NoJournal
        BY <2>1, <4>2 DEF Pending
      <4> QED
        BY <1>2, <3>4, <4>1, <4>2, <4>3 DEF Seen
    <3> QED
      BY <3>1, <3>3, <3>4, <3>5 DEF Counted
  <2>7. /\ at.round = 1 /\ p <= 3 => memo'.plan = Nothing
        /\ p \in {3, 5} \/ memo'.plan.kind = "plan" => Pending(memo'.groups) = {}
    BY <2>2, <2>3, <2>5
  <2> QED
    BY <1>1, <1>2, <1>e, <2>1, <2>2, <2>6, <2>7, NextPart
<1> QED
  BY <1>3, <1>4 DEF CloseGroups

\* _state_fingerprint before the first plan of a collection.
LEMMA OpenStateOK == ASSUME IInv, OpenState PROVE IInv'
<1>1. TypeOK' /\ edits'.count = edits.count /\ UNCHANGED <<world, writer>>
      /\ JournalInv' /\ (WriterInv => WriterInv')
  BY ReaderLeaves DEF IInv, Proceed
<1>2. TypeOK /\ Reading /\ at.part = 2 /\ at.round \in {1, 2} /\ Collecting
  BY DEF IInv, Reading, OpenState, Running, Collecting
<1>u. Untouched' => Untouched /\ ~Missed(Len(got))
  BY Unmissed DEF OpenState, Proceed, IInv
<1>e. at.round = 1 => ~edits'.earlier
  BY <1>2 DEF OpenState, Looks, IInv, TypeOK, Watches, Reading
<1>3. CASE Fails(3)
  BY <1>3, Failed DEF Proceed, Fails
<1>4. ASSUME ~Differs("state", Reads), Agrees("state", Reads),
             Turns(at.round, IF Pending(memo.groups) = {} THEN 3 ELSE 4)
      PROVE  IInv'
  <2>1. /\ memo' = [groups |-> memo'.groups, state |-> memo'.state, plan |-> memo'.plan]
        /\ memo'.groups = memo.groups /\ memo'.plan = memo.plan
    BY <1>2, <1>4, Agreed
  <2>2. PICK p \in {3, 4} :
          /\ at' = Start(at.round, p) /\ got' = << >> /\ exit' = exit
          /\ p = 3 <=> Pending(memo.groups) = {}
    BY <1>4 DEF Turns
  <2>3. /\ at.round = 1 /\ p <= 3 => memo'.plan = Nothing
        /\ p \in {3, 5} \/ memo'.plan.kind = "plan" => Pending(memo'.groups) = {}
    BY <1>2, <2>1, <2>2 DEF Reading
  <2>4. ASSUME Untouched', NEW t \in T, Suspect(t)'
        PROVE  Spent(t, Passes') /\ (p \in {2, 3, 5} => Past(t, Passes'))
    <3>1. Counted(t)
      BY <1>2, <1>u, <2>4 DEF IInv, ReaderInv
    <3>2. p = 3
      <4>1. SUFFICES ASSUME p = 4 PROVE FALSE
        BY <2>2
      <4>2. memo'.plan.kind # "plan" /\ Passes' # 0
        BY <1>2, <2>1, <2>2, <2>3, <4>1 DEF Passes, Start
      <4> QED
        BY <2>4, <4>2 DEF Suspect, Noted
    <3>3. Passes' = Passes
      BY <1>2, <2>2, <3>2 DEF Passes, Start
    <3>4. Suspect(t)
      BY <2>1, <2>4, <3>3 DEF Suspect, Noted
    <3> QED
      BY <1>2, <2>2, <3>1, <3>2, <3>3, <3>4 DEF Counted
  <2> QED
    BY <1>1, <1>2, <1>e, <2>1, <2>2, <2>3, <2>4, NextPart
<1> QED
  BY <1>3, <1>4 DEF OpenState

\* _plan: a plan with a conflict has cost one transaction more.
LEMMA ClosePlanOK == ASSUME IInv, ClosePlan PROVE IInv'
<1>1. TypeOK' /\ edits'.count = edits.count /\ UNCHANGED <<world, writer>>
      /\ JournalInv' /\ (WriterInv => WriterInv')
  BY ReaderLeaves DEF IInv, Proceed
<1>2. TypeOK /\ Reading /\ Running /\ Collecting /\ Complete /\ Part = "plan"
      /\ at.round \in {1, 2} /\ at.part \in {3, 5}
  <2>1. Running /\ Complete /\ Part = "plan" /\ at.part \in 1 .. 6 /\ TypeOK /\ Reading
    BY DEF IInv, Reading, ClosePlan
  <2>2. at.part \in {3, 5}
    BY <2>1, PartsAre
  <2> QED
    BY <2>1, <2>2 DEF Running, Collecting, Reading
<1> DEFINE plan == Planned(request, Column(1), Column(2), Column(3))
<1>u. Untouched' => Untouched /\ ~Missed(Len(got))
  <2>1. ~Missed(Len(got))
    <3>1. Cells = <<"manifest", "file", "manifest">> /\ Len(Cells) = 3
      BY <1>2, PartsAre
    <3>2. Len(got) \in Nat /\ 1 + (Len(got) % 3) \in {1, 2, 3}
      BY <1>2, ReadsAre
    <3> QED
      BY <3>1, <3>2 DEF Missed, Cell
  <2> QED
    BY <2>1, Unmissed DEF Proceed, IInv
<1>e. at.round = 1 => ~edits'.earlier
  BY <1>2 DEF ClosePlan, Reading
<1>3. CASE Fails(3)
  BY <1>3, Failed DEF Proceed, Fails
<1>4. ASSUME ~Differs("plan", plan), Agrees("plan", plan), Turns(at.round, at.part + 1)
      PROVE  IInv'
  <2>1. /\ memo' = [groups |-> memo'.groups, state |-> memo'.state, plan |-> memo'.plan]
        /\ memo'.groups = memo.groups /\ memo'.plan = plan
    BY <1>2, <1>4, Agreed
  <2>2. PICK p \in {4, 6} :
          at' = Start(at.round, p) /\ got' = << >> /\ exit' = exit /\ p = at.part + 1
    BY <1>2, <1>4 DEF Turns
  <2>3. Pending(memo'.groups) = {}
    BY <1>2, <2>1 DEF Reading
  <2>4. ASSUME Untouched', NEW t \in T, Suspect(t)' PROVE Spent(t, Passes')
    <3>1. WriterInv /\ ReaderInv /\ Counted(t) /\ JournalInv /\ ~Missed(Len(got))
      BY <1>2, <1>u, <2>4 DEF IInv, ReaderInv, Untouched
    <3>2. Passes' = Passes + 1 /\ Passes' # 0
      BY <1>2, <2>2 DEF Passes, Start
    <3>3. plan.effects[t][1] = "conflict"
      BY <2>1, <2>4, <3>2 DEF Suspect, Noted
    <3>4. Suspect(t)
      <4>1. CASE Noting
        BY <1>2, <4>1 DEF Noting, Suspect, Passes
      <4>2. CASE ~Noting
        <5>1. memo.plan = plan
          BY <1>4, <4>2 DEF Differs
        <5> QED
          BY <3>3, <5>1 DEF Suspect, Noted, Planned
      <4> QED
        BY <4>1, <4>2
    <3>5. /\ 3 * t <= Len(Reads) /\ Column(1)[t] = Reads[3 * t - 2]
          /\ Column(2)[t] = Reads[3 * t - 1]
      BY <1>2, ColumnsAre
    <3>6. t \in Nat /\ t >= 1 /\ Len(Reads) \in Nat
      BY <1>2, Numbers, ReadsAre
    <3>7. 3 * t - 2 <= Len(Reads) /\ 3 * t - 1 <= Len(Reads) /\ Len(Reads) >= 3 * t - 1
      BY <3>5, <3>6
    <3>8. Seen(t, Reads)
      BY <1>2, <3>1, ReadsSeen
    <3>9. Column(1)[t] \in Manifests /\ Column(2)[t] \in Files
      BY <1>2, <3>5, <3>7, <3>8 DEF Seen
    <3>10. Effect(request, Column(1)[t], Column(2)[t]) = "conflict"
      BY <3>3 DEF Planned, Effects
    <3>11. Column(1)[t] = "claims" /\ Column(2)[t] # "current"
      BY <1>2, <3>9, <3>10 DEF Effect, Manifests, Files, TypeOK
    <3> QED
      BY <1>2, <3>2, <3>4, <3>5, <3>7, <3>8, <3>11 DEF Seen
  <2> QED
    BY <1>1, <1>2, <1>e, <2>1, <2>2, <2>3, <2>4, NextPart
<1> QED
  BY <1>3, <1>4 DEF ClosePlan

\* The end of the first collection.
LEMMA CloseFirstOK == ASSUME IInv, CloseFirst PROVE IInv'
<1>1. TypeOK' /\ edits'.count = edits.count /\ UNCHANGED <<world, writer>>
      /\ JournalInv' /\ (WriterInv => WriterInv')
  BY ReaderLeaves DEF IInv, Proceed
<1>2. Reading /\ at.round = 1 /\ at.part = 6
  BY DEF IInv, CloseFirst
<1>3. CASE Fails(3)
  BY <1>3, Failed DEF Proceed, Fails
<1>4. CASE Ends(0)
  BY <1>4, Failed DEF Proceed
<1>5. CASE Turns(2, 1) /\ UNCHANGED memo
  <2>1. at' = Start(2, 1) /\ got' = << >> /\ exit' = exit /\ memo' = memo
    BY <1>5 DEF Turns
  <2>2. /\ memo = [groups |-> memo.groups, state |-> memo.state, plan |-> memo.plan]
        /\ memo.plan.kind = "plan" => Pending(memo.groups) = {}
    BY <1>2 DEF Reading, Collecting
  <2>3. Passes' = 2 /\ Passes = 2
    BY <1>2, <2>1 DEF Passes, Start
  <2>4. Untouched' => \A t \in T : Suspect(t)' => Spent(t, Passes')
    <3>1. Untouched' => Untouched
      BY Unmissed DEF Proceed, IInv
    <3> QED
      BY <1>2, <2>1, <2>3, <3>1 DEF IInv, ReaderInv, Counted, Collecting, Suspect, Noted
  <2> QED
    BY <1>1, <1>2, <2>1, <2>2, <2>4, NextPart
<1> QED
  BY <1>3, <1>4, <1>5 DEF CloseFirst

\* The end of the second one, and the only place where the status says conflict.
LEMMA CloseSecondOK == ASSUME IInv, CloseSecond PROVE IInv'
<1>1. TypeOK' /\ edits'.count = edits.count /\ UNCHANGED <<world, writer>>
      /\ JournalInv' /\ (WriterInv => WriterInv')
  BY ReaderLeaves DEF IInv, Proceed
<1>2. Reading /\ at.round = 2 /\ at.part = 6 /\ Collecting
  BY DEF IInv, CloseSecond, Collecting
<1>3. CASE Fails(3)
  BY <1>3, Failed DEF Proceed, Fails
<1>4. CASE ~HasConflicts /\ Ends(0)
  BY <1>4, Failed DEF Proceed
<1>5. CASE HasConflicts /\ Ends(4)
  <2>1. at' = Start(3, 1) /\ got' = << >> /\ memo' = NoMemo
    BY <1>5 DEF Ends
  <2>2. PICK t \in T : Outcome.effects[t][1] = "conflict"
    BY <1>5 DEF HasConflicts
  <2>3. Outcome.kind = "plan"
    BY <1>5 DEF HasConflicts
  <2>4. Outcome = memo.plan
    BY <2>3 DEF Outcome, Summary
  <2>5. Noted(t)
    BY <2>2, <2>3, <2>4 DEF Noted
  <2>6. Untouched' => Spent(t, Passes)
    <3>1. Untouched' => Untouched
      BY Unmissed DEF Proceed, IInv
    <3> QED
      BY <1>2, <2>5, <3>1 DEF IInv, ReaderInv, Counted, Suspect
  <2>7. Passes = 4
    BY <1>2 DEF Passes
  <2>8. Untouched' => writer.tx >= 4
    BY <2>6, <2>7 DEF Spent, IInv, TypeOK, Writers
  <2> QED
    BY <1>1, <2>1, <2>8, Apart
<1> QED
  BY <1>3, <1>4, <1>5 DEF CloseSecond

\* The process has ended.
LEMMA ReturnOK == ASSUME IInv, Return PROVE IInv'
<1>1. TypeOK' /\ edits'.count = edits.count /\ UNCHANGED <<world, writer>>
      /\ JournalInv' /\ (WriterInv => WriterInv')
  BY ReaderLeaves DEF IInv, Proceed
<1>2. at.round = 3 /\ at' = Start(4, 1) /\ exit' = 0 /\ memo' = memo /\ got' = got
  BY DEF Return
<1>3. at'.round = 4 /\ at'.part = 1 /\ at' \in [round : 0 .. 4, part : 1 .. 6]
  BY <1>2 DEF Start
<1>4. Reading'
  BY <1>2, <1>3 DEF IInv, Reading, Running, Collecting
<1>5. /\ edits'.count = 0 => WriterInv'
      /\ ReaderInv'
  BY <1>1, <1>2, <1>3 DEF IInv, ReaderInv, Collecting
<1> QED
  BY <1>1, <1>4, <1>5 DEF IInv

\* Every step keeps the invariant.
LEMMA NextOK == IInv /\ [Next]_vars => IInv'
<1> SUFFICES ASSUME IInv, [Next]_vars PROVE IInv'
  OBVIOUS
<1>1. CASE Raise
  <2>1. Ends(3)
    BY <1>1 DEF Raise, Fails
  <2> QED
    BY <1>1, <2>1, Failed DEF Proceed
<1>2. CASE UNCHANGED vars
  <2>1. /\ \A k : After(k)' = After(k) /\ Before(k)' = Before(k) /\ Now(k)' = Now(k)
        /\ Last' = Last
    BY <1>2 DEF vars, After, Before, Now, Last
  <2>2. Cells' = Cells /\ Part' = Part
    BY <1>2 DEF vars, Cells, Part
  <2>3. TypeOK' /\ JournalInv'
    BY <1>2, <2>1 DEF vars, IInv, TypeOK, JournalInv, Journaled, Decided, Held, Open
  <2>4. WriterInv => WriterInv'
    BY <1>2, <2>1 DEF vars, WriterInv, AllDone, AllUndone, Doing, Undoing, Within, Held, Open, Honest
  <2>5. Reading'
    BY <1>2, <2>2 DEF vars, IInv, Reading, Collecting, Running, Pending
  <2>6. (ReaderInv => ReaderInv') /\ (Untouched' <=> Untouched) /\ edits' = edits
    BY <1>2, <2>2 DEF vars, ReaderInv, Counted, Seen, Spent, Past, Suspect, Noted, Passes, Collecting,
       Running, Pending, Untouched
  <2> QED
    BY <2>3, <2>4, <2>5, <2>6 DEF IInv
<1> QED
  BY <1>1, <1>2, BeginOK, ReadOK, CloseCheckOK, CloseGroupsOK, OpenStateOK, ClosePlanOK,
     CloseFirstOK, CloseSecondOK, ReturnOK, OthersOK DEF Next, Proceed

-----------------------------------------------------------------------------
(* What the dry run may report.                                             *)

\* What the dry run has read beside the other process, and what that has written: from the
\* first operation to the last every home has the journal of the transaction, though it may
\* be between its names, when a look at it is one that the notes of the collection count.
THEOREM ReadsAreCounted == Spec => []IInv
BY InitOK, NextOK, PTL DEF Spec

\* NoPhantomConflict (orchestrator.py, the conflicts of a dry run): as long as the user
\* leaves the managed files alone and no look at a journal has fallen between its names, a
\* dry run ends with the status of a conflict only after the other process has begun four
\* transactions, for every number of homes.
THEOREM PhantomsTakeFour == Spec => []NoPhantomConflict
<1>1. IInv => NoPhantomConflict
  BY DEF IInv, ReaderInv, NoPhantomConflict, Untouched
<1> QED
  BY <1>1, ReadsAreCounted, PTL
-----------------------------------------------------------------------------
(* Reports beside one transaction: when it begins and when it is over.       *)

\* A transaction that is under way is one that the collection may meet.
Ahead ==
  /\ writer.tx + 1 >= edits.first
  /\ writer.phase # "idle" => writer.tx >= edits.first
\* The first transaction that it meets has not begun on any home; it has removed its
\* journal on home t, or will never write one; it is over on all homes.
Unborn ==
  \/ writer.tx < edits.first
  \/ writer.tx = edits.first /\ writer.phase = "journal" /\ writer.next = 1
Finished(t) ==
  writer.tx = edits.first /\ journal[t] = NoJournal /\ writer.phase \in {"idle", "clean", "dead"}
Over == \A t \in T : Finished(t)

-----------------------------------------------------------------------------
(* A report of journals.                                                    *)

Rollback == [kind |-> "recovery", participants |-> T, effects |-> <<"rollback">>]
\* What the first look of a collection at the journals has found; a journal of which
\* the reader knows is sealed and removed, and does not come back.
FirstGroups(reads) ==
  \A t \in T : t <= Len(reads) =>
    /\ reads[t].sealed => journal[t].sealed \/ Finished(t)
    /\ reads[t] # NoJournal => journal[t] # NoJournal \/ Finished(t)
    /\ reads[t] # NoJournal /\ ~reads[t].sealed =>
         (journal[t] # NoJournal /\ ~journal[t].sealed) \/ Rollback \in moments \/ Finished(t)
    /\ \A u \in T : reads[t] = NoJournal /\ u < t /\ reads[u].sealed =>
         Finished(t) \/ Finished(u)

\* The second look, so far, contradicts the first.
GroupsDiffer(reads) ==
  at.part = 4 /\ \E t \in T : t <= Len(reads) /\ reads[t] # memo.groups[t]
Unread(t, reads) == at.part = 4 => t > Len(reads)
\* Between the looks: what was found was so, or the second look will contradict it, as
\* a journal it found has gone, or one it did not find is still to go.
SecondGroups(reads) ==
  \/ Summary(memo.groups) \in moments
  \/ GroupsDiffer(reads)
  \/ \E t \in Pending(memo.groups) : Finished(t) /\ Unread(t, reads)
  \/ /\ \A t \in Pending(memo.groups) : journal[t].sealed /\ memo.groups[t].sealed
     /\ \E t \in T \ Pending(memo.groups) : ~Finished(t)
     /\ \A t \in T \ Pending(memo.groups) :
          Finished(t) \/ (/\ journal[t].sealed /\ Unread(t, reads)
                          /\ \A u \in Pending(memo.groups) : t < u)
GroupsNoted == at.round = 2 \/ (at.round = 1 /\ at.part >= 2)
GroupsInv ==
  /\ Collecting /\ at.part = 1 => FirstGroups(got)
  /\ GroupsNoted /\ at.part \in 2 .. 4 /\ Pending(memo.groups) # {} => SecondGroups(got)
  /\ GroupsNoted /\ at.part \in 5 .. 6 /\ Pending(memo.groups) # {} =>
       Summary(memo.groups) \in moments

-----------------------------------------------------------------------------
(* A report of plans.                                                       *)

\* What would be planned for a home now, and what is planned for it by what was read.
Due(t) == Effects(request, manifest[t], file[t], manifest[t])
Wrong(t) == Due(t) # memo.plan.effects[t]
Misread(t, reads) ==
  /\ 3 * t - 1 <= Len(reads)
  /\ Effects(request, manifest[t], reads[3 * t - 1], manifest[t]) # memo.plan.effects[t]

\* While nobody but the user changes a home, what was read is still so, or he edited it.
Current(t, reads) ==
  /\ 3 * t - 2 <= Len(reads) => reads[3 * t - 2] = manifest[t]
  /\ 3 * t - 1 <= Len(reads) => reads[3 * t - 1] = file[t] \/ t \in edits.files
  /\ 3 * t <= Len(reads) => reads[3 * t] = manifest[t]
AllCurrent(reads) == \A t \in T : Current(t, reads)

Several == \E t, u \in edits.files : t # u
\* With one edit at most, a plan that is read was due at a moment, or differs.
OnePass(reads) ==
  \/ memo.plan \in moments
  \/ \E t \in T : Misread(t, reads) \/ (Wrong(t) /\ 3 * t - 1 > Len(reads))
\* With more, and no transaction: a file that was edited is not as it was in the pass before.
Touched(reads) ==
  \E t \in edits.files :
    Wrong(t) /\ (at.part = 5 /\ 3 * t - 1 <= Len(reads) => Misread(t, reads))

FirstPlan(reads) ==
  Unborn => AllCurrent(reads) /\ (~Several => OnePass(reads))
SecondPlan(reads) ==
  \/ memo.plan \in moments
  \/ /\ writer.tx < edits.first /\ Several /\ Touched(reads)
     /\ at.part = 5 => AllCurrent(reads)
  \/ /\ writer.tx = edits.first /\ ~Unborn
     /\ at.part = 4 => \/ \E t \in T : t <= Len(reads) /\ reads[t] # NoJournal
                       \/ \A t \in T : t <= Len(reads) => Finished(t)
     /\ at.part = 5 => Over /\ AllCurrent(reads) /\ OnePass(reads)
PlansInv ==
  at.round = 2 /\ Pending(memo.groups) = {} =>
    /\ at.part = 3 => FirstPlan(got)
    /\ at.part \in {4, 5} => SecondPlan(got)
    /\ at.part = 6 => memo.plan \in moments

-----------------------------------------------------------------------------
(* The invariant of reports.                                                *)

ReportNow == Report(request, journal, manifest, file)
Shaped ==
  /\ memo.plan = [kind |-> "plan", participants |-> {}, effects |-> memo.plan.effects]
  /\ memo.plan.effects = [t \in T |-> memo.plan.effects[t]]
Watching ==
  /\ at.round # 3 => printed = Nothing
  /\ Running => ReportNow \in moments
  /\ at.round = 2 \/ (at.round = 1 /\ at.part >= 4) => Pending(memo.groups) # {} \/ Shaped
MomentInv ==
  /\ JournalInv /\ Ahead /\ Watching /\ ReportIsOfOneMoment
  /\ writer.tx <= edits.first /\ ~edits.missed => GroupsInv
  /\ ~Concealed => PlansInv

\* What the user has edited beside the collection is as it was, and so is the number from
\* which it counts; a journal that was missed stays missed.
SameEdits ==
  /\ edits'.files = edits.files /\ edits'.twice = edits.twice /\ edits'.first = edits.first
  /\ edits.missed => edits'.missed
Beginning == \E earlier \in BOOLEAN : FromHere(earlier)

\* What kinds of values the numbers and the notes are.
LEMMA Fields ==
  ASSUME TypeOK
  PROVE  /\ writer.tx \in Nat /\ writer.next \in Nat /\ writer.phase \in Phases
         /\ edits.first \in Nat /\ edits.files \in SUBSET T
         /\ edits.twice \in BOOLEAN /\ edits.missed \in BOOLEAN
BY DEF TypeOK, Writers, Watches

\* To look at a journal is not to edit.
LEMMA LooksIs ==
  ASSUME TypeOK, UNCHANGED edits \/ Looks
  PROVE  /\ SameEdits
         /\ Looks /\ ~edits'.missed => ~Missed(Len(got))
<1>0. edits \in Watches
  BY DEF TypeOK
<1>1. CASE UNCHANGED edits
  BY <1>0, <1>1 DEF SameEdits, Looks, Watches
<1>2. CASE Looks
  <2>1. edits' = [edits EXCEPT !.missed = edits.missed \/ Missed(Len(got))]
    BY <1>2 DEF Looks
  <2> QED
    BY <1>0, <2>1 DEF SameEdits, Watches
<1> QED
  BY <1>1, <1>2

\* A step in the middle of the operations is one of an open transaction.
LEMMA MidwayBeside ==
  ASSUME Midway
  PROVE  writer.phase \in {"apply", "place", "undo", "restore"} /\ Beside
BY DEF Midway, Apply, Place, Applied, Undo, Restore, Undone, Fail, Writes

\* A transaction begins, goes on, or is left alone.
LEMMA OthersGo ==
  ASSUME TypeOK, Others
  PROVE  \/ /\ writer.phase = "idle" /\ writer'.tx = writer.tx + 1 /\ UNCHANGED world
            /\ writer'.phase = "journal" /\ writer'.next = 1
         \/ writer.phase # "idle" /\ writer'.tx = writer.tx /\ ~Edit
         \/ UNCHANGED <<writer, manifest, journal>> /\ (Edit \/ UNCHANGED file)
<1>0. writer \in Writers
  BY DEF TypeOK
<1>1. CASE Edit \/ Detach \/ Attach
  BY <1>1 DEF Edit, Detach, Attach
<1>g. ASSUME NEW p, NEW n, Goes(p, n), ~Edit, writer.phase # "idle"
      PROVE  writer.phase # "idle" /\ writer'.tx = writer.tx /\ ~Edit
  BY <1>g DEF Goes
<1>2. ASSUME NEW o \in {"install", "uninstall"}, Plan(o)
      PROVE  /\ writer.phase = "idle" /\ writer'.tx = writer.tx + 1 /\ UNCHANGED world
             /\ writer'.phase = "journal" /\ writer'.next = 1
  BY <1>0, <1>2 DEF Plan, Writers
<1>3. CASE Midway /\ ~Edit
  BY <1>3, <1>g, MidwayBeside, MidwayGoes
<1>4. CASE (Journal \/ (Fail /\ writer.phase = "journal") \/ Seal \/ Clean) /\ ~Edit
  <2>1. writer.phase # "idle" /\ \E p, n : Moves(p, n)
    BY <1>4 DEF Journal, Fail, Seal, Clean
  <2> QED
    BY <1>4, <1>g, <2>1, Moving
<1>5. CASE Crash /\ ~Edit
  BY <1>5, <1>g, Crashing
<1>6. CASE Recover /\ ~Edit
  <2>1. writer.phase # "idle" /\ \E p, n : Resumes(p, n)
    BY <1>6 DEF Recover
  <2> QED
    BY <1>6, <1>g, <2>1, Resuming
<1> QED
  BY <1>1, <1>2, <1>3, <1>4, <1>5, <1>6, OthersAre

\* What a step of the other process or of the user does to the journals, one by one.
LEMMA JournalMoves ==
  ASSUME TypeOK, JournalInv, Others, NEW t \in T
  PROVE  /\ writer'.tx >= writer.tx
         /\ journal[t] = NoJournal /\ journal'[t] # NoJournal => writer.phase = "journal"
         /\ journal[t].sealed => journal'[t].sealed \/ journal'[t] = NoJournal
         /\ ~journal[t].sealed /\ journal'[t].sealed => \A u \in T : journal[u] # NoJournal
         /\ journal[t] # NoJournal /\ journal'[t] = NoJournal =>
              writer'.phase \in {"clean", "idle"} /\ writer'.tx = writer.tx
<1>0. writer.tx \in Nat /\ writer.next \in Nat /\ NoJournal.sealed = FALSE
      /\ journal \in [T -> Journals]
  BY Fields DEF NoJournal, TypeOK
<1>p. ASSUME NEW p, NEW n, Moves(p, n)
      PROVE  writer'.phase = p /\ writer'.next = n /\ writer'.tx = writer.tx
  BY <1>p, Moving DEF Goes
<1>t. writer'.tx >= writer.tx
  BY <1>0, OthersGo
<1>1. CASE \E o \in {"install", "uninstall"} : Plan(o)
  <2>1. UNCHANGED journal
    BY <1>1 DEF Plan, world
  <2> QED
    BY <1>0, <1>t, <2>1
<1>2. CASE Journal
  <2>1. /\ writer.phase = "journal" /\ writer.next \in T
        /\ journal' = [journal EXCEPT ![writer.next] = [tx |-> writer.tx, sealed |-> FALSE]]
    BY <1>2 DEF Journal, TypeOK
  <2>2. \A u \in T : ~journal[u].sealed /\ (u = writer.next => journal[u] = NoJournal)
    BY <1>0, <2>1 DEF JournalInv, Decided, Journaled
  <2>3. journal'[t] = (IF t = writer.next THEN [tx |-> writer.tx, sealed |-> FALSE]
                       ELSE journal[t])
    BY <1>0, <2>1
  <2>4. writer.tx > 0
    BY <2>1 DEF JournalInv
  <2>5. t = writer.next => journal'[t] # NoJournal /\ ~journal'[t].sealed
    BY <1>0, <2>3, <2>4 DEF NoJournal
  <2> QED
    BY <1>0, <1>t, <2>1, <2>2, <2>3, <2>5
<1>3. CASE Seal
  <2>1. writer.phase = "seal" /\ writer.next \in T
        /\ journal' = [journal EXCEPT ![writer.next].sealed = TRUE]
    BY <1>3 DEF Seal, TypeOK
  <2>2. \A u \in T : journal[u] # NoJournal
    BY <2>1, HeldIsThere DEF JournalInv, Journaled
  <2>3. /\ journal'[t].tx = journal[t].tx /\ (journal[t].sealed => journal'[t].sealed)
    BY <1>0, <2>1 DEF Journals
  <2>4. Held(t) /\ writer.tx > 0
    BY <2>2, HeldIsThere DEF Held
  <2>5. journal'[t] # NoJournal
    BY <2>3, <2>4 DEF Held, NoJournal
  <2> QED
    BY <1>0, <1>t, <2>1, <2>2, <2>3, <2>5
<1>4. CASE Clean
  <2>1. /\ journal'[t] = NoJournal \/ journal'[t] = journal[t]
    BY <1>0, <1>4 DEF Clean
  <2>2. writer'.phase \in {"clean", "idle"} /\ writer'.tx = writer.tx
    BY <1>4, <1>p DEF Clean
  <2> QED
    BY <1>0, <1>t, <2>1, <2>2
<1>5. CASE UNCHANGED journal
  BY <1>0, <1>t, <1>5
<1>6. CASE Detach \/ Attach \/ Midway \/ (Fail /\ writer.phase = "journal") \/ Crash \/ Recover \/ Edit
  <2>1. Midway => UNCHANGED journal
    BY MidwayIs
  <2>2. Fail /\ writer.phase = "journal" => UNCHANGED journal
    BY DEF Fail, world
  <2> QED
    BY <1>5, <1>6, <2>1, <2>2 DEF Detach, Attach, Crash, Recover, Edit, world
<1> QED
  BY <1>1, <1>2, <1>3, <1>4, <1>6, OthersAre

\* A transaction takes a number that the collection has not met.
LEMMA AheadStays ==
  ASSUME TypeOK, Ahead, Others
  PROVE  Ahead' /\ edits'.first = edits.first /\ edits.first \in Nat
<1>0. writer.tx \in Nat /\ edits.first \in Nat /\ edits'.first = edits.first
  BY Fields, OthersLeave
<1>1. CASE writer.phase = "idle" /\ writer'.tx = writer.tx + 1
  BY <1>0, <1>1 DEF Ahead
<1>2. CASE writer.phase # "idle" /\ writer'.tx = writer.tx
  BY <1>0, <1>2 DEF Ahead
<1>3. CASE UNCHANGED writer
  BY <1>0, <1>3 DEF Ahead
<1> QED
  BY <1>0, <1>1, <1>2, <1>3, OthersGo

\* A home with which the only transaction is through stays so.
LEMMA FinishedStays ==
  ASSUME TypeOK, JournalInv, Ahead, Others, writer'.tx <= edits'.first, NEW t \in T
  PROVE  /\ Finished(t) => Finished(t)'
         /\ journal[t] # NoJournal => journal'[t] # NoJournal \/ Finished(t)'
         /\ journal[t].sealed => journal'[t].sealed \/ Finished(t)'
<1>0. writer.tx \in Nat /\ writer'.tx \in Nat /\ writer'.tx >= writer.tx
      /\ edits'.first = edits.first /\ edits.first \in Nat
  <2>1. writer'.tx \in Nat
    BY TypeOthers DEF TypeOK, Writers
  <2> QED
    BY <2>1, Fields, JournalMoves, AheadStays
<1>1. ASSUME journal[t] # NoJournal, journal'[t] = NoJournal PROVE Finished(t)'
  <2>1. writer.tx >= edits.first
    BY <1>1 DEF JournalInv, Journaled, Ahead
  <2> QED
    BY <1>0, <1>1, <2>1, JournalMoves DEF Finished
<1>2. ASSUME Finished(t) PROVE Finished(t)'
  <2>1. writer'.tx = edits'.first /\ writer.phase # "journal"
    BY <1>0, <1>2 DEF Finished
  <2>2. journal'[t] = NoJournal
    BY <1>2, <2>1, JournalMoves DEF Finished
  <2>3. writer'.phase \in {"idle", "clean", "dead"}
    <3>1. CASE writer'.tx = writer.tx + 1
      BY <1>0, <1>2, <2>1, <3>1 DEF Finished
    <3>2. CASE UNCHANGED writer
      BY <1>2, <3>2 DEF Finished
    <3>3. CASE Clean
      <4>1. PICK p, n : p \in {"clean", "idle"} /\ Moves(p, n)
        BY <3>3 DEF Clean
      <4> QED
        BY <4>1, Moving DEF Goes
    <3>4. CASE Crash
      BY <3>4, Crashing DEF Goes
    <3>5. CASE Recover
      <4>1. ~Torn(journal) /\ Pending(journal) # T
        BY <1>2, <3>5 DEF Recover, Finished, Pending
      <4>2. \A u \in Pending(journal) : journal[u].sealed
        BY <4>1 DEF Torn
      <4>3. Resumes("clean", 1)
        BY <3>5, <4>2 DEF Recover
      <4> QED
        BY <4>3, Resuming DEF Goes
    <3>6. ~Journal /\ ~Seal /\ ~Midway /\ ~(Fail /\ writer.phase = "journal")
      BY <1>2, MidwayBeside DEF Finished, Journal, Seal
    <3>7. Detach \/ Attach \/ Edit => UNCHANGED writer
      BY DEF Detach, Attach, Edit
    <3>8. (\E o \in {"install", "uninstall"} : Plan(o)) => writer'.tx = writer.tx + 1
      BY DEF Plan, TypeOK, Writers
    <3> QED
      BY <3>1, <3>2, <3>3, <3>4, <3>5, <3>6, <3>7, <3>8, OthersAre
  <2> QED
    BY <2>1, <2>2, <2>3 DEF Finished
<1>3. ASSUME journal[t].sealed PROVE journal'[t].sealed \/ Finished(t)'
  <2>1. journal[t] # NoJournal
    BY <1>3 DEF NoJournal
  <2> QED
    BY <1>1, <1>3, <2>1, JournalMoves
<1> QED
  BY <1>1, <1>2, <1>3

\* Before the transaction begins and after it is over only the user changes a home.
LEMMA StillHomes ==
  ASSUME TypeOK, JournalInv, Ahead, Others, writer'.tx <= edits'.first
  PROVE  /\ Unborn' => Unborn
         /\ Unborn \/ Over => \A t \in T : journal[t] = NoJournal
         /\ Unborn' \/ Over => UNCHANGED <<manifest, journal>> /\ (Edit \/ UNCHANGED file)
         /\ Over => Over'
<1>0. /\ writer.tx \in Nat /\ writer'.tx \in Nat /\ writer'.tx >= writer.tx /\ writer.next \in Nat
      /\ \A t \in T : t >= 1 /\ t \in Nat
      /\ edits'.first = edits.first /\ edits.first \in Nat
  <2>1. writer'.tx \in Nat
    BY TypeOthers DEF TypeOK, Writers
  <2> QED
    BY <2>1, Fields, JournalMoves, Numbers, AheadStays
<1>p. ASSUME NEW p, NEW n, Moves(p, n)
      PROVE  writer'.phase = p /\ writer'.next = n /\ writer'.tx = writer.tx
  BY <1>p, Moving DEF Goes
<1>1. Unborn \/ Over => \A t \in T : journal[t] = NoJournal
  <2>1. ASSUME Unborn, NEW t \in T PROVE journal[t] = NoJournal
    <3>1. writer.tx < edits.first => writer.phase = "idle"
      BY <1>0 DEF Ahead
    <3> QED
      BY <1>0, <2>1, <3>1 DEF Unborn, JournalInv, Journaled
  <2> QED
    BY <2>1 DEF Over, Finished
<1>2. Over => Over'
  BY FinishedStays DEF Over
<1>3. ASSUME Unborn' PROVE Unborn /\ UNCHANGED <<manifest, journal>> /\ (Edit \/ UNCHANGED file)
  <2>1. CASE writer.phase = "idle" /\ writer'.tx = writer.tx + 1 /\ UNCHANGED world
    BY <1>0, <1>3, <2>1 DEF world, Unborn
  <2>2. CASE UNCHANGED <<writer, manifest, journal>> /\ (Edit \/ UNCHANGED file)
    BY <1>0, <1>3, <2>2 DEF Unborn
  <2>3. CASE writer.phase # "idle" /\ writer'.tx = writer.tx /\ ~Edit
    <3>1. writer.tx >= edits.first
      BY <2>3 DEF Ahead
    <3>2. writer'.phase = "journal" /\ writer'.next = 1
      BY <1>0, <1>3, <2>3, <3>1 DEF Unborn
    <3>3. ~Journal
      <4>1. SUFFICES ASSUME Journal PROVE FALSE
        OBVIOUS
      <4>2. writer.next \in T /\ \E p, n : Moves(p, n) /\ (p = "journal" => n = writer.next + 1)
        BY <4>1 DEF Journal, TypeOK
      <4>3. writer'.next = writer.next + 1
        BY <1>p, <3>2, <4>2
      <4> QED
        BY <1>0, <3>2, <4>2, <4>3
    <3>4. ~Midway
      BY <3>2, MidwayGoes DEF Goes, Landing, Steps
    <3>5. ~Seal /\ ~Clean /\ ~(Fail /\ writer.phase = "journal")
      <4>1. Seal \/ Clean \/ (Fail /\ writer.phase = "journal") =>
              \E p, n : p \in {"seal", "clean", "idle"} /\ Moves(p, n)
        BY DEF Seal, Clean, Fail
      <4> QED
        BY <1>p, <3>2, <4>1
    <3>6. ~Crash
      BY <3>2, Crashing DEF Goes
    <3>7. ~Recover
      <4>1. Recover => \E p, n : p \in {"seal", "clean", "undo"} /\ Resumes(p, n)
        BY DEF Recover
      <4> QED
        BY <3>2, <4>1, Resuming DEF Goes
    <3>8. ~\E o \in {"install", "uninstall"} : Plan(o)
      BY <2>3 DEF Plan
    <3>9. Detach \/ Attach => UNCHANGED <<writer, manifest, journal, file>>
      BY DEF Detach, Attach
    <3> QED
      BY <2>2, <2>3, <3>3, <3>4, <3>5, <3>6, <3>7, <3>8, <3>9, OthersAre
  <2> QED
    BY <2>1, <2>2, <2>3, OthersGo
<1>4. ASSUME Over PROVE UNCHANGED <<manifest, journal>> /\ (Edit \/ UNCHANGED file)
  <2>1. writer.tx = edits.first /\ writer.phase \in {"idle", "clean", "dead"}
    BY <1>4, Numbers DEF Over, Finished
  <2>2. ~\E o \in {"install", "uninstall"} : Plan(o)
    <3>1. (\E o \in {"install", "uninstall"} : Plan(o)) => writer'.tx = writer.tx + 1
      BY DEF Plan, TypeOK, Writers
    <3> QED
      BY <1>0, <2>1, <3>1
  <2>3. CASE Clean
    <3>1. writer.next \in T /\ journal' = [journal EXCEPT ![writer.next] = NoJournal]
      BY <2>3 DEF Clean, TypeOK
    <3>2. journal[writer.next] = NoJournal
      BY <1>1, <1>4, <3>1
    <3>3. journal' = journal
      BY <3>1, <3>2 DEF TypeOK
    <3> QED
      BY <2>3, <3>3 DEF Clean
  <2>4. CASE Crash \/ Recover \/ Detach \/ Attach
    BY <2>4 DEF Crash, Recover, Detach, Attach, world
  <2>5. CASE Edit
    BY <2>5 DEF Edit
  <2>6. ~Journal /\ ~Seal /\ ~Midway /\ ~(Fail /\ writer.phase = "journal")
    BY <2>1, MidwayBeside DEF Journal, Seal
  <2> QED
    BY <2>2, <2>3, <2>4, <2>5, <2>6, OthersAre
<1> QED
  BY <1>1, <1>2, <1>3, <1>4

-----------------------------------------------------------------------------
(* Reports of journals.                                                     *)

\* A home without a journal beside a sealed one has lost it for good.
LEMMA SealedBeside ==
  ASSUME TypeOK, JournalInv, Ahead, writer.tx <= edits.first, NEW t \in T, NEW u \in T,
         journal[u].sealed, journal[t] = NoJournal
  PROVE  Finished(t)
<1>1. journal[u] # NoJournal
  BY DEF NoJournal
<1>2. writer.tx >= edits.first /\ writer.tx \in Nat /\ edits.first \in Nat
  BY <1>1, Fields DEF JournalInv, Journaled, Ahead
<1>3. writer.phase \in {"seal", "clean", "dead"}
  BY DEF JournalInv, Decided
<1>4. writer.phase # "seal"
  BY HeldIsThere DEF JournalInv, Journaled
<1> QED
  BY <1>2, <1>3, <1>4 DEF Finished

\* What a group of journals is reported as, by who has one and whether all are sealed.
LEMMA SummaryIs ==
  ASSUME NEW js, NEW gs, Pending(js) = Pending(gs),
         (\A t \in Pending(js) : js[t].sealed) <=> (\A t \in Pending(gs) : gs[t].sealed)
  PROVE  Summary(js) = Summary(gs)
BY DEF Summary

\* A group with a journal on every home, one of them not sealed, is rolled back.
LEMMA RollbackIs ==
  ASSUME NEW js, \A t \in T : js[t] # NoJournal, NEW t \in T, ~js[t].sealed
  PROVE  Summary(js) = Rollback
<1>1. Pending(js) = T
  BY DEF Pending
<1> QED
  BY <1>1 DEF Summary, Rollback

\* What the first look has found stays as it says.
LEMMA FirstGroupsStay ==
  ASSUME TypeOK, JournalInv, Ahead, Others, writer'.tx <= edits'.first, moments \subseteq moments',
         ReportNow \in moments, NEW reads, FirstGroups(reads)
  PROVE  FirstGroups(reads)'
<1> SUFFICES ASSUME NEW t \in T, t <= Len(reads)
             PROVE  /\ reads[t].sealed => journal'[t].sealed \/ Finished(t)'
                    /\ reads[t] # NoJournal => journal'[t] # NoJournal \/ Finished(t)'
                    /\ reads[t] # NoJournal /\ ~reads[t].sealed =>
                         \/ journal'[t] # NoJournal /\ ~journal'[t].sealed
                         \/ Rollback \in moments' \/ Finished(t)'
                    /\ \A u \in T : reads[t] = NoJournal /\ u < t /\ reads[u].sealed =>
                         Finished(t)' \/ Finished(u)'
  BY DEF FirstGroups, Rollback, T
<1>1. \A u \in T : /\ Finished(u) => Finished(u)'
                   /\ journal[u] # NoJournal => journal'[u] # NoJournal \/ Finished(u)'
                   /\ journal[u].sealed => journal'[u].sealed \/ Finished(u)'
  BY FinishedStays
<1>2. ASSUME journal[t] # NoJournal, ~journal[t].sealed, journal'[t].sealed
      PROVE  Rollback \in moments
  <2>1. \A u \in T : journal[u] # NoJournal
    BY <1>2, JournalMoves
  <2>2. ReportNow = Summary(journal)
    BY <2>1 DEF ReportNow, Report, Pending
  <2> QED
    BY <1>2, <2>1, <2>2, RollbackIs
<1> QED
  BY <1>1, <1>2 DEF FirstGroups

\* One more read of the first look.
LEMMA FirstGroupsRead ==
  ASSUME TypeOK, Reading, JournalInv, Ahead, writer.tx <= edits.first, Collecting, at.part = 1,
         ~Missed(Len(got)), FirstGroups(got)
  PROVE  FirstGroups(Reads)
<1> DEFINE n == Len(got) + 1
<1>0. Running /\ at.round > 0 /\ at.part \in 1 .. 6
  BY DEF Running, Collecting
<1>1. /\ Part = "groups" /\ Len(Cells) = 1 /\ Targets \in Nat
      /\ Len(got) \in Nat /\ Len(got) < Targets * Len(Cells)
  BY <1>0, PartsAre, ReadsAre, Numbers
<1>2. /\ Reads[n] = journal[n] /\ n \in T /\ Len(Reads) = n
      /\ \A i \in T : i < n => Reads[i] = got[i] /\ i <= Len(got)
  <2>1. Len(got) < Targets
    BY <1>1
  <2>2. n \in T /\ Value(Len(got)) = journal[n]
    BY <1>0, <1>1, ReadAt
  <2>3. \A i \in T : i < n => i \in 1 .. Len(got)
    BY <1>1 DEF T
  <2> QED
    BY <1>0, <2>2, <2>3, ReadsAre
<1>3. \A i \in T : i \in Nat /\ (i <= n => i < n \/ i = n)
  BY <1>1 DEF T
<1> HIDE DEF n
<1> SUFFICES ASSUME NEW t \in T, t <= n
             PROVE  /\ Reads[t].sealed => journal[t].sealed \/ Finished(t)
                    /\ Reads[t] # NoJournal => journal[t] # NoJournal \/ Finished(t)
                    /\ Reads[t] # NoJournal /\ ~Reads[t].sealed =>
                         \/ journal[t] # NoJournal /\ ~journal[t].sealed
                         \/ Rollback \in moments \/ Finished(t)
                    /\ \A u \in T : Reads[t] = NoJournal /\ u < t /\ Reads[u].sealed =>
                         Finished(t) \/ Finished(u)
  BY <1>2 DEF FirstGroups
<1>4. CASE t = n
  <2>2. ASSUME NEW u \in T, Reads[t] = NoJournal, u < t, Reads[u].sealed
        PROVE  Finished(t) \/ Finished(u)
    <3>1. journal[u].sealed \/ Finished(u)
      BY <1>2, <1>4, <2>2 DEF FirstGroups
    <3> QED
      BY <1>2, <1>4, <2>2, <3>1, SealedBeside
  <2> QED
    BY <1>2, <1>4, <2>2
<1>5. CASE t < n
  <2>1. Reads[t] = got[t] /\ t <= Len(got) /\ \A u \in T : u < t => Reads[u] = got[u]
    BY <1>2, <1>3, <1>5
  <2> QED
    BY <2>1 DEF FirstGroups
<1> QED
  BY <1>3, <1>4, <1>5

\* What the first look has found was so at once, or a later look will not find it.
LEMMA GroupsFound ==
  ASSUME TypeOK, JournalInv, Ahead, writer.tx <= edits.first, ReportNow \in moments, NEW reads,
         FirstGroups(reads), \A t \in T : t <= Len(reads),
         NEW g, g = [t \in T |-> reads[t]], ~Torn(g), Pending(g) # {}
  PROVE  \/ Summary(g) \in moments
         \/ \E t \in Pending(g) : Finished(t)
         \/ /\ \A t \in Pending(g) : journal[t].sealed /\ g[t].sealed
            /\ \E t \in T \ Pending(g) : ~Finished(t)
            /\ \A t \in T \ Pending(g) :
                 Finished(t) \/ (journal[t].sealed /\ \A u \in Pending(g) : t < u)
<1> SUFFICES ASSUME \A t \in Pending(g) : ~Finished(t)
             PROVE  \/ Summary(g) \in moments
                    \/ /\ \A t \in Pending(g) : journal[t].sealed /\ g[t].sealed
                       /\ \E t \in T \ Pending(g) : ~Finished(t)
                       /\ \A t \in T \ Pending(g) :
                            Finished(t) \/ (journal[t].sealed /\ \A u \in Pending(g) : t < u)
  OBVIOUS
<1>0. /\ Pending(g) = {t \in T : reads[t] # NoJournal} /\ \A t \in T : g[t] = reads[t]
      /\ NoJournal.sealed = FALSE /\ \A t \in T : t \in Nat
  BY Numbers DEF Pending, NoJournal
<1>1. \A t \in Pending(g) : journal[t] # NoJournal /\ (g[t].sealed => journal[t].sealed)
  BY <1>0 DEF FirstGroups
<1>2. CASE \E t \in Pending(g) : ~g[t].sealed
  <2>1. PICK t \in Pending(g) : ~g[t].sealed
    BY <1>2
  <2>2. Pending(g) = T
    BY <2>1 DEF Torn
  <2>3. \A u \in T : journal[u] # NoJournal /\ g[u] # NoJournal
    BY <1>0, <1>1, <2>2
  <2>4. Rollback \in moments \/ ~journal[t].sealed
    BY <1>0, <2>1, <2>2 DEF FirstGroups
  <2>5. ~journal[t].sealed => ReportNow = Rollback
    <3>1. ReportNow = Summary(journal)
      BY <2>2, <2>3 DEF ReportNow, Report, Pending
    <3> QED
      BY <2>2, <2>3, <3>1, RollbackIs
  <2>6. Summary(g) = Rollback
    BY <2>1, <2>2, <2>3, RollbackIs
  <2> QED
    BY <2>4, <2>5, <2>6
<1>3. CASE \A t \in Pending(g) : g[t].sealed
  <2>1. PICK w \in Pending(g) : journal[w].sealed
    BY <1>1, <1>3
  <2>2. ASSUME NEW t \in T \ Pending(g), ~Finished(t)
        PROVE  journal[t].sealed /\ \A u \in Pending(g) : t < u
    <3>1. journal[t] # NoJournal
      BY <1>0, <2>1, <2>2, SealedBeside
    <3>2. ASSUME NEW u \in Pending(g) PROVE t < u
      <4>1. ~(u < t)
        BY <1>0, <1>3, <2>2 DEF FirstGroups
      <4> QED
        BY <1>0, <2>2, <4>1
    <3>3. journal[t].sealed
      BY <1>0, <2>1, <2>2, <3>1, <3>2 DEF JournalInv, Decided
    <3> QED
      BY <3>2, <3>3
  <2>3. CASE \A t \in T \ Pending(g) : Finished(t)
    <3>1. Pending(journal) = Pending(g)
      BY <1>0, <1>1, <2>3 DEF Pending, Finished
    <3>2. Summary(journal) = Summary(g)
      BY <1>1, <1>3, <3>1, SummaryIs
    <3>3. ReportNow = Summary(journal)
      BY <3>1 DEF ReportNow, Report
    <3> QED
      BY <3>2, <3>3
  <2> QED
    BY <1>1, <1>3, <2>2, <2>3
<1> QED
  BY <1>2, <1>3

\* What is known between the looks stays so while others go on.
LEMMA SecondGroupsStay ==
  ASSUME TypeOK, JournalInv, Ahead, Others, writer'.tx <= edits'.first, moments \subseteq moments',
         ReportNow' \in moments', at' = at, memo' = memo, Pending(memo.groups) # {},
         NEW reads, SecondGroups(reads)
  PROVE  SecondGroups(reads)'
<1> DEFINE P == Pending(memo.groups)
<1>0. /\ Pending(memo.groups)' = P /\ Summary(memo.groups)' = Summary(memo.groups)
      /\ P \subseteq T /\ \A t \in T : t \in Nat
  BY Numbers DEF Pending, Summary, T
<1>1. \A t \in T : /\ Finished(t) => Finished(t)'
                   /\ journal[t].sealed => journal'[t].sealed \/ Finished(t)'
  BY FinishedStays
<1>u. \A t \in T : Unread(t, reads)' <=> Unread(t, reads)
  BY DEF Unread
<1>2. CASE Summary(memo.groups) \in moments
  BY <1>0, <1>2 DEF SecondGroups
<1>3. CASE GroupsDiffer(reads)
  <2>1. GroupsDiffer(reads)'
    BY <1>3 DEF GroupsDiffer, T
  <2> QED
    BY <2>1 DEF SecondGroups
<1>4. CASE \E t \in P : Finished(t) /\ Unread(t, reads)
  BY <1>0, <1>1, <1>4, <1>u DEF SecondGroups
<1>5. CASE /\ \A t \in P : journal[t].sealed /\ memo.groups[t].sealed
           /\ \E t \in T \ P : ~Finished(t)
           /\ \A t \in T \ P : Finished(t) \/ (/\ journal[t].sealed /\ Unread(t, reads)
                                               /\ \A u \in P : t < u)
  <2>1. PICK a \in T \ P : ~Finished(a) /\ Unread(a, reads) /\ \A u \in P : a < u
    BY <1>5
  <2>2. \A u \in P : Unread(u, reads)
    <3> SUFFICES ASSUME at.part = 4, NEW u \in P, ~(u > Len(reads)) PROVE FALSE
      BY DEF Unread
    <3>1. a > Len(reads) /\ a < u /\ a \in Nat /\ u \in Nat
      BY <1>0, <2>1 DEF Unread
    <3>2. a \in T /\ a <= Len(reads) => FALSE
      BY <1>0, <3>1 DEF T
    <3> QED
      BY <1>0, <2>1, <3>1, <3>2 DEF Unread
  <2>3. CASE \E u \in P : ~journal'[u].sealed
    <3>1. PICK u \in P : Finished(u)'
      BY <1>0, <1>1, <1>5, <2>3
    <3> QED
      BY <1>0, <1>u, <2>2, <3>1 DEF SecondGroups
  <2>4. CASE /\ \A u \in P : journal'[u].sealed
             /\ \E t \in T \ P : ~Finished(t)'
    <3>1. \A t \in T \ P : Finished(t)' \/ (/\ journal'[t].sealed /\ Unread(t, reads)'
                                            /\ \A u \in P : t < u)
      BY <1>1, <1>5, <1>u
    <3>2. T' = T
      BY DEF T
    <3> QED
      BY <1>0, <1>5, <2>4, <3>1, <3>2 DEF SecondGroups
  <2>5. CASE /\ \A u \in P : journal'[u].sealed
             /\ \A t \in T \ P : Finished(t)'
    <3>1. \A u \in P : journal'[u] # NoJournal
      BY <2>5 DEF NoJournal
    <3>2. Pending(journal') = P
      BY <1>0, <2>5, <3>1 DEF Pending, Finished
    <3>3. Summary(journal') = Summary(memo.groups)
      BY <1>5, <2>5, <3>2, SummaryIs
    <3>4. ReportNow' = Summary(journal')
      BY <3>2 DEF ReportNow, Report, Pending, T, Summary
    <3> QED
      BY <1>0, <3>3, <3>4 DEF SecondGroups
  <2> QED
    BY <2>3, <2>4, <2>5
<1> QED
  BY <1>2, <1>3, <1>4, <1>5 DEF SecondGroups

\* One more read of the second look.
LEMMA SecondGroupsRead ==
  ASSUME TypeOK, Reading, Running, at.part = 4, ~Missed(Len(got)), SecondGroups(got)
  PROVE  SecondGroups(Reads)
<1> DEFINE n == Len(got) + 1
           P == Pending(memo.groups)
<1>1. /\ Part = "groups" /\ Len(Cells) = 1 /\ Targets \in Nat
      /\ Len(got) \in Nat /\ Len(got) < Targets * Len(Cells)
  BY PartsAre, ReadsAre, Numbers
<1>0. at.round > 0 /\ at.part \in 1 .. 6
  BY DEF Reading
<1>2. /\ Reads[n] = journal[n] /\ n \in T /\ Len(Reads) = n /\ Len(got) < n
      /\ \A i \in T : i <= Len(got) => Reads[i] = got[i] /\ i <= n
      /\ \A i \in T : i > Len(got) => i = n \/ i > n
  <2>1. Len(got) < Targets
    BY <1>1
  <2>2. n \in T /\ Value(Len(got)) = journal[n]
    BY <1>0, <1>1, ReadAt
  <2>3. \A i \in T : i <= Len(got) => i \in 1 .. Len(got) /\ i <= n
    BY <1>1 DEF T
  <2>4. \A i \in T : i > Len(got) => i = n \/ i > n
    BY <1>1 DEF T
  <2> QED
    BY <1>1, <2>2, <2>3, <2>4, ReadsAre
<1>3. P \subseteq T /\ \A t \in T : t \in P <=> memo.groups[t] # NoJournal
  BY DEF Pending
<1>n. n \in Nat /\ \A t \in T : t \in Nat
  BY <1>2, Numbers
<1> HIDE DEF n
<1>4. CASE Summary(memo.groups) \in moments
  BY <1>4 DEF SecondGroups
<1>5. CASE GroupsDiffer(got)
  <2>1. GroupsDiffer(Reads)
    BY <1>2, <1>5 DEF GroupsDiffer
  <2> QED
    BY <2>1 DEF SecondGroups
\* A home that is read without what the first look has found there.
<1>6. ASSUME journal[n] # memo.groups[n] PROVE SecondGroups(Reads)
  <2>1. GroupsDiffer(Reads)
    BY <1>2, <1>6, <1>n DEF GroupsDiffer
  <2> QED
    BY <2>1 DEF SecondGroups
<1>7. CASE \E t \in P : Finished(t) /\ Unread(t, got)
  <2>1. PICK t \in P : Finished(t) /\ t > Len(got)
    BY <1>7 DEF Unread
  <2>2. t = n => journal[n] # memo.groups[n]
    BY <1>3, <2>1 DEF Finished
  <2>3. t # n => Unread(t, Reads)
    BY <1>2, <1>3, <2>1 DEF Unread
  <2> QED
    BY <1>6, <2>1, <2>2, <2>3 DEF SecondGroups
<1>8. CASE /\ \A t \in P : journal[t].sealed /\ memo.groups[t].sealed
           /\ \E t \in T \ P : ~Finished(t)
           /\ \A t \in T \ P : Finished(t) \/ (/\ journal[t].sealed /\ Unread(t, got)
                                               /\ \A u \in P : t < u)
  <2>1. CASE n \notin P /\ ~Finished(n)
    <3>1. journal[n] # NoJournal /\ memo.groups[n] = NoJournal
      BY <1>2, <1>3, <1>8, <2>1 DEF NoJournal
    <3> QED
      BY <1>6, <3>1
  <2>2. CASE n \in P \/ Finished(n)
    <3>1. \A t \in T \ P : Finished(t) \/ (/\ journal[t].sealed /\ Unread(t, Reads)
                                           /\ \A u \in P : t < u)
      <4> SUFFICES ASSUME NEW t \in T \ P, ~Finished(t)
                   PROVE  /\ journal[t].sealed /\ Unread(t, Reads)
                          /\ \A u \in P : t < u
        OBVIOUS
      <4>1. t # n
        BY <2>2
      <4>2. t > Len(got)
        BY <1>8 DEF Unread
      <4>3. Unread(t, Reads)
        BY <1>2, <4>1, <4>2 DEF Unread
      <4> QED
        BY <1>8, <4>3
    <3> QED
      BY <1>8, <3>1 DEF SecondGroups
  <2> QED
    BY <2>1, <2>2
<1> QED
  BY <1>4, <1>5, <1>7, <1>8 DEF SecondGroups

\* When the second look agrees, what was found was so.
LEMMA GroupsAgreed ==
  ASSUME TypeOK, Reading, Running, at.part = 4, Complete, SecondGroups(Reads),
         memo.groups = Column(1)
  PROVE  Summary(memo.groups) \in moments
<1>1. /\ Part = "groups" /\ Len(Cells) = 1 /\ Targets \in Nat
      /\ Len(Reads) = Targets * Len(Cells)
  BY PartsAre, Numbers DEF Complete
<1>2. Len(Reads) = Targets
  BY <1>1
<1>3. \A t \in T : t <= Len(Reads) /\ ~(t > Len(Reads))
  BY <1>1, <1>2 DEF T
<1>4. \A t \in T : Reads[t] = memo.groups[t]
  BY ColumnsAre, <1>1
<1>5. Pending(memo.groups) \subseteq T
  BY DEF Pending
<1>6. ~GroupsDiffer(Reads) /\ \A t \in T : ~Unread(t, Reads)
  BY <1>3, <1>4 DEF GroupsDiffer, Unread
<1> QED
  BY <1>5, <1>6 DEF SecondGroups

-----------------------------------------------------------------------------
(* Reports of plans.                                                        *)

\* A step of the others, as the dry run has it.
LEMMA OthersQuiet ==
  ASSUME Others
  PROVE  /\ UNCHANGED reader /\ at.round # 3
         /\ moments \subseteq moments' /\ (Running => ReportNow' \in moments')
         /\ Edit \/ UNCHANGED edits
<1>1. Beside \/ Edit
  BY OthersAre, MidwayBeside DEF Plan, Journal, Detach, Attach, Fail, Seal, Clean, Crash, Recover, Writes
<1>2. UNCHANGED reader /\ at.round # 3 /\ Watch /\ (Edit \/ UNCHANGED edits)
  BY <1>1 DEF Beside, Edit
<1> QED
  BY <1>2 DEF Watch, Moment, ReportNow

\* When all homes are as the plan says, it is what would be reported.
LEMMA PlanIsDue ==
  ASSUME Shaped, \A t \in T : journal[t] = NoJournal /\ ~Wrong(t)
  PROVE  ReportNow = memo.plan
<1>1. Pending(journal) = {}
  BY DEF Pending
<1>2. [t \in T |-> Due(t)] = memo.plan.effects
  BY DEF Shaped, Wrong
<1>3. ReportNow = [kind |-> "plan", participants |-> {}, effects |-> [t \in T |-> Due(t)]]
  BY <1>1 DEF ReportNow, Report, Planned, Due
<1> QED
  BY <1>2, <1>3 DEF Shaped

\* The same, after a step of the others.
LEMMA DuePlan ==
  ASSUME Shaped, \A t \in T : journal'[t] = NoJournal /\ ~Wrong(t)', UNCHANGED <<memo, request>>
  PROVE  ReportNow' = memo.plan
<1>1. Pending(journal') = {} /\ Pending(journal)' = {}
  BY DEF Pending, T, NoJournal
<1>2. [t \in T |-> Due(t)'] = memo.plan.effects
  BY DEF Shaped, Wrong
<1>3. ReportNow' =
        [kind |-> "plan", participants |-> {}, effects |-> [t \in T |-> Due(t)']]
  BY <1>1 DEF ReportNow, Report, Planned, Due, T
<1> QED
  BY <1>2, <1>3 DEF Shaped

\* The user edits one file, which he has not edited before if he does so only once.
LEMMA EditIs ==
  ASSUME TypeOK, Edit
  PROVE  \E x \in T : /\ \A t \in T \ {x} : file'[t] = file[t]
                      /\ edits'.files = edits.files \cup {x}
                      /\ ~edits'.twice => x \notin edits.files /\ ~edits.twice
                      /\ ~edits'.twice /\ ~Several' => edits.files = {}
                      /\ UNCHANGED <<manifest, journal>>
<1>0. edits \in Watches
  BY DEF TypeOK
<1>1. PICK x \in T, f \in Edited :
        /\ file' = [file EXCEPT ![x] = f]
        /\ edits' = [edits EXCEPT !.count = @ + 1, !.files = @ \cup {x},
                                  !.twice = @ \/ x \in edits.files]
  BY DEF Edit
<1>2. /\ edits'.files = edits.files \cup {x}
      /\ edits'.twice <=> (edits.twice \/ x \in edits.files)
  BY <1>0, <1>1 DEF Watches
<1>3. \A t \in T \ {x} : file'[t] = file[t]
  BY <1>1 DEF TypeOK
<1>4. UNCHANGED <<manifest, journal>>
  BY DEF Edit
<1>5. ~edits'.twice /\ ~Several' => edits.files = {}
  BY <1>2 DEF Several
<1> QED
  BY <1>2, <1>3, <1>4, <1>5

\* What was read is still so, or the user edited it.
LEMMA CurrentStays ==
  ASSUME TypeOK, Others, UNCHANGED manifest, Edit \/ UNCHANGED file, NEW reads,
         AllCurrent(reads)
  PROVE  AllCurrent(reads)'
<1>1. CASE Edit
  <2>1. PICK x \in T : /\ \A t \in T \ {x} : file'[t] = file[t]
                       /\ edits'.files = edits.files \cup {x}
    BY <1>1, EditIs
  <2>2. \A t \in T : Current(t, reads)'
    BY <2>1 DEF AllCurrent, Current
  <2> QED
    BY <2>2 DEF AllCurrent, T
<1>2. CASE UNCHANGED file /\ ~Edit
  BY <1>2, OthersQuiet DEF AllCurrent, Current, T
<1> QED
  BY <1>1, <1>2

\* With one edit at most, a plan that is read was due at a moment, or differs.
LEMMA OnePassStays ==
  ASSUME TypeOK, Others, Running, UNCHANGED manifest, Edit \/ UNCHANGED file, Shaped,
         \A t \in T : journal'[t] = NoJournal, ~Several', ~edits'.twice, NEW reads,
         AllCurrent(reads), OnePass(reads)
  PROVE  OnePass(reads)'
<1>0. UNCHANGED <<memo, request>> /\ moments \subseteq moments' /\ ReportNow' \in moments'
  BY OthersQuiet DEF reader
<1>m. \A t \in T : Misread(t, reads) => Misread(t, reads)'
  BY <1>0 DEF Misread
<1>1. CASE memo.plan \in moments
  BY <1>0, <1>1 DEF OnePass
<1>2. CASE \E t \in T : Misread(t, reads)
  BY <1>2, <1>m DEF OnePass, T
<1>3. CASE \A t \in T : ~Wrong(t)'
  <2>1. ReportNow' = memo.plan
    BY <1>0, <1>3, DuePlan
  <2> QED
    BY <1>0, <2>1 DEF OnePass
<1>4. CASE /\ \E t \in T : Wrong(t) /\ 3 * t - 1 > Len(reads)
           /\ \A t \in T : ~Misread(t, reads)
           /\ \E t \in T : Wrong(t)'
  <2>1. PICK u \in T : Wrong(u) /\ 3 * u - 1 > Len(reads)
    BY <1>4
  <2>2. CASE Wrong(u)'
    BY <2>1, <2>2 DEF OnePass, T
  <2>3. CASE ~Wrong(u)'
    <3>1. Edit
      BY <1>0, <2>1, <2>3 DEF Wrong, Due
    <3>2. PICK x \in T : /\ \A t \in T \ {x} : file'[t] = file[t]
                         /\ edits.files = {}
      BY <3>1, EditIs
    <3>3. \A t \in T \ {x} : Wrong(t)' <=> Wrong(t)
      BY <1>0, <3>2 DEF Wrong, Due
    <3>4. u = x
      BY <2>1, <2>3, <3>3
    <3>5. PICK v \in T : Wrong(v)' /\ Wrong(v)
      BY <1>4, <2>3, <3>3, <3>4
    <3>6. 3 * v - 1 <= Len(reads) => Misread(v, reads)
      BY <3>2, <3>5 DEF AllCurrent, Current, Misread, Wrong, Due
    <3>7. ~(3 * v - 1 <= Len(reads))
      BY <1>4, <3>6
    <3> QED
      BY <3>5, <3>7 DEF OnePass, T
  <2> QED
    BY <2>2, <2>3
<1> QED
  BY <1>1, <1>2, <1>3, <1>4 DEF OnePass

\* A file that was edited is edited once: it stays as it is.
LEMMA EditedStays ==
  ASSUME TypeOK, Others, UNCHANGED manifest, Edit \/ UNCHANGED file, ~edits'.twice,
         NEW reads, Touched(reads)
  PROVE  Touched(reads)'
<1>0. UNCHANGED <<memo, request, at>>
  BY OthersQuiet DEF reader
<1>1. PICK t \in edits.files :
        Wrong(t) /\ (at.part = 5 /\ 3 * t - 1 <= Len(reads) => Misread(t, reads))
  BY DEF Touched
<1>2. t \in edits'.files /\ file'[t] = file[t]
  <2>1. CASE Edit
    <3>1. PICK x \in T : /\ \A u \in T \ {x} : file'[u] = file[u]
                         /\ edits'.files = edits.files \cup {x} /\ x \notin edits.files
      BY <2>1, EditIs
    <3> QED
      BY <1>1, <3>1, Fields
  <2>2. CASE ~Edit
    BY <1>1, <2>2, OthersQuiet
  <2> QED
    BY <2>1, <2>2
<1>3. Wrong(t)' /\ (Misread(t, reads) => Misread(t, reads)')
  BY <1>0, <1>1, <1>2 DEF Wrong, Due, Misread
<1> QED
  BY <1>0, <1>1, <1>2, <1>3 DEF Touched

\* One more read of a plan is of the manifest or of the file of one home.
LEMMA PlanRead ==
  ASSUME TypeOK, Reading, Running, at.part \in {3, 5}, NEW t \in T
  PROVE  /\ Len(Reads) = Len(got) + 1 /\ Len(got) \in Nat /\ t \in Nat /\ t >= 1
         /\ \A i \in 1 .. Len(got) : Reads[i] = got[i]
         /\ Len(got) + 1 = 3 * t - 2 => Reads[3 * t - 2] = manifest[t]
         /\ Len(got) + 1 = 3 * t - 1 => Reads[3 * t - 1] = file[t]
         /\ Len(got) + 1 = 3 * t => Reads[3 * t] = manifest[t]
<1>1. /\ Len(Reads) = Len(got) + 1 /\ Len(got) \in Nat /\ Len(got) < Targets * Len(Cells)
      /\ Reads[Len(got) + 1] = Value(Len(got))
      /\ \A i \in 1 .. Len(got) : Reads[i] = got[i]
  BY ReadsAre
<1>2. Part = "plan" /\ at.part \in 1 .. 6
  BY PartsAre
<1>3. t \in Nat /\ t >= 1
  BY Numbers
<1>4. /\ Len(got) = 3 * t - 3 => Value(Len(got)) = manifest[t]
      /\ Len(got) = 3 * t - 2 => Value(Len(got)) = file[t]
      /\ Len(got) = 3 * t - 1 => Value(Len(got)) = manifest[t]
  BY <1>1, <1>2, ReadAt
<1>5. /\ Len(got) + 1 = 3 * t - 2 => Len(got) = 3 * t - 3
      /\ Len(got) + 1 = 3 * t - 1 => Len(got) = 3 * t - 2
      /\ Len(got) + 1 = 3 * t => Len(got) = 3 * t - 1
  BY <1>1, <1>3
<1> HIDE DEF Reads
<1>6. Len(got) + 1 = 3 * t - 2 => Reads[3 * t - 2] = manifest[t]
  BY <1>1, <1>4, <1>5
<1>7. Len(got) + 1 = 3 * t - 1 => Reads[3 * t - 1] = file[t]
  BY <1>1, <1>4, <1>5
<1>8. Len(got) + 1 = 3 * t => Reads[3 * t] = manifest[t]
  BY <1>1, <1>4, <1>5
<1> QED
  BY <1>1, <1>3, <1>6, <1>7, <1>8

\* What it reads is so.
LEMMA PlanReads ==
  ASSUME TypeOK, Reading, Running, at.part \in {3, 5}
  PROVE  /\ AllCurrent(got) => AllCurrent(Reads)
         /\ OnePass(got) => OnePass(Reads)
         /\ Touched(got) => Touched(Reads)
<1> DEFINE r == Reads
<1>0. \A t \in T :
        /\ Len(r) = Len(got) + 1 /\ Len(got) \in Nat /\ t \in Nat /\ t >= 1
        /\ \A i \in 1 .. Len(got) : r[i] = got[i]
        /\ Len(got) + 1 = 3 * t - 2 => r[3 * t - 2] = manifest[t]
        /\ Len(got) + 1 = 3 * t - 1 => r[3 * t - 1] = file[t]
        /\ Len(got) + 1 = 3 * t => r[3 * t] = manifest[t]
  BY PlanRead
<1> HIDE DEF r
<1>1. ASSUME NEW t \in T, Current(t, got) PROVE Current(t, r)
  <2>1. ASSUME 3 * t - 2 <= Len(r) PROVE r[3 * t - 2] = manifest[t]
    <3>1. CASE 3 * t - 2 <= Len(got)
      <4>1. 3 * t - 2 \in 1 .. Len(got)
        BY <1>0, <3>1
      <4> QED
        BY <1>0, <1>1, <3>1, <4>1 DEF Current
    <3> QED
      BY <1>0, <2>1, <3>1
  <2>2. ASSUME 3 * t - 1 <= Len(r) PROVE r[3 * t - 1] = file[t] \/ t \in edits.files
    <3>1. CASE 3 * t - 1 <= Len(got)
      <4>1. 3 * t - 1 \in 1 .. Len(got)
        BY <1>0, <3>1
      <4> QED
        BY <1>0, <1>1, <3>1, <4>1 DEF Current
    <3> QED
      BY <1>0, <2>2, <3>1
  <2>3. ASSUME 3 * t <= Len(r) PROVE r[3 * t] = manifest[t]
    <3>1. CASE 3 * t <= Len(got)
      <4>1. 3 * t \in 1 .. Len(got)
        BY <1>0, <3>1
      <4> QED
        BY <1>0, <1>1, <3>1, <4>1 DEF Current
    <3> QED
      BY <1>0, <2>3, <3>1
  <2> QED
    BY <2>1, <2>2, <2>3 DEF Current
<1>2. ASSUME NEW t \in T, Misread(t, got) PROVE Misread(t, r)
  <2>1. 3 * t - 1 \in 1 .. Len(got) /\ 3 * t - 1 <= Len(r)
    BY <1>0, <1>2 DEF Misread
  <2> QED
    BY <1>0, <1>2, <2>1 DEF Misread
<1>3. ASSUME NEW t \in T, Wrong(t), 3 * t - 1 > Len(got)
      PROVE  Misread(t, r) \/ 3 * t - 1 > Len(r)
  <2>1. CASE Len(got) + 1 = 3 * t - 1
    BY <1>0, <1>3, <2>1 DEF Misread, Wrong, Due
  <2>2. CASE Len(got) + 1 # 3 * t - 1
    <3>1. Len(r) = Len(got) + 1 /\ Len(got) \in Nat /\ t \in Nat
      BY <1>0
    <3> QED
      BY <1>3, <2>2, <3>1
  <2> QED
    BY <2>1, <2>2
<1>4. AllCurrent(got) => AllCurrent(r)
  BY <1>1 DEF AllCurrent
<1>5. OnePass(got) => OnePass(r)
  BY <1>2, <1>3 DEF OnePass
<1>6. ASSUME Touched(got) PROVE Touched(r)
  <2>1. PICK t \in edits.files :
          Wrong(t) /\ (at.part = 5 /\ 3 * t - 1 <= Len(got) => Misread(t, got))
    BY <1>6 DEF Touched
  <2>2. t \in T
    BY <2>1, Fields
  <2>3. at.part = 5 /\ 3 * t - 1 <= Len(r) => Misread(t, r)
    <3>1. CASE 3 * t - 1 <= Len(got)
      BY <1>2, <2>1, <2>2, <3>1
    <3>2. CASE 3 * t - 1 > Len(got)
      BY <1>0, <1>3, <2>1, <2>2, <3>2
    <3> QED
      BY <1>0, <2>2, <3>1, <3>2
  <2> QED
    BY <2>1, <2>3 DEF Touched
<1> QED
  BY <1>4, <1>5, <1>6 DEF r

\* The third read of each home.
LEMMA ThirdColumn ==
  ASSUME TypeOK, Reading, Running, Complete, at.part \in {3, 5}, NEW t \in T
  PROVE  /\ 3 * t <= Len(Reads) /\ Column(3)[t] = Reads[3 * t]
         /\ Column(1)[t] = Reads[3 * t - 2] /\ Column(2)[t] = Reads[3 * t - 1]
<1>1. Part = "plan" /\ Len(Cells) = 3
  BY PartsAre
<1>2. t \in Nat
  BY Numbers
<1>3. Column(3)[t] = Reads[(t - 1) * 3 + 3]
  BY <1>1 DEF Column
<1>4. (t - 1) * 3 + 3 = 3 * t
  BY <1>2
<1> QED
  BY <1>1, <1>3, <1>4, ColumnsAre

\* A plan that agrees with what was read, all of it still so but for what was edited.
LEMMA PlanAgreed ==
  ASSUME TypeOK, Reading, Running, Complete, at.part \in {3, 5}, AllCurrent(Reads),
         memo.plan = Planned(request, Column(1), Column(2), Column(3)), NEW t \in T
  PROVE  /\ ~Misread(t, Reads) /\ 3 * t - 1 <= Len(Reads)
         /\ Wrong(t) => t \in edits.files
<1>1. /\ 3 * t <= Len(Reads) /\ Column(3)[t] = Reads[3 * t]
      /\ Column(1)[t] = Reads[3 * t - 2] /\ Column(2)[t] = Reads[3 * t - 1]
  BY ThirdColumn
<1>2. /\ t \in Nat /\ Len(Reads) \in Nat
  BY Numbers, ReadsAre
<1>3. memo.plan.effects[t] = Effects(request, Column(1)[t], Column(2)[t], Column(3)[t])
  BY DEF Planned
<1>4. /\ 3 * t - 2 <= Len(Reads) /\ 3 * t - 1 <= Len(Reads)
  BY <1>1, <1>2
<1>5. /\ Reads[3 * t - 2] = manifest[t] /\ Reads[3 * t] = manifest[t]
      /\ Reads[3 * t - 1] = file[t] \/ t \in edits.files
  BY <1>1, <1>4 DEF AllCurrent, Current
<1>6. memo.plan.effects[t] = Effects(request, manifest[t], Reads[3 * t - 1], manifest[t])
  BY <1>1, <1>3, <1>5
<1> QED
  BY <1>4, <1>5, <1>6 DEF Misread, Wrong, Due

\* What is planned is a plan.
LEMMA PlannedShaped ==
  ASSUME NEW ms, NEW fs, NEW again, memo.plan = Planned(request, ms, fs, again)
  PROVE  Shaped
BY DEF Planned, Shaped

-----------------------------------------------------------------------------
(* The invariant of reports, while others go on.                            *)

\* What conceals goes on concealing while a collection lasts.
LEMMA ConcealedStays ==
  ASSUME TypeOK, JournalInv, Ahead, Others, ~Concealed'
  PROVE  /\ ~Concealed /\ ~edits'.twice /\ ~edits'.missed /\ ~edits.missed
         /\ writer'.tx <= edits'.first /\ writer.tx <= edits.first
         /\ Several => Several' /\ writer'.tx < edits'.first
         /\ writer'.tx = edits'.first => ~Several'
         /\ writer.tx \in Nat /\ writer'.tx \in Nat /\ writer'.tx >= writer.tx
         /\ edits'.first = edits.first /\ edits.first \in Nat
<1>1. writer.tx \in Nat /\ writer'.tx \in Nat /\ writer'.tx >= writer.tx
      /\ edits'.first = edits.first /\ edits.first \in Nat
  <2>1. writer'.tx \in Nat
    BY TypeOthers DEF TypeOK, Writers
  <2> QED
    BY <2>1, Fields, JournalMoves, Numbers, AheadStays
<1>2. edits.files \subseteq edits'.files /\ (edits.twice => edits'.twice)
  <2>0. edits \in Watches
    BY DEF TypeOK
  <2>1. CASE Edit
    <3>1. PICK t \in T :
            edits' = [edits EXCEPT !.count = @ + 1, !.files = @ \cup {t},
                                   !.twice = @ \/ t \in edits.files]
      BY <2>1 DEF Edit
    <3> QED
      BY <2>0, <3>1 DEF Watches
  <2> QED
    BY <2>1, OthersQuiet
<1>3. ~(writer'.tx > edits'.first) /\ ~edits'.twice /\ ~edits'.missed /\ ~edits.missed
  BY OthersLeave DEF Concealed
<1>4. Several => Several'
  BY <1>2 DEF Several
<1>5. writer'.tx = edits'.first => ~Several'
  BY DEF Several, Concealed
<1>6. writer'.tx <= edits'.first /\ writer.tx <= edits.first
  BY <1>1, <1>3
<1>7. writer.tx = edits.first => writer'.tx = edits'.first
  BY <1>1, <1>6
<1>8. ~Concealed
  BY <1>1, <1>2, <1>3, <1>4, <1>5, <1>6, <1>7 DEF Concealed, Several
<1>9. Several => writer'.tx < edits'.first
  BY <1>1, <1>4, <1>5, <1>6
<1> QED
  BY <1>1, <1>3, <1>4, <1>5, <1>6, <1>8, <1>9

\* Every moment of a collection is noted as the others go on.
LEMMA WatchingOthers ==
  ASSUME Watching, Others
  PROVE  Watching' /\ ReportIsOfOneMoment'
<1>1. /\ UNCHANGED <<request, at, got, memo, printed, exit>> /\ at.round # 3
      /\ (Running => ReportNow' \in moments')
  BY OthersQuiet DEF reader
<1>2. printed' = Nothing
  BY <1>1 DEF Watching
<1>3. /\ (Running' <=> Running) /\ (GroupsNoted' <=> GroupsNoted) /\ (Shaped' <=> Shaped)
      /\ Pending(memo.groups)' = Pending(memo.groups)
  BY <1>1 DEF Running, GroupsNoted, Shaped, Pending, T
<1> QED
  BY <1>1, <1>2, <1>3 DEF Watching, ReportIsOfOneMoment

\* A look at the journals that was right stays so, or the next look will differ.
LEMMA GroupsOthers ==
  ASSUME TypeOK, JournalInv, Ahead, Watching, GroupsInv, Others, writer'.tx <= edits'.first
  PROVE  GroupsInv'
<1>1. /\ UNCHANGED <<request, at, got, memo, printed, exit>>
      /\ moments \subseteq moments' /\ (Running => ReportNow' \in moments')
  BY OthersQuiet DEF reader
<1>2. /\ (Collecting' <=> Collecting) /\ (GroupsNoted' <=> GroupsNoted)
      /\ Pending(memo.groups)' = Pending(memo.groups)
      /\ Summary(memo.groups)' = Summary(memo.groups)
      /\ (Collecting \/ GroupsNoted => Running)
  BY <1>1 DEF Collecting, GroupsNoted, Pending, Summary, T, Running
<1>3. PICK r : r = got
  OBVIOUS
<1>4. ASSUME Collecting, at.part = 1 PROVE FirstGroups(got)'
  <2>1. FirstGroups(r)
    BY <1>3, <1>4 DEF GroupsInv
  <2>2. FirstGroups(r)'
    BY <1>1, <1>2, <1>4, <2>1, FirstGroupsStay DEF Watching
  <2> QED
    BY <1>1, <1>3, <2>2 DEF FirstGroups
<1>5. ASSUME GroupsNoted, at.part \in 2 .. 4, Pending(memo.groups) # {}
      PROVE  SecondGroups(got)'
  <2>1. SecondGroups(r)
    BY <1>3, <1>5 DEF GroupsInv
  <2>2. SecondGroups(r)'
    BY <1>1, <1>2, <1>5, <2>1, SecondGroupsStay
  <2> QED
    BY <1>1, <1>3, <2>2 DEF SecondGroups, GroupsDiffer, Unread
<1>6. GroupsNoted /\ at.part \in 5 .. 6 /\ Pending(memo.groups) # {} =>
        Summary(memo.groups) \in moments'
  BY <1>1 DEF GroupsInv
<1> QED
  BY <1>1, <1>2, <1>4, <1>5, <1>6 DEF GroupsInv

\* The same of a pass over the plans.
LEMMA PlansOthers ==
  ASSUME TypeOK, JournalInv, Ahead, Watching, PlansInv, Others, ~Concealed'
  PROVE  PlansInv'
<1>1. /\ UNCHANGED <<request, at, got, memo, printed, exit>>
      /\ moments \subseteq moments' /\ (Running => ReportNow' \in moments')
  BY OthersQuiet DEF reader
<1>2. /\ ~edits'.twice /\ writer'.tx <= edits'.first /\ writer.tx <= edits.first
      /\ Several => Several' /\ writer'.tx < edits'.first
      /\ writer'.tx = edits'.first => ~Several'
      /\ writer.tx \in Nat /\ writer'.tx \in Nat /\ writer'.tx >= writer.tx
      /\ edits'.first = edits.first /\ edits.first \in Nat
  BY ConcealedStays
<1>3. Pending(memo.groups)' = Pending(memo.groups)
  BY <1>1 DEF Pending, T
<1> SUFFICES ASSUME at.round = 2, Pending(memo.groups) = {}
             PROVE  /\ at.part = 3 => FirstPlan(got)'
                    /\ at.part \in {4, 5} => SecondPlan(got)'
                    /\ at.part = 6 => memo.plan \in moments'
  BY <1>1, <1>3 DEF PlansInv
<1>4. PICK r : r = got
  OBVIOUS
<1>5. Running /\ Shaped
  BY DEF Watching, Running
<1>6. /\ Unborn' => Unborn
      /\ Unborn \/ Over => \A t \in T : journal[t] = NoJournal
      /\ Unborn' \/ Over => UNCHANGED <<manifest, journal>> /\ (Edit \/ UNCHANGED file)
      /\ Over => Over'
  BY <1>2, StillHomes
<1>7. ASSUME at.part = 3, Unborn'
      PROVE  AllCurrent(got)' /\ (~Several' => OnePass(got)')
  <2>1. AllCurrent(r) /\ (~Several => OnePass(r))
    BY <1>4, <1>6, <1>7 DEF PlansInv, FirstPlan
  <2>2. AllCurrent(r)'
    BY <1>6, <1>7, <2>1, CurrentStays
  <2>3. ~Several' => OnePass(r)'
    BY <1>2, <1>5, <1>6, <1>7, <2>1, OnePassStays
  <2> QED
    BY <1>1, <1>4, <2>2, <2>3 DEF AllCurrent, Current, OnePass, Misread
<1>8. at.part = 3 => FirstPlan(got)'
  BY <1>7 DEF FirstPlan
<1>9. ASSUME at.part \in {4, 5} PROVE SecondPlan(got)'
  <2>0. SecondPlan(got)
    BY <1>9 DEF PlansInv
  <2>1. CASE memo.plan \in moments
    BY <1>1, <2>1 DEF SecondPlan
  <2>2. CASE /\ writer.tx < edits.first /\ Several /\ Touched(got)
             /\ at.part = 5 => AllCurrent(got)
    <3>1. writer'.tx < edits'.first /\ Several' /\ Unborn'
      BY <1>2, <2>2 DEF Unborn
    <3>2. Touched(r) /\ (at.part = 5 => AllCurrent(r))
      BY <1>4, <2>2
    <3>3. Touched(r)' /\ (at.part = 5 => AllCurrent(r)')
      BY <1>2, <1>6, <3>1, <3>2, EditedStays, CurrentStays
    <3>4. Touched(got)' /\ (at.part = 5 => AllCurrent(got)')
      BY <1>1, <1>4, <3>3 DEF Touched, AllCurrent, Current, Misread
    <3> QED
      BY <1>1, <3>1, <3>4 DEF SecondPlan
  <2>3. CASE /\ writer.tx = edits.first /\ ~Unborn
             /\ at.part = 4 => \/ \E t \in T : t <= Len(got) /\ got[t] # NoJournal
                               \/ \A t \in T : t <= Len(got) => Finished(t)
             /\ at.part = 5 => Over /\ AllCurrent(got) /\ OnePass(got)
    <3>1. writer'.tx = edits'.first /\ ~Unborn' /\ ~Several'
      BY <1>2, <1>6, <2>3
    <3>2. \A t \in T : Finished(t) => Finished(t)'
      BY <1>2, FinishedStays
    <3>3. at.part = 4 => \/ \E t \in T : t <= Len(got) /\ got[t] # NoJournal
                         \/ \A t \in T : t <= Len(got) => Finished(t)'
      BY <2>3, <3>2
    <3>4. ASSUME at.part = 5 PROVE Over' /\ AllCurrent(got)' /\ OnePass(got)'
      <4>1. AllCurrent(r) /\ OnePass(r) /\ Over
        BY <1>4, <2>3, <3>4
      <4>2. AllCurrent(r)' /\ OnePass(r)'
        BY <1>2, <1>5, <1>6, <3>1, <4>1, CurrentStays, OnePassStays
      <4> QED
        BY <1>1, <1>4, <1>6, <4>1, <4>2 DEF AllCurrent, Current, OnePass, Misread
    <3>5. NoJournal' = NoJournal /\ T' = T
      BY DEF NoJournal, T
    <3> QED
      BY <1>1, <3>1, <3>3, <3>4, <3>5 DEF SecondPlan
  <2> QED
    BY <2>0, <2>1, <2>2, <2>3 DEF SecondPlan
<1>10. at.part = 6 => memo.plan \in moments'
  BY <1>1 DEF PlansInv
<1> QED
  BY <1>8, <1>9, <1>10

\* A step of the other process or of the user.
LEMMA MomentOthers == MomentInv /\ TypeOK /\ Others => MomentInv'
<1> SUFFICES ASSUME MomentInv, TypeOK, Others PROVE MomentInv'
  OBVIOUS
<1>1. JournalInv /\ Ahead /\ Watching
  BY DEF MomentInv
<1>2. JournalInv' /\ Ahead' /\ Watching' /\ ReportIsOfOneMoment'
  BY <1>1, JournalSteps, AheadStays, WatchingOthers
<1>3. writer'.tx <= edits'.first /\ ~edits'.missed => GroupsInv'
  <2>1. writer.tx \in Nat /\ writer'.tx \in Nat /\ writer'.tx >= writer.tx
        /\ edits'.first = edits.first /\ edits.first \in Nat
    <3>1. writer'.tx \in Nat
      BY TypeOthers DEF TypeOK, Writers
    <3> QED
      BY <1>1, <3>1, Fields, JournalMoves, Numbers, AheadStays
  <2>2. writer'.tx <= edits'.first => writer.tx <= edits.first
    BY <2>1
  <2>3. ~edits'.missed => ~edits.missed
    BY OthersLeave
  <2> QED
    BY <1>1, <2>2, <2>3, GroupsOthers DEF MomentInv
<1>4. ~Concealed' => PlansInv'
  BY <1>1, ConcealedStays, PlansOthers DEF MomentInv
<1> QED
  BY <1>2, <1>3, <1>4 DEF MomentInv

-----------------------------------------------------------------------------
(* The invariant of reports, while the dry run goes on.                     *)

\* The dry run does not touch journals.
LEMMA JournalKept ==
  ASSUME UNCHANGED <<world, writer>>
  PROVE  /\ JournalInv => JournalInv'
         /\ SameEdits => /\ (Unborn' <=> Unborn) /\ (Over' <=> Over) /\ (Ahead => Ahead')
                         /\ \A t \in T : Finished(t)' <=> Finished(t)
<1>1. JournalInv => JournalInv'
  BY DEF world, JournalInv, Journaled, Decided, Held, Open, T, NoJournal
<1>2. ASSUME SameEdits
      PROVE  /\ (Unborn' <=> Unborn) /\ (Over' <=> Over) /\ (Ahead => Ahead')
             /\ \A t \in T : Finished(t)' <=> Finished(t)
  BY <1>2 DEF SameEdits, world, Unborn, Over, Finished, Ahead, T, NoJournal
<1> QED
  BY <1>1, <1>2

\* What is under way when a collection begins is what it may meet.
LEMMA AheadKept ==
  ASSUME TypeOK, Ahead, UNCHANGED writer, SameEdits \/ Beginning
  PROVE  Ahead'
<1>1. CASE SameEdits
  BY <1>1 DEF Ahead, SameEdits
<1>2. CASE Beginning
  <2>1. edits'.first = IF writer.phase = "idle" THEN writer.tx + 1 ELSE writer.tx
    BY <1>2 DEF Beginning, FromHere, TypeOK, Watches
  <2>2. writer.tx \in Nat
    BY Fields
  <2> QED
    BY <2>1, <2>2 DEF Ahead
<1> QED
  BY <1>1, <1>2

\* What was read is judged by the homes, the notes and the moments.
LEMMA Steady ==
  ASSUME UNCHANGED <<world, writer, request, moments, memo>>, SameEdits, NEW reads
  PROVE  /\ FirstGroups(reads)' <=> FirstGroups(reads)
         /\ AllCurrent(reads)' <=> AllCurrent(reads)
         /\ OnePass(reads)' <=> OnePass(reads)
         /\ (Several' <=> Several) /\ (Concealed => Concealed') /\ (Shaped' <=> Shaped)
         /\ Pending(memo.groups)' = Pending(memo.groups)
         /\ Summary(memo.groups)' = Summary(memo.groups)
         /\ at' = at => /\ SecondGroups(reads)' <=> SecondGroups(reads)
                        /\ Touched(reads)' <=> Touched(reads)
<1>1. \A t \in T : Finished(t)' <=> Finished(t)
  BY JournalKept
<1>2. T' = T /\ NoJournal' = NoJournal /\ Rollback' = Rollback
  BY DEF T, NoJournal, Rollback
<1>3. UNCHANGED <<file, manifest, journal>>
  BY DEF world
<1>4. FirstGroups(reads)' <=> FirstGroups(reads)
  BY <1>1, <1>2, <1>3 DEF FirstGroups
<1>5. AllCurrent(reads)' <=> AllCurrent(reads)
  BY <1>2, <1>3 DEF SameEdits, AllCurrent, Current
<1>6. \A t \in T : (Misread(t, reads)' <=> Misread(t, reads)) /\ (Wrong(t)' <=> Wrong(t))
  BY <1>3 DEF Misread, Wrong, Due
<1>7. OnePass(reads)' <=> OnePass(reads)
  BY <1>2, <1>6 DEF OnePass
<1>8. /\ (Several' <=> Several) /\ (Concealed => Concealed') /\ (Shaped' <=> Shaped)
      /\ Pending(memo.groups)' = Pending(memo.groups)
      /\ Summary(memo.groups)' = Summary(memo.groups)
  BY DEF SameEdits, Several, Concealed, Shaped, Pending, Summary, T, NoJournal
<1>9. ASSUME at' = at
      PROVE  /\ SecondGroups(reads)' <=> SecondGroups(reads)
             /\ Touched(reads)' <=> Touched(reads)
  <2>1. GroupsDiffer(reads)' <=> GroupsDiffer(reads)
    BY <1>2, <1>9 DEF GroupsDiffer
  <2>2. \A t \in T : Unread(t, reads)' <=> Unread(t, reads)
    BY <1>9 DEF Unread
  <2>3. Pending(memo.groups) \subseteq T
    BY DEF Pending
  <2>4. SecondGroups(reads)' <=> SecondGroups(reads)
    BY <1>1, <1>2, <1>3, <1>8, <2>1, <2>2, <2>3 DEF SecondGroups
  <2>5. Touched(reads)' <=> Touched(reads)
    BY <1>3, <1>9 DEF SameEdits, Touched, Wrong, Due, Misread
  <2> QED
    BY <2>4, <2>5
<1> QED
  BY <1>4, <1>5, <1>7, <1>8, <1>9

\* The dry run begins, ends or returns.
LEMMA MomentAway ==
  ASSUME TypeOK, MomentInv, UNCHANGED <<world, writer>>, SameEdits \/ Beginning,
         NEW r \in {0, 3, 4}, at' = Start(r, 1),
         r = 0 => ReportNow' \in moments', r # 3 => printed' = Nothing,
         printed' # Nothing /\ ~Concealed' => printed' \in moments'
  PROVE  MomentInv'
<1>1. at'.round = r /\ at'.part = 1
  BY DEF Start
<1>2. JournalInv' /\ Ahead'
  BY JournalKept, AheadKept DEF MomentInv
<1>3. ReportIsOfOneMoment'
  BY DEF ReportIsOfOneMoment
<1>4. Running' => r = 0
  BY <1>1 DEF Running
<1>5. Watching'
  BY <1>1, <1>4 DEF Watching
<1>6. GroupsInv' /\ PlansInv'
  BY <1>1 DEF GroupsInv, PlansInv, Collecting, GroupsNoted
<1> QED
  BY <1>2, <1>3, <1>5, <1>6 DEF MomentInv

\* The dry run turns to another part.
LEMMA MomentTurns ==
  ASSUME TypeOK, MomentInv, UNCHANGED <<world, writer, request, printed>>, Running,
         SameEdits \/ Beginning,
         NEW r \in {1, 2}, NEW p \in 1 .. 6, at' = Start(r, p), got' = << >>,
         ReportNow \in moments',
         r = 2 \/ p >= 4 => Pending(memo'.groups) # {} \/ Shaped',
         writer'.tx <= edits'.first /\ ~edits'.missed => GroupsInv', ~Concealed' => PlansInv'
  PROVE  MomentInv'
<1>1. at'.round = r /\ at'.part = p
  BY DEF Start
<1>2. JournalInv' /\ Ahead'
  BY JournalKept, AheadKept DEF MomentInv
<1>3. printed' = Nothing
  <2>1. at.round # 3
    BY DEF Running
  <2> QED
    BY <2>1 DEF MomentInv, Watching
<1>4. ReportIsOfOneMoment'
  BY <1>3 DEF ReportIsOfOneMoment
<1>5. ReportNow' = ReportNow
  BY DEF world, ReportNow, Report, Pending, Summary, Planned, T, NoJournal
<1>6. Pending(memo.groups)' = Pending(memo'.groups)
  BY DEF Pending, T, NoJournal
<1>7. Watching'
  BY <1>1, <1>3, <1>5, <1>6 DEF Watching
<1> QED
  BY <1>2, <1>4, <1>7 DEF MomentInv

\* After a transaction has begun, homes without a journal are those it is over on, or
\* the first home has a journal.
LEMMA BornRead ==
  ASSUME TypeOK, Reading, JournalInv, Running, at.part = 4, ~Missed(Len(got)),
         writer.tx = edits.first, ~Unborn,
         \/ \E t \in T : t <= Len(got) /\ got[t] # NoJournal
         \/ \A t \in T : t <= Len(got) => Finished(t)
  PROVE  \/ \E t \in T : t <= Len(Reads) /\ Reads[t] # NoJournal
         \/ \A t \in T : t <= Len(Reads) => Finished(t)
<1> DEFINE n == Len(got) + 1
<1>1. /\ Part = "groups" /\ Len(Cells) = 1 /\ Targets \in Nat
      /\ Len(got) \in Nat /\ Len(got) < Targets * Len(Cells)
  BY PartsAre, ReadsAre, Numbers
<1>0. at.round > 0 /\ at.part \in 1 .. 6
  BY DEF Reading
<1>2. /\ Reads[n] = journal[n] /\ n \in T /\ Len(Reads) = n /\ n \in Nat
      /\ \A i \in T : i <= Len(got) => Reads[i] = got[i] /\ i <= n
      /\ \A i \in T : i <= n => i <= Len(got) \/ i = n
      /\ n # 1 => 1 <= Len(got)
  <2>1. Len(got) < Targets
    BY <1>1
  <2>2. n \in T /\ Value(Len(got)) = journal[n]
    BY <1>0, <1>1, ReadAt
  <2>3. \A i \in T : i <= Len(got) => i \in 1 .. Len(got) /\ i <= n
    BY <1>1 DEF T
  <2>4. \A i \in T : i <= n => i <= Len(got) \/ i = n
    BY <1>1 DEF T
  <2> QED
    BY <1>1, <2>2, <2>3, <2>4, ReadsAre
<1> HIDE DEF n
<1>3. CASE \E t \in T : t <= Len(got) /\ got[t] # NoJournal
  BY <1>2, <1>3
<1>4. CASE journal[n] # NoJournal
  BY <1>2, <1>4
<1>5. CASE journal[n] = NoJournal /\ \A t \in T : t <= Len(got) => Finished(t)
  <2>1. writer.phase \in {"idle", "clean", "dead"}
    <3>1. CASE n # 1
      BY <1>2, <1>5, <3>1, Numbers DEF Finished
    <3>2. CASE n = 1
      <4>1. 1 \in T /\ ~Held(1) /\ ~Open(1) /\ Journaled(1)
        BY <1>2, <1>5, <3>2, HeldIsThere DEF JournalInv, Open
      <4>2. writer.phase # "journal"
        <5>1. writer.phase = "journal" => writer.next # 1 /\ writer.next \in T
          BY DEF Unborn, TypeOK
        <5>2. writer.next \in T => writer.next \in Nat /\ writer.next >= 1
          BY Numbers
        <5>3. writer.phase = "journal" => 1 < writer.next
          BY <5>1, <5>2
        <5> QED
          BY <4>1, <5>3 DEF Journaled
      <4> QED
        BY <4>1, <4>2, Fields DEF Journaled, Phases
    <3> QED
      BY <3>1, <3>2
  <2>2. Finished(n)
    BY <1>5, <2>1 DEF Finished
  <2> QED
    BY <1>2, <1>5, <2>2
<1> QED
  BY <1>3, <1>4, <1>5

\* One more read, of journals, of the state or of a plan: what it means for the groups.
LEMMA GroupsRead ==
  ASSUME TypeOK, Reading, JournalInv, Ahead, GroupsInv, writer.tx <= edits.first, ~edits'.missed, Read
  PROVE  GroupsInv'
<1>1. /\ Running /\ got' = Reads /\ UNCHANGED <<at, memo, exit>>
      /\ UNCHANGED <<world, writer, request, moments, memo>> /\ SameEdits /\ ~Missed(Len(got))
  BY LooksIs DEF Read, Quiet
<1>2. PICK r : r = Reads
  OBVIOUS
<1>3. (Collecting' <=> Collecting) /\ (GroupsNoted' <=> GroupsNoted)
      /\ Pending(memo.groups)' = Pending(memo.groups)
      /\ Summary(memo.groups)' = Summary(memo.groups)
  BY <1>1, Steady DEF Collecting, GroupsNoted
<1>4. ASSUME Collecting, at.part = 1 PROVE FirstGroups(got)'
  <2>1. FirstGroups(r)
    BY <1>1, <1>2, <1>4, FirstGroupsRead DEF GroupsInv
  <2>2. FirstGroups(r)'
    BY <1>1, <2>1, Steady
  <2> QED
    BY <1>1, <1>2, <2>2 DEF FirstGroups
<1>5. ASSUME GroupsNoted, at.part \in 2 .. 4, Pending(memo.groups) # {}
      PROVE  SecondGroups(got)'
  <2>1. SecondGroups(got)
    BY <1>5 DEF GroupsInv
  <2>2. SecondGroups(Reads)
    <3>1. CASE at.part = 4
      BY <1>1, <2>1, <3>1, SecondGroupsRead
    <3>2. CASE at.part # 4
      BY <2>1, <3>2 DEF SecondGroups, GroupsDiffer, Unread
    <3> QED
      BY <3>1, <3>2
  <2>3. SecondGroups(r)'
    BY <1>1, <1>2, <2>2, Steady
  <2> QED
    BY <1>1, <1>2, <2>3 DEF SecondGroups, GroupsDiffer, Unread
<1>6. GroupsNoted /\ at.part \in 5 .. 6 /\ Pending(memo.groups) # {} =>
        Summary(memo.groups) \in moments'
  BY <1>1 DEF GroupsInv
<1> QED
  BY <1>1, <1>3, <1>4, <1>5, <1>6 DEF GroupsInv

\* One more read of the first plan.
LEMMA FirstPlanRead ==
  ASSUME TypeOK, Reading, Running, at.part = 3, FirstPlan(got)
  PROVE  FirstPlan(Reads)
BY PlanReads DEF FirstPlan

\* One more read, after the first plan.
LEMMA SecondPlanRead ==
  ASSUME TypeOK, Reading, JournalInv, Running, at.part \in {4, 5}, ~Missed(Len(got)), SecondPlan(got)
  PROVE  SecondPlan(Reads)
<1>1. CASE memo.plan \in moments
  BY <1>1 DEF SecondPlan
<1>2. CASE /\ writer.tx < edits.first /\ Several /\ Touched(got)
           /\ at.part = 5 => AllCurrent(got)
  <2>1. Touched(Reads) /\ (at.part = 5 => AllCurrent(Reads))
    <3>1. CASE at.part = 5
      BY <1>2, <3>1, PlanReads
    <3>2. CASE at.part = 4
      BY <1>2, <3>2 DEF Touched
    <3> QED
      BY <3>1, <3>2
  <2> QED
    BY <1>2, <2>1 DEF SecondPlan
<1>3. CASE /\ writer.tx = edits.first /\ ~Unborn
           /\ at.part = 4 => \/ \E t \in T : t <= Len(got) /\ got[t] # NoJournal
                             \/ \A t \in T : t <= Len(got) => Finished(t)
           /\ at.part = 5 => Over /\ AllCurrent(got) /\ OnePass(got)
  <2>1. at.part = 4 => \/ \E t \in T : t <= Len(Reads) /\ Reads[t] # NoJournal
                       \/ \A t \in T : t <= Len(Reads) => Finished(t)
    BY <1>3, BornRead
  <2>2. at.part = 5 => Over /\ AllCurrent(Reads) /\ OnePass(Reads)
    BY <1>3, PlanReads
  <2> QED
    BY <1>3, <2>1, <2>2 DEF SecondPlan
<1> QED
  BY <1>1, <1>2, <1>3 DEF SecondPlan

\* What one more read means for the plan.
LEMMA PlansRead ==
  ASSUME TypeOK, Reading, JournalInv, PlansInv, ~edits'.missed, Read
  PROVE  PlansInv'
<1>1. /\ Running /\ got' = Reads /\ UNCHANGED <<at, memo, exit>>
      /\ UNCHANGED <<world, writer, request, moments, memo>> /\ SameEdits /\ ~Missed(Len(got))
  BY LooksIs DEF Read, Quiet
<1>2. PICK r : r = Reads
  OBVIOUS
<1>3. Pending(memo.groups)' = Pending(memo.groups) /\ (Several' <=> Several)
      /\ (Unborn' <=> Unborn) /\ (Over' <=> Over) /\ \A t \in T : Finished(t)' <=> Finished(t)
  BY <1>1, Steady, JournalKept
<1>s. /\ AllCurrent(r)' <=> AllCurrent(r)
      /\ OnePass(r)' <=> OnePass(r)
      /\ Touched(r)' <=> Touched(r)
  BY <1>1, Steady
<1>g. /\ AllCurrent(got)' <=> AllCurrent(r)'
      /\ OnePass(got)' <=> OnePass(r)'
      /\ Touched(got)' <=> Touched(r)'
  BY <1>1, <1>2 DEF AllCurrent, Current, OnePass, Touched, Misread
<1> SUFFICES ASSUME at.round = 2, Pending(memo.groups) = {}
             PROVE  /\ at.part = 3 => FirstPlan(got)'
                    /\ at.part \in {4, 5} => SecondPlan(got)'
                    /\ at.part = 6 => memo.plan \in moments'
  BY <1>1, <1>3 DEF PlansInv
<1>4. ASSUME at.part = 3 PROVE FirstPlan(got)'
  <2>1. FirstPlan(r)
    BY <1>1, <1>2, <1>4, FirstPlanRead DEF PlansInv
  <2> QED
    BY <1>3, <1>s, <1>g, <2>1 DEF FirstPlan
<1>5. ASSUME at.part \in {4, 5} PROVE SecondPlan(got)'
  <2>1. SecondPlan(r)
    BY <1>1, <1>2, <1>5, SecondPlanRead DEF PlansInv
  <2>2. NoJournal' = NoJournal /\ T' = T /\ writer' = writer /\ moments' = moments
        /\ edits'.first = edits.first /\ memo' = memo /\ at' = at /\ got' = r
    BY <1>1, <1>2 DEF NoJournal, T, SameEdits
  <2> QED
    BY <1>3, <1>s, <1>g, <2>1, <2>2 DEF SecondPlan
<1>6. at.part = 6 => memo.plan \in moments'
  BY <1>1 DEF PlansInv
<1> QED
  BY <1>4, <1>5, <1>6

\* One more read.
LEMMA MomentRead == ASSUME IInv, MomentInv, Read PROVE MomentInv'
<1>2. TypeOK /\ Reading /\ JournalInv /\ Ahead /\ Watching
  BY DEF IInv, MomentInv
<1>1. /\ Running /\ got' = Reads /\ UNCHANGED <<at, memo, exit, printed>>
      /\ UNCHANGED <<world, writer, request, moments, memo>> /\ SameEdits
  BY <1>2, LooksIs DEF Read, Quiet
<1>3. JournalInv' /\ Ahead'
  BY <1>1, <1>2, JournalKept
<1>4. (Running' <=> Running) /\ (Shaped' <=> Shaped) /\ Pending(memo.groups)' = Pending(memo.groups)
      /\ (Concealed => Concealed')
  BY <1>1, Steady DEF Running
<1>5. ReportNow' = ReportNow
  BY <1>1 DEF world, ReportNow, Report, Pending, Summary, Planned, T, NoJournal
<1>6. Watching' /\ ReportIsOfOneMoment'
  BY <1>1, <1>2, <1>4, <1>5 DEF Watching, ReportIsOfOneMoment, Running
<1>7. writer'.tx <= edits'.first /\ ~edits'.missed => GroupsInv'
  BY <1>1, <1>2, GroupsRead DEF MomentInv, SameEdits
<1>8. ~Concealed' => PlansInv'
  BY <1>2, <1>4, PlansRead DEF MomentInv, Concealed
<1> QED
  BY <1>3, <1>6, <1>7, <1>8 DEF MomentInv

\* Nothing is printed when a read fails or two reads differ.
LEMMA MomentFails ==
  ASSUME TypeOK, MomentInv, Running, UNCHANGED <<world, writer>>, SameEdits \/ Beginning,
         NEW status, Fails(status)
  PROVE  MomentInv'
<1>1. at' = Start(3, 1) /\ printed' = printed
  BY DEF Fails, Ends
<1>2. printed = Nothing
  BY DEF MomentInv, Watching, Running
<1> QED
  BY <1>1, <1>2, MomentAway

\* The first moment is the one at which the dry run begins.
LEMMA MomentBegin == ASSUME TypeOK, MomentInv, NEW o \in Operations, Begin(o) PROVE MomentInv'
<1>1. at' = Start(0, 1) /\ printed' = printed /\ UNCHANGED <<world, writer>> /\ at.round = 4
      /\ moments' = {Moment} /\ Beginning
  BY DEF Begin, Turns, Beginning
<1>2. printed = Nothing
  BY <1>1 DEF MomentInv, Watching
<1>3. ReportNow' = Moment
  BY DEF ReportNow, Moment
<1> QED
  BY <1>1, <1>2, <1>3, MomentAway

\* After it has ended it has printed nothing.
LEMMA MomentReturn == ASSUME TypeOK, MomentInv, Return PROVE MomentInv'
<1>1. at' = Start(4, 1) /\ printed' = Nothing /\ UNCHANGED <<world, writer>> /\ SameEdits
  BY DEF Return, SameEdits
<1> QED
  BY <1>1, MomentAway

\* Nothing has been read at the start of a part.
LEMMA FirstGroupsStart ==
  ASSUME got' = << >>
  PROVE  FirstGroups(got)' /\ AllCurrent(got)'
<1>1. \A t \in T' : ~(t <= 0) /\ ~(3 * t - 2 <= 0) /\ ~(3 * t - 1 <= 0) /\ ~(3 * t <= 0)
  BY Numbers DEF T
<1>2. Len(got') = 0
  OBVIOUS
<1> QED
  BY <1>1, <1>2 DEF FirstGroups, AllCurrent, Current

\* The look at the journals before the first collection decides nothing about a report.
LEMMA MomentCheck == ASSUME TypeOK, MomentInv, CloseCheck PROVE MomentInv'
<1>1. Running /\ UNCHANGED <<world, writer, request>> /\ SameEdits
  BY DEF CloseCheck, Running, SameEdits
<1>2. CASE Fails(8)
  BY <1>1, <1>2, MomentFails
<1>3. CASE Turns(1, 1) /\ Quiet /\ UNCHANGED memo
  <2>1. at' = Start(1, 1) /\ got' = << >> /\ UNCHANGED <<printed, moments, memo>>
        /\ at'.round = 1 /\ at'.part = 1
    BY <1>3 DEF Turns, Quiet, Start
  <2>2. GroupsInv' /\ PlansInv'
    BY <2>1, FirstGroupsStart DEF GroupsInv, PlansInv, GroupsNoted
  <2>3. ReportNow \in moments'
    BY <1>1, <2>1 DEF MomentInv, Watching
  <2> QED
    BY <1>1, <2>1, <2>2, <2>3, MomentTurns
<1> QED
  BY <1>2, <1>3 DEF CloseCheck

\* Where nobody has a journal, a pass over the plans can begin.
LEMMA NobodyHas ==
  ASSUME TypeOK, JournalInv, Ahead, Unborn \/ Over, NEW t \in T
  PROVE  journal[t] = NoJournal
<1>1. CASE Over
  BY <1>1 DEF Over, Finished
<1>2. CASE Unborn
  <2>1. writer.tx < edits.first => writer.phase = "idle"
    BY Fields DEF Ahead
  <2>2. t >= 1
    BY Numbers
  <2> QED
    BY <1>2, <2>1, <2>2 DEF Unborn, JournalInv, Journaled
<1> QED
  BY <1>1, <1>2

\* Then what was planned is due, or some home differs from it.
LEMMA PassStarts ==
  ASSUME TypeOK, JournalInv, Ahead, Unborn \/ Over, Shaped, ReportNow \in moments
  PROVE  memo.plan \in moments \/ \E t \in T : Wrong(t)
BY NobodyHas, PlanIsDue

\* The first look at the journals is noted, the second confirms it or ends the dry run; what
\* it says of the plan is that no transaction has begun, or the one that has is over.
LEMMA MomentGroups == ASSUME IInv, MomentInv, CloseGroups PROVE MomentInv'
<1>1. /\ TypeOK /\ Reading /\ JournalInv /\ Ahead /\ Watching /\ Running /\ Complete /\ Collecting
      /\ at.round \in {1, 2} /\ at.part \in {1, 4} /\ Part = "groups"
      /\ UNCHANGED <<world, writer, request>> /\ SameEdits
      /\ ~edits'.missed => ~edits.missed /\ ~Missed(Len(got))
  <2>1. TypeOK /\ Reading /\ at.part \in 1 .. 6 /\ Part = "groups" /\ Complete
        /\ at.round \in {1, 2} /\ JournalInv /\ Ahead /\ Watching
        /\ UNCHANGED <<world, writer, request>> /\ Looks
    BY DEF IInv, Reading, CloseGroups, MomentInv
  <2>2. SameEdits /\ (~edits'.missed => ~edits.missed /\ ~Missed(Len(got)))
    BY <2>1, LooksIs DEF SameEdits
  <2> QED
    BY <2>1, <2>2, PartsAre DEF Running, Collecting
<1>2. CASE Fails(3)
  BY <1>1, <1>2, MomentFails
<1> DEFINE c == Column(1)
<1>3. ASSUME ~Torn(c), ~Differs("groups", c), Agrees("groups", c), Quiet,
             Turns(at.round, CASE at.part = 1 -> 2
                               [] at.part = 4 /\ Pending(c) = {} -> 5
                               [] OTHER -> 6)
      PROVE  MomentInv'
  <2>1. memo'.groups = c /\ memo'.plan = memo.plan
    BY <1>1, <1>3, Agreed
  <2>2. (at.round = 2 \/ at.part = 4) => memo' = memo /\ memo.groups = c
    BY <1>3, <2>1 DEF Agrees, Noting
  <2>3. UNCHANGED <<printed, moments, exit>> /\ got' = << >> /\ ReportNow \in moments'
    BY <1>1, <1>3 DEF Quiet, Turns, Watching
  <2>4. PICK r \in {1, 2} : r = at.round
    BY <1>1
  <2>5. /\ \A t \in T : Reads[t] = c[t] /\ t <= Len(Reads)
        /\ \A t \in T : Finished(t)' <=> Finished(t)
        /\ T' = T /\ NoJournal' = NoJournal /\ c = [t \in T |-> Reads[t]]
    <3>1. \A t \in T : Reads[t] = c[t] /\ t <= Len(Reads)
      BY <1>1, ColumnsAre
    <3>2. c = [t \in T |-> c[t]]
      BY DEF Column
    <3> HIDE DEF c
    <3> QED
      BY <1>1, <3>1, <3>2, JournalKept DEF T, NoJournal
  <2>6. Pending(memo.groups)' = Pending(c) /\ Summary(memo.groups)' = Summary(c)
        /\ Pending(memo'.groups) = Pending(c)
    BY <2>1, <2>5 DEF Pending, Summary
  <2> HIDE DEF c
  <2>7. CASE at.part = 1
    <3>1. at' = Start(r, 2) /\ at'.part = 2 /\ at'.round = r
      BY <1>3, <2>4, <2>7 DEF Turns, Start
    <3>2. r = 2 => Pending(memo'.groups) # {} \/ Shaped'
      BY <1>1, <2>1, <2>2, <2>4, <2>5 DEF Watching, Shaped
    <3>3. ASSUME writer.tx <= edits.first, ~edits'.missed, Pending(c) # {} PROVE SecondGroups(got)'
      <4>1. FirstGroups(Reads)
        BY <1>1, <2>7, <3>3, FirstGroupsRead DEF MomentInv, GroupsInv
      <4>2. PICK s : s = Reads
        OBVIOUS
      <4>3. \/ Summary(c) \in moments
            \/ \E t \in Pending(c) : Finished(t)
            \/ /\ \A t \in Pending(c) : journal[t].sealed /\ c[t].sealed
               /\ \E t \in T \ Pending(c) : ~Finished(t)
               /\ \A t \in T \ Pending(c) :
                    Finished(t) \/ (journal[t].sealed /\ \A u \in Pending(c) : t < u)
        BY <1>1, <1>3, <2>5, <3>3, <4>1, <4>2, GroupsFound DEF Watching
      <4>4. \A t : Unread(t, got)'
        BY <3>1 DEF Unread
      <4>5. Pending(c) \subseteq T /\ journal' = journal
        BY <1>1 DEF Pending, world
      <4> QED
        BY <2>1, <2>3, <2>5, <2>6, <4>3, <4>4, <4>5 DEF SecondGroups
    <3>4. writer'.tx <= edits'.first /\ ~edits'.missed => GroupsInv'
      BY <1>1, <2>6, <3>1, <3>3 DEF GroupsInv, SameEdits
    <3>5. PlansInv'
      BY <3>1 DEF PlansInv
    <3> QED
      BY <1>1, <2>3, <3>1, <3>2, <3>4, <3>5, MomentTurns
  <2>8. CASE at.part = 4
    <3>1. PICK p \in {5, 6} : /\ at' = Start(r, p) /\ at'.part = p /\ at'.round = r
                              /\ p = 5 <=> Pending(c) = {}
      BY <1>3, <2>4, <2>8 DEF Turns, Start
    <3>0. memo' = memo /\ memo.groups = c /\ GroupsNoted
      BY <1>1, <2>2, <2>8 DEF GroupsNoted
    <3>w. \A t \in T : Wrong(t)' <=> Wrong(t)
      <4>1. UNCHANGED <<file, manifest, request, memo>>
        BY <1>1, <3>0 DEF world
      <4> QED
        BY <4>1 DEF Wrong, Due
    <3>2. Pending(memo'.groups) # {} \/ Shaped'
      BY <1>1, <2>1, <2>2, <2>5, <2>8 DEF Watching, Shaped
    <3>3. ASSUME writer.tx <= edits.first, ~edits'.missed, Pending(c) # {}
          PROVE  Summary(c) \in moments
      <4>1. SecondGroups(Reads)
        BY <1>1, <2>8, <3>0, <3>3, SecondGroupsRead DEF MomentInv, GroupsInv
      <4>2. Summary(memo.groups) \in moments
        BY <1>1, <2>8, <3>0, <4>1, GroupsAgreed DEF c
      <4> QED
        BY <3>0, <4>2
    <3>4. writer'.tx <= edits'.first /\ ~edits'.missed => GroupsInv'
      BY <1>1, <2>3, <2>6, <3>1, <3>3 DEF GroupsInv, SameEdits
    <3>5. ASSUME ~Concealed', p = 5, r = 2 PROVE SecondPlan(got)'
      <4>0. ~Concealed /\ (Several' <=> Several) /\ ~Missed(Len(got))
        BY <1>1, <3>5 DEF Concealed, Several, SameEdits
      <4>1. SecondPlan(Reads)
        BY <1>1, <2>4, <2>8, <3>0, <3>1, <3>5, <4>0, SecondPlanRead DEF MomentInv, PlansInv
      <4>2. CASE memo.plan \in moments
        BY <2>3, <3>0, <4>2 DEF SecondPlan
      <4>3. CASE writer.tx < edits.first /\ Several /\ Touched(Reads)
        <5>1. PICK t \in edits.files : Wrong(t)
          BY <4>3 DEF Touched
        <5>2. t \in T /\ ~(3 * t - 1 <= 0) /\ Wrong(t)'
          <6>1. t \in T
            BY <1>1, <5>1, Fields
          <6>2. ~(3 * t - 1 <= 0)
            BY <6>1, Numbers
          <6> QED
            BY <3>w, <5>1, <6>1, <6>2
        <5>3. Touched(got)'
          BY <1>1, <2>3, <5>1, <5>2 DEF Touched, SameEdits
        <5> QED
          BY <1>1, <2>3, <4>0, <4>3, <5>3, FirstGroupsStart DEF SecondPlan, SameEdits
      <4>4. CASE /\ writer.tx = edits.first /\ ~Unborn
                 /\ \/ \E t \in T : t <= Len(Reads) /\ Reads[t] # NoJournal
                    \/ \A t \in T : t <= Len(Reads) => Finished(t)
        <5>1. \A t \in T : Reads[t] = NoJournal
          BY <2>5, <3>1, <3>5 DEF Pending
        <5>2. Over
          BY <2>5, <4>4, <5>1 DEF Over
        <5>3. memo.plan \in moments \/ \E t \in T : Wrong(t)
          BY <1>1, <2>4, <3>0, <3>1, <3>5, <5>2, PassStarts DEF Watching
        <5>4. OnePass(got)'
          <6>1. \A t \in T : (Wrong(t)' <=> Wrong(t)) /\ 3 * t - 1 > 0
            BY <3>w, Numbers
          <6>2. Len(got') = 0
            BY <2>3
          <6> QED
            BY <2>3, <2>5, <3>0, <5>3, <6>1, <6>2 DEF OnePass
        <5>5. Over' /\ ~Unborn' /\ writer'.tx = edits'.first /\ AllCurrent(got)'
          BY <1>1, <2>3, <4>4, <5>2, JournalKept, FirstGroupsStart DEF SameEdits
        <5> QED
          BY <3>1, <3>5, <5>4, <5>5 DEF SecondPlan
      <4> QED
        BY <2>8, <4>1, <4>2, <4>3, <4>4 DEF SecondPlan
    <3>6. ~Concealed' => PlansInv'
      BY <2>6, <3>1, <3>5 DEF PlansInv
    <3> QED
      BY <1>1, <2>3, <3>1, <3>2, <3>4, <3>6, MomentTurns
  <2> QED
    BY <1>1, <2>7, <2>8
<1> QED
  BY <1>2, <1>3 DEF CloseGroups

\* Between the first look and what comes next nothing was read that a report is made of.
LEMMA MomentState == ASSUME IInv, MomentInv, OpenState PROVE MomentInv'
<1>1. /\ TypeOK /\ Reading /\ JournalInv /\ Ahead /\ Watching /\ Running /\ Collecting
      /\ at.round \in {1, 2} /\ at.part = 2 /\ GroupsNoted
      /\ UNCHANGED <<world, writer, request>> /\ SameEdits
  BY LooksIs DEF IInv, Reading, OpenState, MomentInv, Running, Collecting, GroupsNoted
<1>2. CASE Fails(3)
  BY <1>1, <1>2, MomentFails
<1>3. ASSUME ~Differs("state", Reads), Agrees("state", Reads), Quiet,
             Turns(at.round, IF Pending(memo.groups) = {} THEN 3 ELSE 4)
      PROVE  MomentInv'
  <2>1. memo'.groups = memo.groups /\ memo'.plan = memo.plan
    BY <1>1, <1>3, Agreed
  <2>2. UNCHANGED <<printed, moments, exit>> /\ got' = << >> /\ ReportNow \in moments'
    BY <1>1, <1>3 DEF Quiet, Turns, Watching
  <2>3. PICK r \in {1, 2}, p \in {3, 4} :
          /\ at.round = r /\ at' = Start(r, p) /\ at'.part = p /\ at'.round = r
          /\ p = 3 <=> Pending(memo.groups) = {}
    BY <1>1, <1>3 DEF Turns, Start
  <2>4. T' = T /\ NoJournal' = NoJournal /\ journal' = journal
        /\ \A t \in T : Finished(t)' <=> Finished(t)
    BY <1>1, JournalKept DEF T, NoJournal, world
  <2>5. Pending(memo.groups)' = Pending(memo.groups) /\ Pending(memo'.groups) = Pending(memo.groups)
        /\ Summary(memo.groups)' = Summary(memo.groups)
    BY <2>1, <2>4 DEF Pending, Summary
  <2>6. r = 2 \/ p >= 4 => Pending(memo'.groups) # {} \/ Shaped'
    BY <1>1, <2>1, <2>3, <2>4, <2>5 DEF Watching, Shaped
  <2>7. ASSUME writer.tx <= edits.first, ~edits.missed, p = 4 PROVE SecondGroups(got)'
    <3>1. SecondGroups(got) /\ ~GroupsDiffer(got)
      BY <1>1, <2>3, <2>7 DEF MomentInv, GroupsInv, GroupsDiffer
    <3>2. \A t \in T : Unread(t, got)'
      <4>1. Len(got') = 0 /\ \A t \in T : t > 0
        BY <2>2, Numbers
      <4> QED
        BY <4>1 DEF Unread
    <3>3. Pending(memo.groups) \subseteq T
      BY DEF Pending
    <3> QED
      BY <2>1, <2>2, <2>4, <2>5, <3>1, <3>2, <3>3 DEF SecondGroups
  <2>8. writer'.tx <= edits'.first /\ ~edits'.missed => GroupsInv'
    BY <1>1, <2>3, <2>5, <2>7 DEF GroupsInv, SameEdits
  <2>9. ASSUME r = 2, p = 3 PROVE FirstPlan(got)'
    <3>1. Unborn' <=> Unborn
      BY <1>1, JournalKept
    <3>2. Unborn => memo.plan \in moments \/ \E t \in T : Wrong(t)
      BY <1>1, <2>3, <2>9, PassStarts DEF Watching
    <3>3. Unborn => OnePass(got)'
      <4>1. \A t \in T : (Wrong(t)' <=> Wrong(t)) /\ 3 * t - 1 > 0
        BY <1>1, <2>1, Numbers DEF Wrong, Due, world
      <4>2. Len(got') = 0
        BY <2>2
      <4> QED
        BY <2>1, <2>2, <2>4, <3>2, <4>1, <4>2 DEF OnePass
    <3> QED
      BY <2>2, <3>1, <3>3, FirstGroupsStart DEF FirstPlan
  <2>10. PlansInv'
    BY <2>3, <2>5, <2>9 DEF PlansInv
  <2> QED
    BY <1>1, <2>2, <2>3, <2>6, <2>8, <2>10, MomentTurns
<1> QED
  BY <1>2, <1>3 DEF OpenState

\* The first plan of the last collection was due before the transaction began; the second
\* after it was over, or it shows that the first was.
LEMMA MomentPlan == ASSUME IInv, MomentInv, ClosePlan PROVE MomentInv'
<1>1. /\ TypeOK /\ Reading /\ JournalInv /\ Ahead /\ Watching /\ Running /\ Complete /\ Collecting
      /\ at.round \in {1, 2} /\ at.part \in {3, 5} /\ Pending(memo.groups) = {}
      /\ UNCHANGED <<world, writer, request, edits>> /\ SameEdits /\ ~Missed(Len(got))
  <2>1. TypeOK /\ Reading /\ at.part \in 1 .. 6 /\ Part = "plan" /\ Complete /\ Running
        /\ JournalInv /\ Ahead /\ Watching /\ UNCHANGED <<world, writer, request, edits>>
    BY DEF IInv, Reading, ClosePlan, MomentInv
  <2>2. at.part \in {3, 5}
    BY <2>1, PartsAre
  <2>3. ~Missed(Len(got))
    <3>1. Cells = <<"manifest", "file", "manifest">> /\ Len(Cells) = 3
      BY <2>2, PartsAre
    <3>2. Len(got) \in Nat /\ 1 + (Len(got) % 3) \in {1, 2, 3}
      BY <2>1, ReadsAre
    <3> QED
      BY <3>1, <3>2 DEF Missed, Cell
  <2> QED
    BY <2>1, <2>2, <2>3 DEF Running, Collecting, Reading, SameEdits
<1>2. CASE Fails(3)
  BY <1>1, <1>2, MomentFails
<1> DEFINE plan == Planned(request, Column(1), Column(2), Column(3))
<1>3. ASSUME ~Differs("plan", plan), Agrees("plan", plan), Quiet, Turns(at.round, at.part + 1)
      PROVE  MomentInv'
  <2>1. memo'.plan = plan /\ memo'.groups = memo.groups
    BY <1>1, <1>3, Agreed
  <2>2. at.round = 2 => memo' = memo /\ memo.plan = plan
    BY <1>3, <2>1 DEF Agrees, Noting
  <2>3. UNCHANGED <<printed, moments, exit>> /\ got' = << >> /\ ReportNow \in moments'
    BY <1>1, <1>3 DEF Quiet, Turns, Watching
  <2>4. PICK r \in {1, 2}, p \in {4, 6} :
          /\ at.round = r /\ at.part = p - 1 /\ at' = Start(r, p) /\ at'.part = p /\ at'.round = r
    BY <1>1, <1>3 DEF Turns, Start
  <2>5. Shaped'
    BY <2>1 DEF Planned, Shaped, T
  <2>6. T' = T /\ NoJournal' = NoJournal
        /\ Pending(memo.groups)' = {} /\ Pending(memo'.groups) = {}
    BY <1>1, <2>1 DEF Pending, T, NoJournal
  <2>7. GroupsInv'
    BY <2>4, <2>6 DEF GroupsInv
  <2>8. ASSUME r = 2, AllCurrent(Reads), NEW t \in T
        PROVE  /\ ~Misread(t, Reads) /\ 3 * t - 1 <= Len(Reads) /\ ~(3 * t - 1 > Len(Reads))
               /\ Wrong(t) => t \in edits.files
    <3>1. /\ ~Misread(t, Reads) /\ 3 * t - 1 <= Len(Reads)
          /\ Wrong(t) => t \in edits.files
      <4>1. memo.plan = Planned(request, Column(1), Column(2), Column(3))
        BY <2>2, <2>4, <2>8
      <4> QED
        BY <1>1, <2>8, <4>1, PlanAgreed
    <3>2. t \in Nat /\ Len(Reads) \in Nat
      BY <1>1, Numbers, ReadsAre
    <3> QED
      BY <3>1, <3>2
  <2>9. ASSUME r = 2, AllCurrent(Reads), OnePass(Reads) PROVE memo.plan \in moments
    BY <2>8, <2>9 DEF OnePass
  <2>c. /\ (Concealed' <=> Concealed) /\ (Several' <=> Several) /\ (Unborn' <=> Unborn)
        /\ r = 2 => \A t \in T : Wrong(t)' <=> Wrong(t)
    BY <1>1, <2>2, <2>4, JournalKept DEF Concealed, Several, Wrong, Due, world
  <2>10. ASSUME r = 2, p = 4, ~Concealed' PROVE SecondPlan(got)'
    <3>0. writer.tx <= edits.first /\ writer.tx \in Nat /\ edits.first \in Nat
          /\ writer' = writer /\ edits' = edits
      BY <1>1, <2>10, <2>c, Fields DEF Concealed
    <3>1. FirstPlan(Reads)
      BY <1>1, <2>4, <2>6, <2>10, <2>c, FirstPlanRead DEF MomentInv, PlansInv
    <3>2. CASE ~Unborn
      <4>1. writer'.tx = edits'.first /\ ~Unborn'
        BY <2>c, <3>0, <3>2 DEF Unborn
      <4>2. \A t \in T' : ~(t <= Len(got'))
        <5>1. Len(got') = 0 /\ \A t \in T : ~(t <= 0)
          BY <2>3, Numbers
        <5> QED
          BY <2>6, <5>1
      <4> QED
        BY <2>4, <2>10, <4>1, <4>2 DEF SecondPlan
    <3>3. CASE Unborn /\ ~Several
      <4>1. memo.plan \in moments
        BY <2>9, <2>10, <3>1, <3>3 DEF FirstPlan
      <4> QED
        BY <2>2, <2>3, <2>4, <2>10, <4>1 DEF SecondPlan
    <3>4. CASE Unborn /\ Several
      <4>1. writer.tx < edits.first
        BY <2>10, <2>c, <3>0, <3>4 DEF Concealed, Several
      <4>2. memo.plan \in moments \/ \E t \in T : Wrong(t)
        BY <1>1, <2>4, <2>10, <3>4, PassStarts DEF Watching
      <4>3. CASE memo.plan \in moments
        BY <2>2, <2>3, <2>4, <2>10, <4>3 DEF SecondPlan
      <4>4. CASE \E t \in T : Wrong(t)
        <5>1. PICK t \in edits.files : Wrong(t) /\ t \in T
          BY <2>8, <2>10, <3>1, <3>4, <4>4 DEF FirstPlan
        <5>2. Touched(got)'
          BY <1>1, <2>4, <2>10, <2>c, <5>1 DEF Touched
        <5> QED
          BY <2>4, <2>10, <2>c, <3>0, <3>4, <4>1, <5>2 DEF SecondPlan
      <4> QED
        BY <4>2, <4>3, <4>4
    <3> QED
      BY <3>2, <3>3, <3>4
  <2>11. ASSUME r = 2, p = 6, ~Concealed' PROVE memo.plan \in moments
    <3>1. SecondPlan(Reads)
      BY <1>1, <2>4, <2>6, <2>11, <2>c, SecondPlanRead DEF MomentInv, PlansInv
    <3>2. CASE Touched(Reads) /\ AllCurrent(Reads)
      BY <1>1, <2>4, <2>8, <2>11, <3>2, Fields DEF Touched
    <3>3. CASE AllCurrent(Reads) /\ OnePass(Reads)
      BY <2>9, <2>11, <3>3
    <3> QED
      BY <2>4, <2>11, <3>1, <3>2, <3>3 DEF SecondPlan
  <2>12. ~Concealed' => PlansInv'
    BY <2>2, <2>3, <2>4, <2>10, <2>11 DEF PlansInv
  <2> QED
    BY <1>1, <2>3, <2>4, <2>5, <2>7, <2>12, MomentTurns
<1> QED
  BY <1>2, <1>3 DEF ClosePlan

\* What is printed was so at a moment, unless that is concealed.
LEMMA Printing ==
  ASSUME IInv, MomentInv, at.part = 6, at.round = 2 \/ (at.round = 1 /\ Outcome.kind = "recovery"),
         ~Concealed
  PROVE  Outcome \in moments
<1>1. writer.tx <= edits.first /\ ~edits.missed
  BY Fields DEF Concealed, IInv
<1>2. CASE Pending(memo.groups) # {}
  BY <1>1, <1>2 DEF Outcome, MomentInv, GroupsInv, GroupsNoted
<1>3. CASE Pending(memo.groups) = {}
  <2>1. Shaped /\ Outcome = memo.plan
    BY <1>3 DEF Outcome, MomentInv, Watching
  <2>2. Outcome.kind = "plan"
    BY <2>1 DEF Shaped
  <2> QED
    BY <1>3, <2>1, <2>2 DEF MomentInv, PlansInv
<1> QED
  BY <1>2, <1>3

\* The first collection ends: a recovery is printed, or all is collected again.
LEMMA MomentFirst == ASSUME IInv, MomentInv, CloseFirst PROVE MomentInv'
<1>1. Running /\ at.round = 1 /\ at.part = 6 /\ UNCHANGED <<world, writer, request>> /\ TypeOK
      /\ (SameEdits \/ Beginning)
  <2>1. Running /\ at.round = 1 /\ at.part = 6 /\ UNCHANGED <<world, writer, request>> /\ TypeOK
        /\ (Looks \/ FromHere(edits.missed \/ Missed(Len(got))))
    BY DEF CloseFirst, Running, IInv
  <2>2. (edits.missed \/ Missed(Len(got))) \in BOOLEAN
    BY <2>1, Fields DEF Missed
  <2> QED
    BY <2>1, <2>2, LooksIs DEF Beginning
<1>2. CASE Fails(3)
  BY <1>1, <1>2, MomentFails
<1>3. CASE Outcome.kind = "recovery" /\ Ends(0) /\ Prints(Outcome) /\ Looks
  <2>1. at' = Start(3, 1) /\ printed' = Outcome /\ moments' = moments
    BY <1>3 DEF Ends, Prints
  <2>2. ~Concealed' => printed' \in moments'
    BY <1>1, <1>3, <2>1, LooksIs, Printing DEF Concealed, SameEdits
  <2> QED
    BY <1>1, <2>1, <2>2, MomentAway
<1>4. CASE Turns(2, 1) /\ moments' = {Moment} /\ UNCHANGED <<memo, printed>>
  <2>1. at' = Start(2, 1) /\ at'.round = 2 /\ at'.part = 1 /\ got' = << >>
    BY <1>4 DEF Turns, Start
  <2>2. ReportNow \in moments'
    BY <1>1, <1>4 DEF Moment, ReportNow, world
  <2>3. GroupsInv' /\ PlansInv'
    BY <2>1, FirstGroupsStart DEF GroupsInv, PlansInv
  <2>4. Pending(memo'.groups) # {} \/ Shaped'
    BY <1>1, <1>4 DEF MomentInv, Watching, Shaped, T
  <2> QED
    BY <1>1, <1>4, <2>1, <2>2, <2>3, <2>4, MomentTurns
<1> QED
  BY <1>2, <1>3, <1>4 DEF CloseFirst

\* The last collection ends, and its report is printed.
LEMMA MomentSecond == ASSUME IInv, MomentInv, CloseSecond PROVE MomentInv'
<1>1. Running /\ at.round = 2 /\ at.part = 6 /\ TypeOK
      /\ UNCHANGED <<world, writer, request>> /\ SameEdits
  BY LooksIs DEF CloseSecond, Running, IInv
<1>2. CASE Fails(3)
  BY <1>1, <1>2, MomentFails
<1>3. CASE Ends(IF HasConflicts THEN 4 ELSE 0) /\ Prints(Outcome)
  <2>1. at' = Start(3, 1) /\ printed' = Outcome /\ moments' = moments
    BY <1>3 DEF Ends, Prints
  <2>2. ~Concealed' => printed' \in moments'
    BY <1>1, <2>1, Printing DEF Concealed, SameEdits
  <2> QED
    BY <1>1, <2>1, <2>2, MomentAway
<1> QED
  BY <1>2, <1>3 DEF CloseSecond

\* Nothing is printed at first.
LEMMA MomentInit == Init => MomentInv
<1> SUFFICES ASSUME Init PROVE MomentInv
  OBVIOUS
<1>1. at.round = 4 /\ printed = Nothing
  BY DEF Init, Start
<1>2. Watching /\ GroupsInv /\ PlansInv /\ ReportIsOfOneMoment
  BY <1>1 DEF Watching, GroupsInv, PlansInv, ReportIsOfOneMoment, Running, Collecting, GroupsNoted
<1>3. Ahead
  BY DEF Init, Ahead
<1> QED
  BY <1>2, <1>3, JournalInit DEF MomentInv

\* Every step.
LEMMA MomentNext == IInv /\ MomentInv /\ [Next]_vars => MomentInv'
<1> SUFFICES ASSUME IInv, MomentInv, [Next]_vars PROVE MomentInv'
  OBVIOUS
<1>1. CASE Raise
  <2>1. Fails(3) /\ SameEdits
    BY <1>1 DEF Raise, SameEdits
  <2> QED
    BY <1>1, <2>1, MomentFails DEF Raise, IInv
<1>2. CASE UNCHANGED vars
  <2>1. UNCHANGED <<world, writer, request, moments, memo, edits>> /\ at' = at /\ got' = got
        /\ printed' = printed /\ SameEdits
    BY <1>2 DEF vars, world, SameEdits
  <2>2. PICK r : r = got
    OBVIOUS
  <2>3. JournalInv' /\ Ahead' /\ (Unborn' <=> Unborn) /\ (Over' <=> Over)
        /\ \A t \in T : Finished(t)' <=> Finished(t)
    BY <2>1, JournalKept DEF MomentInv
  <2>4. /\ FirstGroups(r)' <=> FirstGroups(r)
        /\ AllCurrent(r)' <=> AllCurrent(r)
        /\ OnePass(r)' <=> OnePass(r)
        /\ (Several' <=> Several) /\ (Concealed => Concealed') /\ (Shaped' <=> Shaped)
        /\ Pending(memo.groups)' = Pending(memo.groups)
        /\ Summary(memo.groups)' = Summary(memo.groups)
        /\ SecondGroups(r)' <=> SecondGroups(r)
        /\ Touched(r)' <=> Touched(r)
    BY <2>1, Steady
  <2>5. /\ FirstGroups(got)' <=> FirstGroups(got)
        /\ SecondGroups(got)' <=> SecondGroups(got)
    BY <2>1, <2>2, <2>4 DEF FirstGroups, SecondGroups, GroupsDiffer, Unread
  <2>6. /\ AllCurrent(got)' <=> AllCurrent(got)
        /\ OnePass(got)' <=> OnePass(got)
        /\ Touched(got)' <=> Touched(got)
    BY <2>1, <2>2, <2>4 DEF AllCurrent, Current, OnePass, Misread, Touched
  <2>7. T' = T /\ NoJournal' = NoJournal /\ writer' = writer /\ moments' = moments /\ memo' = memo
        /\ (Concealed' <=> Concealed)
    BY <2>1 DEF T, NoJournal, Concealed
  <2>8. (FirstPlan(got)' <=> FirstPlan(got)) /\ (SecondPlan(got)' <=> SecondPlan(got))
    BY <2>1, <2>3, <2>4, <2>6, <2>7 DEF FirstPlan, SecondPlan
  <2>9. ReportNow' = ReportNow
    BY <2>1 DEF world, ReportNow, Report, Pending, Summary, Planned, T, NoJournal
  <2>10. Watching' /\ ReportIsOfOneMoment'
    BY <2>1, <2>4, <2>7, <2>9 DEF MomentInv, Watching, ReportIsOfOneMoment, Running
  <2>11. (GroupsInv => GroupsInv') /\ (PlansInv => PlansInv')
    BY <2>1, <2>4, <2>5, <2>8 DEF GroupsInv, PlansInv, Collecting, GroupsNoted
  <2> QED
    BY <2>1, <2>3, <2>7, <2>10, <2>11 DEF MomentInv
<1> QED
  BY <1>1, <1>2, MomentOthers, MomentBegin, MomentReturn, MomentRead, MomentCheck, MomentGroups,
     MomentPlan, MomentState, MomentFirst, MomentSecond DEF Next, Proceed, IInv

\* What a collection has found of journals and of plans was so at one of its moments, or a
\* read that is still to come will contradict it; unless a journal was missed between its
\* names, and of plans, if nothing else conceals it.
THEOREM ReportsAreWatched == Spec => []MomentInv
BY MomentInit, MomentNext, ReadsAreCounted, PTL DEF Spec

\* ReportIsOfOneMoment (orchestrator.py, _collect_stable_dry_run_evidence): what a dry run
\* prints was true of all homes at once at a moment of its last collection, for every number
\* of homes and of transactions, and wherever these are interrupted; unless beside that
\* collection a file is edited twice, or there are two transactions, or one and two edits,
\* or a look at a journal falls between its names, where it is unlinked and not yet linked.
THEOREM ReportsAreOfOneMoment == Spec => []ReportIsOfOneMoment
<1>1. MomentInv => ReportIsOfOneMoment
  BY DEF MomentInv
<1> QED
  BY <1>1, ReportsAreWatched, PTL
=============================================================================
