--------------------------- MODULE OwnershipProofs ---------------------------
(***************************************************************************)
(* Theorems about Ownership, for any paths, texts, releases and edits:     *)
(* the variables keep their types, nothing the user wrote is lost, what an *)
(* uninstall lets go of is as the user left it, an install that is         *)
(* repeated plans nothing, and rejections and conflicts have a cause.      *)
(***************************************************************************)
EXTENDS Ownership, TLAPS

\* c is held in one of the backups k of p.
Held(p, c, k) == \E b \in k : b[1] = p /\ Holds(p, b[2], c)

\* A text that is not there does not end in a newline, and a whole file is not
\* empty: neither a source is, nor is what the user writes.
Proper(p, c) ==
  /\ c.text = NoText => ~c.ended
  /\ p \in Files => c.text # NoText \/ c.part # Nothing

\* The entry stands for bytes that are not what the user had: those are in a
\* backup, if he had any.
Covers(p, e) == e.own = "replaced" \/ (e.own = "created" /\ p \in Files)

\* One path with the file f, the entry e, the user's m and the backups k.
\* NothingLost is not inductive: that a file equal to its entry may be removed
\* or overwritten needs the last conjunct, that it may be restored the third.
PathTyped(f, e, m) == f \in FileStates /\ e \in Entries /\ m \in FileStates
PathProper(p, f, m) ==
  /\ f.kind = "regular" => Proper(p, f.content)
  /\ m.kind = "regular" => Proper(p, m.content)
PathSaved(p, e, k) == e.own = "replaced" => <<p, e.saved>> \in k /\ Proper(p, e.saved)
PathKept(p, f, m, k) ==
  /\ m.kind = "link" => f.kind = "link"
  /\ m.kind = "regular" => Holds(p, f.content, m.content) \/ Held(p, m.content, k)
PathCovered(p, f, e, m, k) ==
  m.kind = "regular" /\ f.kind = "regular" /\ f.content = e.content /\ Covers(p, e)
    => Held(p, m.content, k)
PathOK(p, f, e, m, k) ==
  /\ PathTyped(f, e, m) /\ PathProper(p, f, m) /\ PathSaved(p, e, k)
  /\ PathKept(p, f, m, k) /\ PathCovered(p, f, e, m, k)

Shape ==
  /\ file = [p \in Paths |-> file[p]] /\ manifest = [p \in Paths |-> manifest[p]]
  /\ mine = [p \in Paths |-> mine[p]]
  /\ kept \subseteq Paths \X Contents /\ release \in Releases
  /\ edits \in 0..MaxEdits /\ repeat \subseteq SUBSET Optional /\ outcome \in Outcomes
PathInv(p) == PathOK(p, file[p], manifest[p], mine[p], kept)
IInv == Shape /\ \A p \in Paths : PathInv(p)

-----------------------------------------------------------------------------
(* Files, contents and entries.                                             *)

LEMMA ContentType ==
  ASSUME NEW t \in Texts \cup {NoText}, NEW n \in BOOLEAN, NEW r \in Parts
  PROVE  /\ Content(t, n, r) \in Contents /\ Content(t, n, r).text = t
         /\ Content(t, n, r).ended = n /\ Content(t, n, r).part = r
  BY DEF Content, Contents

LEMMA ContentFields ==
  ASSUME NEW c \in Contents
  PROVE  /\ c.text \in Texts \cup {NoText} /\ c.ended \in BOOLEAN /\ c.part \in Parts
         /\ c = Content(c.text, c.ended, c.part)
  BY DEF Content, Contents

LEMMA FileType ==
  ASSUME NEW c \in Contents, NEW x \in Modes
  PROVE  /\ File(c, x) \in FileStates /\ File(c, x).kind = "regular"
         /\ File(c, x).content = c /\ File(c, x).mode = x
  BY DEF File, FileStates

LEMMA RegularFields ==
  ASSUME NEW f \in FileStates, f.kind = "regular"
  PROVE  f.content \in Contents /\ f.mode \in Modes /\ f.links \in 1..2
  BY DEF FileStates, Absent, Symlink

LEMMA OtherFiles ==
  /\ Absent \in FileStates /\ Absent.kind = "absent" /\ Absent.content = Blank
  /\ Symlink \in FileStates /\ Symlink.kind = "link" /\ Symlink.content = Blank
  /\ Blank \in Contents /\ Blank.text = NoText /\ Blank.ended = FALSE /\ Blank.part = Nothing
  BY DEF FileStates, Absent, Symlink, Blank, Content, Contents, Parts, Nothing

LEMMA Kinds ==
  ASSUME NEW f \in FileStates
  PROVE  /\ f.kind \in {"absent", "link", "regular"}
         /\ f.kind = "absent" => f = Absent
         /\ f.kind = "link" => f = Symlink
  BY DEF FileStates, Absent, Symlink

LEMMA EntryFields ==
  ASSUME NEW e \in Entries
  PROVE  /\ e.own \in {"nobody", "created", "preexisting", "replaced"}
         /\ e.own = "nobody" <=> e = NoEntry
         /\ e.own = "replaced" => e.saved \in Contents /\ e.savedMode \in Modes
         /\ e.own # "nobody" => e.content \in Contents /\ e.mode \in Modes
  BY DEF Entries, NoEntry, Entry

LEMMA NewEntry ==
  ASSUME NEW c \in Contents, NEW x \in Modes
  PROVE  /\ Entry(c, x, "created", Blank, "none") \in Entries
         /\ Entry(c, x, "preexisting", Blank, "none") \in Entries
         /\ [Entry(c, x, "preexisting", Blank, "none") EXCEPT !.savedMode = x] \in Entries
         /\ \A s \in Contents, y \in Modes : Entry(c, x, "replaced", s, y) \in Entries
  BY DEF Entries, Entry

LEMMA NoEntryType == NoEntry \in Entries /\ NoEntry.own = "nobody"
  BY DEF Entries, NoEntry, Entry

\* An entry with a reason added or dropped, or with other installed bytes.
LEMMA ChangedEntry ==
  ASSUME NEW e \in Entries, e.own # "nobody", NEW u \in BOOLEAN,
         NEW c \in Contents, NEW x \in Modes
  PROVE  /\ [e EXCEPT !.unresolved = u] \in Entries
         /\ [e EXCEPT !.content = c, !.mode = x, !.unresolved = u] \in Entries
<1> DEFINE Given == [own : {"created", "preexisting"}, content : Contents, mode : Modes,
              saved : {Blank}, savedMode : Modes \cup {"none"}, unresolved : BOOLEAN]
           Replaced == [own : {"replaced"}, content : Contents, mode : Modes,
              saved : Contents, savedMode : Modes, unresolved : BOOLEAN]
<1>1. Entries = {NoEntry} \cup Given \cup Replaced
  BY DEF Entries
<1>2. e \in Given \/ e \in Replaced
  BY <1>1 DEF NoEntry, Entry
<1>3. CASE e \in Given
  <2>1. [e EXCEPT !.unresolved = u] \in Given
    BY <1>3
  <2>2. [e EXCEPT !.content = c, !.mode = x, !.unresolved = u] \in Given
    BY <1>3
  <2> QED
    BY <1>1, <2>1, <2>2
<1>4. CASE e \in Replaced
  <2>1. [e EXCEPT !.unresolved = u] \in Replaced
    BY <1>4
  <2>2. [e EXCEPT !.content = c, !.mode = x, !.unresolved = u] \in Replaced
    BY <1>4
  <2> QED
    BY <1>1, <2>1, <2>2
<1> QED
  BY <1>2, <1>3, <1>4

LEMMA SourceType ==
  ASSUME release \in Releases, NEW p \in Paths
  PROVE  Source(p) \in Contents /\ Proper(p, Source(p))
<1>1. release \in Parts
  BY DEF Parts
<1>2. release # Nothing
  BY OwnershipAssumption DEF Releases, Nothing
<1>3. Source(p) \in Contents /\ Source(p).text = NoText /\ Source(p).ended = FALSE
      /\ Source(p).part = release
  BY <1>1 DEF Source, Content, Contents
<1> QED
  BY <1>2, <1>3 DEF Proper

LEMMA BlockType ==
  ASSUME release \in Releases, NEW p \in Instructions, NEW c \in Contents, Proper(p, c)
  PROVE  /\ InsertBlock(c) \in Contents /\ InsertBlock(c).text = c.text
         /\ c.ended => InsertBlock(c).ended
         /\ Proper(p, InsertBlock(c))
         /\ RemoveBlock(c) \in Contents /\ RemoveBlock(c).text = c.text
         /\ RemoveBlock(c).ended = c.ended /\ Proper(p, RemoveBlock(c))
<1>1. release \in Parts /\ Nothing \in Parts /\ p \notin Files
  BY OwnershipAssumption DEF Releases, Parts, Nothing
<1>2. c.text \in Texts \cup {NoText} /\ c.ended \in BOOLEAN
  BY ContentFields
<1>3. RemoveBlock(c) \in Contents /\ RemoveBlock(c).text = c.text
      /\ RemoveBlock(c).ended = c.ended
  BY <1>1, <1>2 DEF RemoveBlock, Content, Contents
<1>4. InsertBlock(c) \in Contents /\ InsertBlock(c).text = c.text
      /\ InsertBlock(c).ended = (c.ended \/ (c.text # NoText /\ ~HasBlock(c)))
  BY <1>1, <1>2 DEF InsertBlock, Content, Contents
<1> QED
  BY <1>1, <1>2, <1>3, <1>4 DEF Proper

\* Backups are only added.
LEMMA HeldGrows ==
  ASSUME NEW p, NEW c, NEW k, NEW j, k \subseteq j, Held(p, c, k)
  PROVE  Held(p, c, j)
  BY DEF Held

LEMMA HoldsItself == \A p, c : Holds(p, c, c)
  BY DEF Holds

LEMMA PathGrows ==
  ASSUME NEW p, NEW f, NEW e, NEW m, NEW k, NEW j, k \subseteq j, PathOK(p, f, e, m, k)
  PROVE  PathOK(p, f, e, m, j)
  BY HeldGrows DEF PathOK, PathSaved, PathKept, PathCovered

-----------------------------------------------------------------------------
(* One path of a plan: what each operation does to it is safe.              *)

BackupOf(p, plan) ==
  IF plan.op = "replace" /\ plan.entry.own = "replaced" THEN {<<p, plan.entry.saved>>} ELSE {}
Safe(p, plan) ==
  PathOK(p, plan.after, plan.entry, mine[p], kept \cup BackupOf(p, plan))

LEMMA PlanFields ==
  ASSUME NEW p, NEW op, NEW f, NEW e
  PROVE  Plan(p, op, f, e).op = op /\ Plan(p, op, f, e).after = f
         /\ Plan(p, op, f, e).entry = e
  BY DEF Plan

\* It is enough that the path is fine without the backup of this plan.
LEMMA SafeIf ==
  ASSUME NEW p, NEW plan, NEW f, NEW e, plan.after = f, plan.entry = e,
         PathOK(p, f, e, mine[p], kept)
  PROVE  Safe(p, plan)
<1>1. kept \subseteq kept \cup BackupOf(p, plan)
  OBVIOUS
<1> QED
  BY <1>1, PathGrows DEF Safe

\* The file stays, and so does what the entry says of it, or there is no entry
\* that stands for the user's bytes.
LEMMA StaysSafe ==
  ASSUME NEW p \in Paths, PathInv(p), NEW plan, NEW e \in Entries,
         plan.after = file[p], plan.entry = e,
         \/ e.own \in {"nobody", "preexisting"}
         \/ e.own = manifest[p].own /\ e.saved = manifest[p].saved
                                    /\ e.content = manifest[p].content
  PROVE  Safe(p, plan)
<1>1. PathOK(p, file[p], e, mine[p], kept)
  BY Zenon DEF PathInv, PathOK, PathTyped, PathSaved, PathCovered, Covers
<1> QED
  BY <1>1, SafeIf

LEMMA LeaveSafe ==
  ASSUME NEW p \in Paths, PathInv(p)
  PROVE  Safe(p, Leave(p)) /\ Safe(p, Raise(p))
<1>1. NoEntry \in Entries /\ NoEntry.own = "nobody"
  BY NoEntryType
<1>2. Leave(p).after = file[p] /\ Leave(p).entry = NoEntry
  BY DEF Leave, Plan
<1>3. Raise(p).after = file[p] /\ Raise(p).entry = NoEntry
  BY DEF Raise, Plan
<1> QED
  BY <1>1, <1>2, <1>3, StaysSafe

\* An entry that only gets or loses its reason.
LEMMA WithReason ==
  ASSUME NEW p \in Paths, PathInv(p), Claimed(p), NEW u \in BOOLEAN
  PROVE  LET e == [manifest[p] EXCEPT !.unresolved = u]
         IN e \in Entries /\ e.own = manifest[p].own /\ e.saved = manifest[p].saved
            /\ e.content = manifest[p].content
<1>1. manifest[p] \in Entries /\ manifest[p].own # "nobody"
  BY EntryFields DEF PathInv, PathOK, PathTyped, Claimed
<1>2. manifest[p].content \in Contents /\ manifest[p].mode \in Modes
  BY <1>1, EntryFields
<1>3. [manifest[p] EXCEPT !.unresolved = u] \in Entries
  BY <1>1, <1>2, ChangedEntry
<1> QED
  BY <1>3

LEMMA KeepSafe ==
  ASSUME NEW p \in Paths, PathInv(p), Claimed(p)
  PROVE  Safe(p, Keep(p))
<1>1. Keep(p).after = file[p]
      /\ Keep(p).entry = [manifest[p] EXCEPT !.unresolved = FALSE]
  BY DEF Keep, Plan
<1> QED
  BY <1>1, WithReason, StaysSafe

LEMMA ConflictSafe ==
  ASSUME NEW p \in Paths, PathInv(p)
  PROVE  Safe(p, Conflict(p))
<1>1. Conflict(p).after = file[p]
  BY DEF Conflict, Leave, Plan
<1>2. CASE Claimed(p)
  <2>1. Conflict(p).entry = [manifest[p] EXCEPT !.unresolved = TRUE]
    BY <1>2 DEF Conflict, Leave, Plan
  <2> QED
    BY <1>1, <1>2, <2>1, WithReason, StaysSafe
<1>3. CASE ~Claimed(p)
  <2>1. Conflict(p).entry = NoEntry
    BY <1>3 DEF Conflict, Leave, Plan
  <2> QED
    BY <1>1, <2>1, NoEntryType, StaysSafe
<1> QED
  BY <1>2, <1>3

LEMMA AdoptSafe ==
  ASSUME NEW p \in Paths, PathInv(p), Present(p)
  PROVE  Safe(p, Adopt(p)) /\ Safe(p, AdoptBlock(p))
<1> DEFINE e == Entry(file[p].content, file[p].mode, "preexisting", Blank, "none")
<1>1. file[p].content \in Contents /\ file[p].mode \in Modes
  BY RegularFields DEF PathInv, PathOK, PathTyped, Present
<1>2. Adopt(p).after = file[p] /\ Adopt(p).entry = e
  BY DEF Adopt, Plan
<1>3. AdoptBlock(p).after = file[p]
      /\ AdoptBlock(p).entry = [e EXCEPT !.savedMode = file[p].mode]
  BY DEF AdoptBlock, Adopt, Plan
<1>4. e \in Entries /\ [e EXCEPT !.savedMode = file[p].mode] \in Entries
  BY <1>1, NewEntry
<1>5. e.own = "preexisting" /\ [e EXCEPT !.savedMode = file[p].mode].own = "preexisting"
  BY DEF Entry
<1> HIDE DEF e
<1> QED
  BY <1>2, <1>3, <1>4, <1>5, StaysSafe

\* A file appears where there was none: what the user had there is in a backup,
\* or it was an instruction file without text.
LEMMA CreateSafe ==
  ASSUME NEW p \in Paths, PathInv(p), Missing(p), NEW c \in Contents, Proper(p, c),
         p \notin Files => c.text = NoText
  PROVE  Safe(p, Create(p, c))
<1> DEFINE f == File(c, "private")
           e == Entry(c, "private", "created", Blank, "none")
           m == mine[p]
<1>1. file[p] = Absent /\ file[p].kind = "absent" /\ m \in FileStates
  BY Kinds DEF PathInv, PathOK, PathTyped, Missing
<1>2. f \in FileStates /\ f.kind = "regular" /\ f.content = c
  BY FileType DEF Modes
<1>3. e \in Entries /\ e.own = "created" /\ e.content = c
  BY NewEntry DEF Modes, Entry
<1>4. Create(p, c).after = f /\ Create(p, c).entry = e
  BY DEF Create, Plan
<1>5. m.kind # "link"
  BY <1>1 DEF PathInv, PathOK, PathKept
<1>6. m.kind = "regular" => Proper(p, m.content) /\ m.content \in Contents
  BY <1>1, RegularFields DEF PathInv, PathOK, PathProper
<1>7. ASSUME m.kind = "regular", ~Held(p, m.content, kept)
      PROVE  p \notin Files /\ Holds(p, c, m.content)
  <2>1. Holds(p, Blank, m.content)
    BY <1>1, <1>7, OtherFiles DEF PathInv, PathOK, PathKept
  <2>2. m.content.text = NoText /\ (p \in Files => m.content.part = Nothing)
    BY <2>1, OtherFiles DEF Holds
  <2>3. ~m.content.ended /\ p \notin Files
    BY <1>6, <1>7, <2>2 DEF Proper
  <2> QED
    BY <2>2, <2>3 DEF Holds
<1> HIDE DEF f, e, m
<1>8. PathOK(p, f, e, m, kept)
  <2>1. PathTyped(f, e, m) /\ PathProper(p, f, m) /\ PathSaved(p, e, kept)
    BY <1>1, <1>2, <1>3, <1>6 DEF PathTyped, PathProper, PathSaved
  <2>2. PathKept(p, f, m, kept)
    BY <1>2, <1>5, <1>7 DEF PathKept
  <2>3. PathCovered(p, f, e, m, kept)
    BY <1>3, <1>7 DEF PathCovered, Covers
  <2> QED
    BY <2>1, <2>2, <2>3 DEF PathOK
<1> QED
  BY <1>4, <1>8, SafeIf DEF m

\* What was at the path goes into a backup.
LEMMA ReplaceSafe ==
  ASSUME NEW p \in Paths, PathInv(p), Present(p), NEW c \in Contents, Proper(p, c)
  PROVE  Safe(p, Replace(p, c))
<1> DEFINE f == File(c, "private")
           e == Entry(c, "private", "replaced", file[p].content, file[p].mode)
           m == mine[p]
           k == kept \cup {<<p, file[p].content>>}
<1>1. file[p].content \in Contents /\ file[p].mode \in Modes /\ m \in FileStates
      /\ file[p].kind = "regular"
  BY RegularFields DEF PathInv, PathOK, PathTyped, Present
<1>2. f \in FileStates /\ f.kind = "regular" /\ f.content = c
  BY FileType DEF Modes
<1>3. e \in Entries /\ e.own = "replaced" /\ e.saved = file[p].content
  BY <1>1, NewEntry DEF Modes, Entry
<1>4. Replace(p, c).after = f /\ Replace(p, c).entry = e
      /\ BackupOf(p, Replace(p, c)) = {<<p, file[p].content>>}
  BY DEF Replace, Plan, BackupOf, Entry
<1>5. m.kind # "link"
  BY <1>1 DEF PathInv, PathOK, PathKept
<1>6. Proper(p, file[p].content) /\ (m.kind = "regular" => Proper(p, m.content))
  BY <1>1 DEF PathInv, PathOK, PathProper
<1>7. m.kind = "regular" => Held(p, m.content, k)
  <2>1. CASE Held(p, m.content, kept)
    BY <2>1, HeldGrows
  <2>2. CASE m.kind = "regular" /\ Holds(p, file[p].content, m.content)
    <3>1. <<p, file[p].content>> \in k /\ <<p, file[p].content>>[1] = p
          /\ Holds(p, <<p, file[p].content>>[2], m.content)
      BY <2>2
    <3> QED
      BY <3>1 DEF Held
  <2> QED
    BY <2>1, <2>2 DEF PathInv, PathOK, PathKept
<1>8. <<p, file[p].content>> \in k
  OBVIOUS
<1> HIDE DEF f, e, m, k
<1>9. PathOK(p, f, e, m, k)
  BY <1>1, <1>2, <1>3, <1>5, <1>6, <1>7, <1>8
  DEF PathOK, PathTyped, PathProper, PathSaved, PathKept, PathCovered
<1> QED
  BY <1>4, <1>9 DEF Safe, m, k

\* What is recorded is replaced: it stands for what a backup holds, or it is a
\* file with a block of which only the block changes.
LEMMA UpdateSafe ==
  ASSUME NEW p \in Paths, PathInv(p), Exact(p), manifest[p].own \in {"created", "replaced"},
         NEW c \in Contents, Proper(p, c),
         p \notin Files => /\ c.text = file[p].content.text
                           /\ file[p].content.ended => c.ended
  PROVE  Safe(p, Update(p, c))
<1> DEFINE f == File(c, "private")
           e == [manifest[p] EXCEPT !.content = c, !.mode = "private", !.unresolved = FALSE]
           m == mine[p]
<1>1. file[p].kind = "regular" /\ file[p].content = manifest[p].content
  BY DEF Exact, Present
<1>2. f \in FileStates /\ f.kind = "regular" /\ f.content = c
  BY FileType DEF Modes
<1>3. e \in Entries /\ e.own = manifest[p].own /\ e.saved = manifest[p].saved
  <2>1. manifest[p] \in Entries
    BY DEF PathInv, PathOK, PathTyped
  <2>2. e \in Entries
    BY <2>1, ChangedEntry DEF Modes
  <2> QED
    BY <2>1, <2>2 DEF Entries, NoEntry, Entry
<1>4. Update(p, c).after = f /\ Update(p, c).entry = e
  BY DEF Update, Plan
<1>5. m \in FileStates /\ m.kind # "link"
  BY <1>1 DEF PathInv, PathOK, PathTyped, PathKept
<1>6. m.kind = "regular" /\ Covers(p, manifest[p]) => Held(p, m.content, kept)
  BY <1>1 DEF PathInv, PathOK, PathCovered
<1>7. m.kind = "regular" => Holds(p, c, m.content) \/ Held(p, m.content, kept)
  <2>1. CASE Covers(p, manifest[p])
    BY <1>6, <2>1
  <2>2. CASE ~Covers(p, manifest[p])
    <3>1. p \notin Files
      BY <2>2 DEF Covers
    <3>2. m.kind = "regular" =>
            Holds(p, file[p].content, m.content) \/ Held(p, m.content, kept)
      BY DEF PathInv, PathOK, PathKept
    <3> QED
      BY <3>1, <3>2 DEF Holds
  <2> QED
    BY <2>1, <2>2
<1>8. /\ m.kind = "regular" => Proper(p, m.content)
      /\ e.own = "replaced" => <<p, e.saved>> \in kept /\ Proper(p, e.saved)
  BY <1>3 DEF PathInv, PathOK, PathProper, PathSaved
<1>9. Covers(p, e) <=> Covers(p, manifest[p])
  BY <1>3 DEF Covers
<1> HIDE DEF f, e, m
<1>10. PathOK(p, f, e, m, kept)
  BY <1>2, <1>3, <1>5, <1>6, <1>7, <1>8, <1>9
  DEF PathOK, PathTyped, PathProper, PathSaved, PathKept, PathCovered
<1> QED
  BY <1>4, <1>10, SafeIf DEF m

LEMMA RemoveSafe ==
  ASSUME NEW p \in Files, PathInv(p), p \in Paths, Exact(p), manifest[p].own = "created"
  PROVE  Safe(p, Remove(p))
<1> DEFINE m == mine[p]
<1>1. file[p].kind = "regular" /\ file[p].content = manifest[p].content
  BY DEF Exact, Present
<1>2. m \in FileStates /\ m.kind # "link"
      /\ (m.kind = "regular" => Proper(p, m.content) /\ Held(p, m.content, kept))
  BY <1>1 DEF PathInv, PathOK, PathTyped, PathProper, PathKept, PathCovered, Covers
<1>3. Remove(p).after = Absent /\ Remove(p).entry = NoEntry
  BY DEF Remove, Plan
<1> HIDE DEF m
<1>4. PathOK(p, Absent, NoEntry, m, kept)
  BY <1>2, OtherFiles, NoEntryType
  DEF PathOK, PathTyped, PathProper, PathSaved, PathKept, PathCovered
<1> QED
  BY <1>3, <1>4, SafeIf DEF m

\* The user's file comes back, and the bytes it replaces are not his, or held.
LEMMA RestoreSafe ==
  ASSUME NEW p \in Paths, PathInv(p), Exact(p), manifest[p].own = "replaced"
  PROVE  Safe(p, Restore(p))
<1> DEFINE f == File(manifest[p].saved, manifest[p].savedMode)
           m == mine[p]
<1>1. file[p].kind = "regular" /\ file[p].content = manifest[p].content
  BY DEF Exact, Present
<1>2. m \in FileStates /\ m.kind # "link"
      /\ (m.kind = "regular" => Proper(p, m.content) /\ Held(p, m.content, kept))
  BY <1>1 DEF PathInv, PathOK, PathTyped, PathProper, PathKept, PathCovered, Covers
<1>3. manifest[p].saved \in Contents /\ manifest[p].savedMode \in Modes
  BY EntryFields DEF PathInv, PathOK, PathTyped
<1>4. <<p, manifest[p].saved>> \in kept /\ Proper(p, manifest[p].saved)
  BY DEF PathInv, PathOK, PathSaved
<1>5. Restore(p).after = f /\ Restore(p).entry = NoEntry
  BY <1>4 DEF Restore, Plan
<1>6. f \in FileStates /\ f.kind = "regular" /\ f.content = manifest[p].saved
  BY <1>3, FileType
<1> HIDE DEF f, m
<1>7. PathOK(p, f, NoEntry, m, kept)
  BY <1>2, <1>4, <1>6, NoEntryType
  DEF PathOK, PathTyped, PathProper, PathSaved, PathKept, PathCovered, Covers
<1> QED
  BY <1>5, <1>7, SafeIf DEF m

\* The text around a block stays; where there is none the file may go.
LEMMA BlockRemovedSafe ==
  ASSUME release \in Releases, NEW p \in Instructions, p \in Paths, PathInv(p), Present(p),
         NEW x \in Modes, NEW plan,
         \/ plan = Plan(p, "remove-block", File(RemoveBlock(file[p].content), x), NoEntry)
         \/ plan = Remove(p) /\ RemoveBlock(file[p].content).text = NoText
  PROVE  Safe(p, plan)
<1> DEFINE c == RemoveBlock(file[p].content)
           f == File(c, x)
           m == mine[p]
<1>1. file[p].content \in Contents /\ file[p].kind = "regular"
  BY RegularFields DEF PathInv, PathOK, PathTyped, Present
<1>2. Proper(p, file[p].content) /\ p \notin Files
  BY <1>1, OwnershipAssumption DEF PathInv, PathOK, PathProper
<1>3. c \in Contents /\ c.text = file[p].content.text /\ c.ended = file[p].content.ended
      /\ Proper(p, c)
  BY <1>1, <1>2, BlockType
<1>4. m \in FileStates /\ m.kind # "link" /\ (m.kind = "regular" => Proper(p, m.content))
  BY <1>1 DEF PathInv, PathOK, PathTyped, PathProper, PathKept
<1>5. m.kind = "regular" => Holds(p, c, m.content) \/ Held(p, m.content, kept)
  BY <1>1, <1>2, <1>3 DEF PathInv, PathOK, PathKept, Holds
<1>6. f \in FileStates /\ f.kind = "regular" /\ f.content = c
  BY <1>3, FileType
<1>7. CASE plan = Plan(p, "remove-block", f, NoEntry)
  <2>1. plan.after = f /\ plan.entry = NoEntry
    BY <1>7, PlanFields
  <2> HIDE DEF f, m, c
  <2>2. PathOK(p, f, NoEntry, m, kept)
    BY <1>3, <1>4, <1>5, <1>6, NoEntryType
    DEF PathOK, PathTyped, PathProper, PathSaved, PathKept, PathCovered, Covers
  <2> QED
    BY <2>1, <2>2, SafeIf DEF m
<1>8. CASE plan = Remove(p) /\ c.text = NoText
  <2>1. plan.after = Absent /\ plan.entry = NoEntry
    BY <1>8, PlanFields DEF Remove
  <2> HIDE DEF f, m, c
  <2>2. ~c.ended
    BY <1>3, <1>8 DEF Proper
  <2>3. Holds(p, c, m.content) => Holds(p, Absent.content, m.content)
    BY <1>2, <1>8, <2>2, OtherFiles DEF Holds
  <2>4. PathOK(p, Absent, NoEntry, m, kept)
    BY <1>4, <1>5, <2>3, OtherFiles, NoEntryType
    DEF PathOK, PathTyped, PathProper, PathSaved, PathKept, PathCovered, Covers
  <2> QED
    BY <2>1, <2>4, SafeIf DEF m
<1> QED
  BY <1>7, <1>8

LEMMA WithoutBlockSafe ==
  ASSUME release \in Releases, NEW p \in Instructions, p \in Paths, PathInv(p), Present(p),
         NEW x \in Modes
  PROVE  Safe(p, WithoutBlock(p, x))
  BY BlockRemovedSafe DEF WithoutBlock

-----------------------------------------------------------------------------
(* The planner: whatever it decides for a path is safe.                     *)

LEMMA OwnOfClaimed ==
  ASSUME NEW p \in Paths, PathInv(p), Claimed(p)
  PROVE  manifest[p].own \in {"created", "preexisting", "replaced"}
  BY EntryFields DEF PathInv, PathOK, PathTyped, Claimed

LEMMA PlanRegularSourceSafe ==
  ASSUME release \in Releases, NEW p \in Files, PathInv(p)
  PROVE  Safe(p, PlanRegularSource(p))
<1> DEFINE P == PlanRegularSource(p)
<1>1. p \in Paths
  BY DEF Paths
<1>2. Source(p) \in Contents /\ Proper(p, Source(p))
  BY <1>1, SourceType
<1>3. CASE ~Claimed(p) /\ Missing(p)
  <2>1. P = Create(p, Source(p))
    BY <1>3 DEF PlanRegularSource, Missing, Unsafe, Present
  <2> QED
    BY <1>1, <1>2, <1>3, <2>1, CreateSafe
<1>4. CASE ~Claimed(p) /\ Unsafe(p)
  <2>1. P = Raise(p)
    BY <1>4 DEF PlanRegularSource, Unsafe, Missing, Present
  <2> QED
    BY <1>1, <2>1, LeaveSafe
<1>5. CASE ~Claimed(p) /\ Present(p)
  <2>1. P \in {Replace(p, Source(p)), Adopt(p), Conflict(p)}
    BY <1>5 DEF PlanRegularSource, Unsafe, Missing, Present
  <2> QED
    BY <1>1, <1>2, <1>5, <2>1, ReplaceSafe, AdoptSafe, ConflictSafe
<1>6. CASE Claimed(p) /\ ~Exact(p)
  <2>1. P = Conflict(p)
    BY <1>6 DEF PlanRegularSource
  <2> QED
    BY <1>1, <2>1, ConflictSafe
<1>7. CASE Claimed(p) /\ Exact(p)
  <2>1. \/ P \in {Keep(p), Conflict(p)}
        \/ P = Update(p, Source(p)) /\ manifest[p].own # "preexisting"
    BY <1>7 DEF PlanRegularSource
  <2>2. manifest[p].own \in {"created", "preexisting", "replaced"}
    BY <1>1, <1>7, OwnOfClaimed
  <2> QED
    BY <1>1, <1>2, <1>7, <2>1, <2>2, KeepSafe, ConflictSafe, UpdateSafe
<1>8. Missing(p) \/ Unsafe(p) \/ Present(p)
  BY <1>1, Kinds DEF PathInv, PathOK, PathTyped, Missing, Unsafe, Present
<1> QED
  BY <1>3, <1>4, <1>5, <1>6, <1>7, <1>8

LEMMA PlanBlockSafe ==
  ASSUME release \in Releases, NEW p \in Instructions, PathInv(p), ~Unreadable(p)
  PROVE  Safe(p, PlanBlock(p))
<1> DEFINE P == PlanBlock(p)
           c == file[p].content
<1>1. p \in Paths /\ p \notin Files
  BY OwnershipAssumption DEF Paths
<1>2. file[p] \in FileStates
  BY DEF PathInv, PathOK, PathTyped
<1>3. CASE ~Claimed(p) /\ Missing(p)
  <2>1. P = Create(p, InsertBlock(c))
    BY <1>3 DEF PlanBlock, Missing, Present
  <2>2. c = Blank /\ Proper(p, c) /\ c \in Contents /\ c.text = NoText
    BY <1>1, <1>2, <1>3, Kinds, OtherFiles DEF Missing, Proper
  <2>3. InsertBlock(c) \in Contents /\ InsertBlock(c).text = NoText
        /\ Proper(p, InsertBlock(c))
    BY <2>2, BlockType
  <2> QED
    BY <1>1, <1>3, <2>1, <2>3, CreateSafe
<1>4. CASE Present(p) /\ (Claimed(p) => Exact(p))
  <2>1. c \in Contents /\ Proper(p, c)
    BY <1>2, <1>4, RegularFields DEF PathInv, PathOK, PathProper, Present
  <2>2. InsertBlock(c) \in Contents /\ InsertBlock(c).text = c.text
        /\ (c.ended => InsertBlock(c).ended) /\ Proper(p, InsertBlock(c))
    BY <2>1, BlockType
  <2>3. \/ P = Replace(p, InsertBlock(c))
        \/ P = Conflict(p)
        \/ P = Update(p, InsertBlock(c)) /\ manifest[p].own \in {"created", "replaced"}
        \/ P = Keep(p) /\ Claimed(p)
        \/ P = AdoptBlock(p)
    BY <1>4 DEF PlanBlock, Present, Missing
  <2>4. manifest[p].own \in {"created", "replaced"} => Claimed(p)
    BY NoEntryType DEF Claimed
  <2>5. CASE P = Update(p, InsertBlock(c)) /\ manifest[p].own \in {"created", "replaced"}
    <3>1. Safe(p, Update(p, InsertBlock(c)))
      BY <1>1, <1>4, <2>2, <2>4, <2>5, UpdateSafe
    <3> QED
      BY <2>5, <3>1
  <2>6. CASE P = Replace(p, InsertBlock(c)) \/ P = AdoptBlock(p)
    BY <1>1, <1>4, <2>2, <2>6, ReplaceSafe, AdoptSafe
  <2>7. CASE P = Conflict(p) \/ (P = Keep(p) /\ Claimed(p))
    BY <1>1, <2>7, KeepSafe, ConflictSafe
  <2> QED
    BY <2>3, <2>5, <2>6, <2>7
<1>5. CASE ~(Present(p) /\ (Claimed(p) => Exact(p))) /\ ~(~Claimed(p) /\ Missing(p))
  <2>1. P = Conflict(p)
    BY <1>5 DEF PlanBlock
  <2> QED
    BY <1>1, <2>1, ConflictSafe
<1> QED
  BY <1>3, <1>4, <1>5

LEMMA StaleInstallSafe ==
  ASSUME release \in Releases, NEW p \in Paths, PathInv(p)
  PROVE  Safe(p, StaleInstall(p))
<1> DEFINE P == StaleInstall(p)
<1>1. CASE Exact(p) /\ manifest[p].own = "replaced"
  <2>1. P = Restore(p)
    BY <1>1 DEF StaleInstall
  <2> QED
    BY <1>1, <2>1, RestoreSafe
<1>2. CASE Exact(p) /\ manifest[p].own = "created"
  <2>1. p \in Instructions => P = WithoutBlock(p, file[p].mode)
    BY <1>2 DEF StaleInstall
  <2>2. p \notin Instructions => P = Remove(p) /\ p \in Files
    BY <1>2 DEF StaleInstall, Paths
  <2>3. Present(p) /\ file[p].mode \in Modes
    BY <1>2, RegularFields DEF PathInv, PathOK, PathTyped, Exact, Present
  <2> HIDE DEF P
  <2>4. Safe(p, P)
    BY <1>2, <2>1, <2>2, <2>3, RemoveSafe, WithoutBlockSafe
  <2> QED
    BY <2>4 DEF P
<1>3. CASE ~(Exact(p) /\ manifest[p].own \in {"created", "replaced"})
  <2>1. P = Conflict(p)
    BY <1>3 DEF StaleInstall
  <2> QED
    BY <2>1, ConflictSafe
<1> QED
  BY <1>1, <1>2, <1>3

LEMMA InstallPlanSafe ==
  ASSUME release \in Releases, NEW options, NEW p \in Paths, PathInv(p)
  PROVE  Safe(p, InstallPlan(options)[p])
<1> DEFINE P == InstallPlan(options)[p]
<1>1. CASE p \in Instructions /\ Unreadable(p)
  <2>1. P = Raise(p)
    BY <1>1, OwnershipAssumption DEF InstallPlan
  <2> QED
    BY <2>1, LeaveSafe
<1>2. CASE p \in Files \cap Selected(options)
  <2>1. P = PlanRegularSource(p)
    BY <1>2, OwnershipAssumption DEF InstallPlan
  <2> QED
    BY <1>2, <2>1, PlanRegularSourceSafe
<1>3. CASE p \in Instructions \cap Selected(options) /\ ~Unreadable(p)
  <2>1. P = PlanBlock(p)
    BY <1>3, OwnershipAssumption DEF InstallPlan
  <2> QED
    BY <1>3, <2>1, PlanBlockSafe
<1>4. CASE p \notin Selected(options) /\ ~(p \in Instructions /\ Unreadable(p))
  <2>1. P \in {StaleInstall(p), Leave(p)}
    BY <1>4 DEF InstallPlan
  <2> QED
    BY <2>1, StaleInstallSafe, LeaveSafe
<1> QED
  BY <1>1, <1>2, <1>3, <1>4 DEF Paths

LEMMA UninstallFileSafe ==
  ASSUME NEW p \in Files, PathInv(p)
  PROVE  Safe(p, UninstallFile(p))
<1>1. p \in Paths
  BY DEF Paths
<1>2. CASE Exact(p) /\ manifest[p].own = "created"
  <2>1. UninstallFile(p) = Remove(p)
    BY <1>2 DEF UninstallFile
  <2> QED
    BY <1>1, <1>2, <2>1, RemoveSafe
<1>3. CASE Exact(p) /\ manifest[p].own = "replaced"
  <2>1. UninstallFile(p) = Restore(p)
    BY <1>3 DEF UninstallFile
  <2> QED
    BY <1>1, <1>3, <2>1, RestoreSafe
<1>4. CASE ~(Exact(p) /\ manifest[p].own \in {"created", "replaced"})
  <2>1. UninstallFile(p) = Conflict(p)
    BY <1>4 DEF UninstallFile
  <2> QED
    BY <1>1, <2>1, ConflictSafe
<1> QED
  BY <1>2, <1>3, <1>4

LEMMA UninstallBlockSafe ==
  ASSUME release \in Releases, NEW p \in Instructions, PathInv(p)
  PROVE  Safe(p, UninstallBlock(p))
<1> DEFINE Ours == /\ Present(p) /\ file[p].mode = manifest[p].mode
                   /\ file[p].content.part = manifest[p].content.part
           Out == Plan(p, "remove-block",
                       File(RemoveBlock(file[p].content), manifest[p].savedMode), NoEntry)
<1>1. p \in Paths
  BY DEF Paths
<1>2. CASE Ours /\ manifest[p].own = "created"
  <2>1. UninstallBlock(p) = WithoutBlock(p, file[p].mode)
    BY <1>2 DEF UninstallBlock
  <2>2. file[p].mode \in Modes
    BY <1>2, RegularFields DEF PathInv, PathOK, PathTyped, Present
  <2> QED
    BY <1>1, <1>2, <2>1, <2>2, WithoutBlockSafe
<1>3. CASE Ours /\ manifest[p].own = "replaced"
  <2>0. <<p, manifest[p].saved>> \in kept
    BY <1>3 DEF PathInv, PathOK, PathSaved
  <2>1. \/ UninstallBlock(p) = Restore(p) /\ Exact(p)
        \/ UninstallBlock(p) = Out
    BY <1>3, <2>0 DEF UninstallBlock
  <2>2. manifest[p].savedMode \in Modes
    BY <1>3, EntryFields DEF PathInv, PathOK, PathTyped
  <2>3. Safe(p, Out)
    BY <1>1, <1>3, <2>2, BlockRemovedSafe
  <2> QED
    BY <1>1, <1>3, <2>1, <2>3, RestoreSafe
<1>4. CASE ~(Ours /\ manifest[p].own \in {"created", "replaced"})
  <2>1. UninstallBlock(p) = Conflict(p)
    BY <1>4 DEF UninstallBlock
  <2> QED
    BY <1>1, <2>1, ConflictSafe
<1> QED
  BY <1>2, <1>3, <1>4

LEMMA UninstallPlanSafe ==
  ASSUME release \in Releases, NEW p \in Paths, PathInv(p)
  PROVE  Safe(p, UninstallPlan[p])
<1>1. CASE ~Claimed(p) \/ p \in Runtime
  <2>1. UninstallPlan[p] = Leave(p)
    BY <1>1 DEF UninstallPlan
  <2> QED
    BY <2>1, LeaveSafe
<1>2. CASE Claimed(p) /\ p \notin Runtime /\ file[p].links # 1
  <2>1. UninstallPlan[p] = Conflict(p)
    BY <1>2 DEF UninstallPlan
  <2> QED
    BY <2>1, ConflictSafe
<1>3. CASE Claimed(p) /\ p \notin Runtime /\ file[p].links = 1
  <2>1. UninstallPlan[p] = IF p \in Files THEN UninstallFile(p) ELSE UninstallBlock(p)
    BY <1>3 DEF UninstallPlan
  <2> QED
    BY <2>1, UninstallFileSafe, UninstallBlockSafe DEF Paths
<1> QED
  BY <1>1, <1>2, <1>3

-----------------------------------------------------------------------------
(* The steps.                                                               *)

\* Applying a plan that is safe for every path.
LEMMA ApplyOK ==
  ASSUME IInv, NEW plan, \A p \in Paths : Safe(p, plan[p]), Apply(plan),
         UNCHANGED <<release, edits, mine>>,
         repeat' \subseteq SUBSET Optional, outcome' \in Outcomes
  PROVE  IInv'
<1>1. /\ file' = [p \in Paths |-> plan[p].after]
      /\ manifest' = [p \in Paths |-> plan[p].entry]
      /\ kept' = kept \cup Backups(plan)
  BY DEF Apply
<1>2. ASSUME NEW p \in Paths
      PROVE  PathInv(p)'
  <2>1. kept \cup BackupOf(p, plan[p]) \subseteq kept'
    BY <1>1 DEF BackupOf, Backups
  <2>2. PathOK(p, plan[p].after, plan[p].entry, mine[p], kept')
    BY <2>1, PathGrows DEF Safe
  <2> QED
    BY <1>1, <2>2 DEF PathInv
<1>3. Backups(plan) \subseteq Paths \X Contents
  <2>1. ASSUME NEW p \in Paths, plan[p].entry.own = "replaced"
        PROVE  plan[p].entry.saved \in Contents
    BY <2>1, EntryFields DEF Safe, PathOK, PathTyped
  <2> QED
    BY <2>1 DEF Backups
<1>4. Shape'
  BY <1>1, <1>3 DEF IInv, Shape
<1> QED
  BY <1>2, <1>4 DEF IInv

\* The user changes the file at a path.
LEMMA ChangeOK ==
  ASSUME IInv, NEW p \in Paths, NEW f \in FileStates,
         f.kind = "regular" => Proper(p, f.content), Change(p, f)
  PROVE  IInv'
<1> DEFINE m == mine[p]
           e == manifest[p]
           n == Remembered(p, f)
           SameBytes == Present(p) /\ f.kind = "regular" /\ f.content = file[p].content
           PutBack == f.kind = "regular" /\ f.content = e.content
                                         /\ e.own \in {"created", "replaced"}
<1>1. PathInv(p)
  BY DEF IInv
<1>2. e \in Entries /\ m \in FileStates /\ file[p] \in FileStates
  BY <1>1 DEF PathInv, PathOK, PathTyped
<1>3. PathOK(p, f, e, n, kept)
  <2>1. CASE SameBytes
    <3>1. n = m \/ (m.kind = "regular" /\ n = [m EXCEPT !.mode = f.mode])
      BY <2>1 DEF Remembered
    <3>2. f.mode \in Modes
      BY <2>1, RegularFields
    <3>3. n \in FileStates /\ n.kind = m.kind /\ n.content = m.content
      BY <1>2, <3>1, <3>2 DEF FileStates, Absent, Symlink
    <3>4. file[p].kind = "regular" /\ f.kind = "regular" /\ f.content = file[p].content
      BY <2>1 DEF Present
    <3> HIDE DEF m, e, n
    <3> QED
      BY <1>1, <1>2, <3>3, <3>4
      DEF PathInv, PathOK, PathTyped, PathProper, PathSaved, PathKept, PathCovered, m, e
  <2>2. CASE ~SameBytes /\ PutBack /\ e.own = "created"
    <3>1. n = Absent
      BY <2>2 DEF Remembered
    <3> HIDE DEF n
    <3> QED
      BY <1>1, <1>2, <3>1, OtherFiles
      DEF PathInv, PathOK, PathTyped, PathProper, PathSaved, PathKept, PathCovered
  <2>3. CASE ~SameBytes /\ PutBack /\ e.own = "replaced"
    <3>1. n = File(e.saved, e.savedMode)
      BY <2>3 DEF Remembered
    <3>2. e.saved \in Contents /\ e.savedMode \in Modes
      BY <1>2, <2>3, EntryFields
    <3>3. n \in FileStates /\ n.kind = "regular" /\ n.content = e.saved
      BY <3>1, <3>2, FileType
    <3>4. <<p, e.saved>> \in kept /\ Proper(p, e.saved)
      BY <1>1, <2>3 DEF PathInv, PathOK, PathSaved
    <3>5. Held(p, e.saved, kept)
      <4>1. <<p, e.saved>>[1] = p /\ Holds(p, <<p, e.saved>>[2], e.saved)
        BY HoldsItself
      <4> QED
        BY <3>4, <4>1 DEF Held
    <3> HIDE DEF n, e
    <3> QED
      BY <1>2, <3>3, <3>4, <3>5
      DEF PathOK, PathTyped, PathProper, PathSaved, PathKept, PathCovered
  <2>4. CASE ~SameBytes /\ ~PutBack /\ f.kind = "regular"
    <3> DEFINE c == IF p \in Files THEN f.content ELSE RemoveBlock(f.content)
    <3>1. n = File(c, f.mode)
      BY <2>4 DEF Remembered
    <3>2. f.content \in Contents /\ f.mode \in Modes
      BY <2>4, RegularFields
    <3>3. c \in Contents /\ Proper(p, c) /\ Holds(p, f.content, c)
      <4>1. CASE p \in Files
        BY <2>4, <3>2, <4>1, HoldsItself
      <4>2. CASE p \notin Files
        <5>1. p \in Instructions /\ release \in Releases
          BY <4>2 DEF Paths, IInv, Shape
        <5>2. RemoveBlock(f.content) \in Contents
              /\ RemoveBlock(f.content).text = f.content.text
              /\ RemoveBlock(f.content).ended = f.content.ended
              /\ Proper(p, RemoveBlock(f.content))
          BY <2>4, <3>2, <5>1, BlockType
        <5> QED
          BY <4>2, <5>2 DEF Holds
      <4> QED
        BY <4>1, <4>2
    <3>4. n \in FileStates /\ n.kind = "regular" /\ n.content = c
      BY <3>1, <3>2, <3>3, FileType
    <3>5. ~(f.content = e.content /\ Covers(p, e))
      BY <2>4 DEF Covers
    <3>6. PathSaved(p, e, kept)
      BY <1>1 DEF PathInv, PathOK
    <3> HIDE DEF n, e, c
    <3> QED
      BY <1>2, <2>4, <3>3, <3>4, <3>5, <3>6
      DEF PathOK, PathTyped, PathProper, PathKept, PathCovered
  <2>5. CASE f.kind # "regular"
    <3>1. n = f
      BY <2>5 DEF Remembered
    <3> HIDE DEF n
    <3> QED
      BY <1>1, <1>2, <2>5, <3>1
      DEF PathInv, PathOK, PathTyped, PathProper, PathSaved, PathKept, PathCovered
  <2> QED
    BY <2>1, <2>2, <2>3, <2>4, <2>5
<1>4. /\ edits < MaxEdits /\ edits' = edits + 1
      /\ file' = [file EXCEPT ![p] = f] /\ mine' = [mine EXCEPT ![p] = n]
      /\ repeat' = {} /\ outcome' = "none" /\ UNCHANGED <<manifest, kept, release>>
  BY DEF Change
<1> HIDE DEF n
<1>5. ASSUME NEW q \in Paths
      PROVE  PathInv(q)'
  <2>1. CASE q = p
    <3>1. file'[p] = f /\ mine'[p] = n
      BY <1>4 DEF IInv, Shape
    <3> QED
      BY <1>3, <1>4, <2>1, <3>1 DEF PathInv
  <2>2. CASE q # p
    <3>1. file'[q] = file[q] /\ mine'[q] = mine[q]
      BY <1>4, <2>2 DEF IInv, Shape
    <3> QED
      BY <1>4, <3>1 DEF IInv, PathInv
  <2> QED
    BY <2>1, <2>2
<1>6. Shape'
  <2>1. file' = [q \in Paths |-> file'[q]] /\ mine' = [q \in Paths |-> mine'[q]]
    BY <1>4 DEF IInv, Shape
  <2>2. edits' \in 0..MaxEdits
    BY <1>4, OwnershipAssumption DEF IInv, Shape
  <2>3. outcome' \in Outcomes /\ repeat' \subseteq SUBSET Optional
    BY <1>4 DEF Outcomes
  <2> QED
    BY <1>4, <2>1, <2>2, <2>3 DEF IInv, Shape
<1> QED
  BY <1>5, <1>6 DEF IInv

LEMMA WritingsType ==
  ASSUME NEW p \in Paths, NEW c \in Writings(p)
  PROVE  c \in Contents /\ Proper(p, c)
<1>1. CASE p \in Files
  <2>1. CASE c \in {Content(t, TRUE, Nothing) : t \in Texts}
    <3>1. PICK t \in Texts : c = Content(t, TRUE, Nothing)
      BY <2>1
    <3>2. t \in Texts \cup {NoText} /\ t # NoText /\ Nothing \in Parts
      BY OwnershipAssumption DEF Parts
    <3>3. c \in Contents /\ c.text = t
      BY <3>1, <3>2, ContentType
    <3> QED
      BY <3>2, <3>3 DEF Proper
  <2>2. CASE c \in {Content(NoText, FALSE, r) : r \in Releases}
    <3>1. PICK r \in Releases : c = Content(NoText, FALSE, r)
      BY <2>2
    <3>2. r \in Parts
      BY DEF Parts
    <3>3. r # Nothing
      BY OwnershipAssumption DEF Releases, Nothing
    <3>4. c \in Contents /\ c.ended = FALSE /\ c.part = r
      BY <3>1, <3>2, ContentType
    <3> QED
      BY <3>3, <3>4 DEF Proper
  <2> QED
    BY <1>1, <2>1, <2>2 DEF Writings
<1>2. CASE p \notin Files
  BY <1>2 DEF Writings, Proper
<1> QED
  BY <1>1, <1>2

LEMMA UserChanges ==
  ASSUME IInv, NEW p \in Paths, Write(p) \/ Chmod(p) \/ Delete(p) \/ HardLink(p) \/ LinkAway(p)
  PROVE  \E f \in FileStates : (f.kind = "regular" => Proper(p, f.content)) /\ Change(p, f)
<1>1. file[p] \in FileStates /\ (Present(p) => Proper(p, file[p].content))
  BY DEF IInv, PathInv, PathOK, PathTyped, PathProper, Present
<1>2. CASE Write(p)
  <2>1. PICK c \in Writings(p), x \in Modes :
          Change(p, IF Present(p) THEN [file[p] EXCEPT !.content = c] ELSE File(c, x))
    BY <1>2 DEF Write
  <2>2. c \in Contents /\ Proper(p, c)
    BY WritingsType
  <2>3. CASE Present(p)
    <3> DEFINE f == [file[p] EXCEPT !.content = c]
    <3>1. f \in FileStates /\ f.content = c
      BY <1>1, <2>2, <2>3 DEF Present, FileStates, Absent, Symlink
    <3>2. Change(p, f)
      BY <2>1, <2>3
    <3> HIDE DEF f
    <3> QED
      BY <2>2, <3>1, <3>2
  <2>4. CASE ~Present(p)
    <3>1. Change(p, File(c, x))
      BY <2>1, <2>4
    <3> QED
      BY <2>2, <3>1, FileType
  <2> QED
    BY <2>3, <2>4
<1>3. CASE Chmod(p)
  <2>1. PICK x \in Modes : Present(p) /\ Change(p, [file[p] EXCEPT !.mode = x])
    BY <1>3 DEF Chmod
  <2> DEFINE f == [file[p] EXCEPT !.mode = x]
  <2>2. f \in FileStates /\ f.content = file[p].content
    BY <1>1, <2>1 DEF Present, FileStates, Absent, Symlink
  <2>3. Change(p, f)
    BY <2>1
  <2> HIDE DEF f
  <2> QED
    BY <1>1, <2>1, <2>2, <2>3
<1>4. CASE HardLink(p)
  <2> DEFINE f == [file[p] EXCEPT !.links = 2]
  <2>1. Present(p) /\ Change(p, f)
    BY <1>4 DEF HardLink
  <2>2. f \in FileStates /\ f.content = file[p].content
    BY <1>1, <2>1 DEF Present, FileStates, Absent, Symlink
  <2> HIDE DEF f
  <2> QED
    BY <1>1, <2>1, <2>2
<1>5. CASE Delete(p)
  BY <1>5, OtherFiles DEF Delete
<1>6. CASE LinkAway(p)
  BY <1>6, OtherFiles DEF LinkAway
<1> QED
  BY <1>2, <1>3, <1>4, <1>5, <1>6

LEMMA UserOK ==
  ASSUME IInv, NEW p \in Paths, Write(p) \/ Chmod(p) \/ Delete(p) \/ HardLink(p) \/ LinkAway(p)
  PROVE  IInv'
  BY UserChanges, ChangeOK

LEMMA InstallOK ==
  ASSUME IInv, NEW options \in SUBSET Optional, Install(options)
  PROVE  IInv'
<1> DEFINE plan == InstallPlan(options)
<1>1. Exit(plan) \in Outcomes
  BY DEF Exit, Outcomes
<1>2. CASE Exit(plan) = "success" /\ Apply(plan) /\ End(Exit(plan), {options})
  <2>1. \A p \in Paths : Safe(p, plan[p])
    BY InstallPlanSafe DEF IInv, Shape
  <2>2. UNCHANGED <<release, edits, mine>> /\ outcome' \in Outcomes
        /\ repeat' \subseteq SUBSET Optional
    BY <1>1, <1>2 DEF End
  <2> HIDE DEF plan
  <2> QED
    BY <1>2, <2>1, <2>2, ApplyOK
<1>3. CASE Exit(plan) # "success" /\ End(Exit(plan), repeat) /\ UNCHANGED <<file, manifest, kept>>
  <2>1. UNCHANGED <<file, manifest, kept, release, edits, mine, repeat>>
        /\ outcome' \in Outcomes
    BY <1>1, <1>3 DEF End
  <2> QED
    BY <2>1 DEF IInv, Shape, PathInv
<1> QED
  BY <1>2, <1>3 DEF Install

LEMMA UninstallOK == ASSUME IInv, Uninstall PROVE IInv'
<1>1. \A p \in Paths : Safe(p, UninstallPlan[p])
  BY UninstallPlanSafe DEF IInv, Shape
<1>2. /\ Apply(UninstallPlan) /\ UNCHANGED <<release, edits, mine>>
      /\ outcome' \in Outcomes /\ repeat' \subseteq SUBSET Optional
  BY DEF Uninstall, End, Outcomes
<1> QED
  BY <1>1, <1>2, ApplyOK

LEMMA UpgradeOK == ASSUME IInv, Upgrade PROVE IInv'
<1>1. release' \in Releases
  BY OwnershipAssumption DEF Upgrade, IInv, Shape, Releases
<1>2. UNCHANGED <<file, manifest, kept, edits, mine>>
      /\ outcome' \in Outcomes /\ repeat' \subseteq SUBSET Optional
  BY DEF Upgrade, Outcomes
<1> QED
  BY <1>1, <1>2 DEF IInv, Shape, PathInv

LEMMA InitOK == Init => IInv
<1> SUFFICES ASSUME Init PROVE IInv
  OBVIOUS
<1>1. Shape
  BY OwnershipAssumption DEF Init, Shape, Releases, Outcomes
<1>2. ASSUME NEW p \in Paths PROVE PathInv(p)
  <2>1. file[p] = Absent /\ manifest[p] = NoEntry /\ mine[p] = Absent
    BY <1>2 DEF Init
  <2> QED
    BY <2>1, OtherFiles, NoEntryType
    DEF PathInv, PathOK, PathTyped, PathProper, PathSaved, PathKept, PathCovered
<1> QED
  BY <1>1, <1>2 DEF IInv

LEMMA StepOK == IInv /\ [Next]_vars => IInv'
<1> SUFFICES ASSUME IInv, [Next]_vars PROVE IInv'
  OBVIOUS
<1>1. CASE \E options \in SUBSET Optional : Install(options)
  BY <1>1, InstallOK
<1>2. CASE Uninstall
  BY <1>2, UninstallOK
<1>3. CASE Upgrade
  BY <1>3, UpgradeOK
<1>4. CASE \E p \in Paths : Write(p) \/ Chmod(p) \/ Delete(p) \/ HardLink(p) \/ LinkAway(p)
  BY <1>4, UserOK
<1>5. CASE UNCHANGED vars
  BY <1>5 DEF vars, IInv, Shape, PathInv
<1> QED
  BY <1>1, <1>2, <1>3, <1>4, <1>5 DEF Next

-----------------------------------------------------------------------------
(* Theorems.                                                                *)

\* The inductive invariant holds in every state any sequence of commands,
\* releases and edits reaches.
THEOREM OwnershipInvariant == Spec => []IInv
  BY InitOK, StepOK, PTL DEF Spec

\* Files, entries of the manifest, backups and what the user had have their types.
THEOREM OwnershipTyped == Spec => []TypeOK
<1>1. IInv => TypeOK
  <2> SUFFICES ASSUME IInv PROVE TypeOK
    OBVIOUS
  <2>1. \A p \in Paths : file[p] \in FileStates /\ manifest[p] \in Entries
                          /\ mine[p] \in FileStates
    BY DEF IInv, PathInv, PathOK, PathTyped
  <2> QED
    BY <2>1 DEF IInv, Shape, TypeOK
<1> QED
  BY <1>1, OwnershipInvariant, PTL

\* No sequence of installs, uninstalls, releases and edits loses what the user
\* last had at a path: it is there or in a permanent backup, and a link of his
\* is not followed (the planner and _ensure_permanent_backup).
THEOREM NothingIsLost == Spec => []NothingLost
<1>1. IInv => NothingLost
  BY DEF IInv, PathInv, PathOK, PathKept, NothingLost, Held
<1> QED
  BY <1>1, OwnershipInvariant, PTL

-----------------------------------------------------------------------------
(* What a plan says of a path, case by case.                                *)

\* What is installed at p: a source, or the text with the block.
New(p) == IF p \in Files THEN Source(p) ELSE InsertBlock(file[p].content)

\* What the release installs is there.
Current(p) == /\ file[p].content.part = release
              /\ p \in Files => file[p].content = Source(p)

\* A copy of the source that nobody recorded.
Adopted(p, plan) ==
  /\ plan.op = "none" /\ plan.after = file[p] /\ ~plan.conflict
  /\ plan.entry \in Entries /\ plan.entry.own = "preexisting" /\ ~plan.entry.unresolved
  /\ plan.entry.content = file[p].content /\ plan.entry.mode = file[p].mode
Brought(p, plan) ==
  \/ ~Claimed(p) /\ Missing(p) /\ plan = Create(p, New(p))
  \/ /\ Present(p) /\ (p \in Instructions => ~HasBlock(file[p].content))
     /\ Claimed(p) => Exact(p) /\ p \in Instructions
     /\ plan = Replace(p, New(p))
  \/ /\ Exact(p) /\ manifest[p].own \in {"created", "replaced"}
     /\ plan = Update(p, New(p))
  \/ /\ Claimed(p) /\ Exact(p) /\ Current(p)
     /\ plan = Keep(p)
  \/ /\ ~Claimed(p) /\ Present(p) /\ file[p].mode = "private"
     /\ Current(p) /\ Adopted(p, plan)
\* The file goes, comes back, or loses its block.
Taken(p, plan) ==
  \/ p \in Files /\ Exact(p) /\ manifest[p].own = "created" /\ plan = Remove(p)
  \/ /\ Exact(p) /\ manifest[p].own = "replaced"
     /\ plan = Plan(p, "restore", File(manifest[p].saved, manifest[p].savedMode), NoEntry)
  \/ /\ p \in Instructions /\ Present(p) /\ manifest[p].own = "created"
     /\ file[p].content.part = manifest[p].content.part
     /\ plan = WithoutBlock(p, file[p].mode)
  \/ /\ p \in Instructions /\ Present(p) /\ manifest[p].own = "replaced"
     /\ plan = Plan(p, "remove-block",
                    File(RemoveBlock(file[p].content), manifest[p].savedMode), NoEntry)

LEMMA RestoreIs ==
  ASSUME NEW p \in Paths, PathInv(p), manifest[p].own = "replaced"
  PROVE  Restore(p) = Plan(p, "restore", File(manifest[p].saved, manifest[p].savedMode), NoEntry)
  BY DEF Restore, PathInv, PathOK, PathSaved

LEMMA AdoptedIs ==
  ASSUME NEW p \in Paths, PathInv(p), Present(p)
  PROVE  Adopted(p, Adopt(p)) /\ Adopted(p, AdoptBlock(p))
<1> DEFINE e == Entry(file[p].content, file[p].mode, "preexisting", Blank, "none")
<1>1. file[p].content \in Contents /\ file[p].mode \in Modes
  BY RegularFields DEF PathInv, PathOK, PathTyped, Present
<1>2. e \in Entries /\ [e EXCEPT !.savedMode = file[p].mode] \in Entries
  BY <1>1, NewEntry
<1> QED
  BY <1>2 DEF Adopted, Adopt, AdoptBlock, Plan, Entry

LEMMA InstallDecides ==
  ASSUME release \in Releases, NEW options, NEW p \in Paths, PathInv(p)
  PROVE  LET P == InstallPlan(options)[p]
         IN \/ P = Raise(p) \/ P = Conflict(p)
            \/ p \in Selected(options) /\ Brought(p, P)
            \/ /\ p \notin Selected(options) /\ ~Claimed(p) /\ P = Leave(p)
               /\ p \in Instructions => ~Unreadable(p)
            \/ p \notin Selected(options) /\ Taken(p, P)
<1> DEFINE P == InstallPlan(options)[p]
<1>0. Missing(p) \/ Unsafe(p) \/ Present(p)
  BY Kinds DEF PathInv, PathOK, PathTyped, Missing, Unsafe, Present
<1>1. CASE p \in Instructions /\ Unreadable(p)
  BY <1>1, OwnershipAssumption DEF InstallPlan
<1>2. CASE p \in Files \cap Selected(options)
  <2> DEFINE R == PlanRegularSource(p)
  <2>1. P = R /\ New(p) = Source(p) /\ p \notin Instructions
    BY <1>2, OwnershipAssumption DEF InstallPlan, New
  <2>2. CASE ~Claimed(p) /\ Missing(p)
    <3>1. R = Create(p, Source(p))
      BY <2>2 DEF PlanRegularSource, Missing, Unsafe, Present
    <3> QED
      BY <1>2, <2>1, <2>2, <3>1 DEF Brought
  <2>3. CASE ~Claimed(p) /\ Unsafe(p)
    <3>1. R = Raise(p)
      BY <2>3 DEF PlanRegularSource, Unsafe, Missing, Present
    <3> QED
      BY <2>1, <3>1
  <2>4. CASE ~Claimed(p) /\ Present(p)
    <3>1. \/ R = Replace(p, Source(p))
          \/ R = Adopt(p) /\ file[p].content = Source(p) /\ file[p].mode = "private"
          \/ R = Conflict(p)
      BY <2>4 DEF PlanRegularSource, Unsafe, Missing, Present
    <3>2. Source(p).part = release
      BY DEF Source, Content
    <3> QED
      BY <1>2, <2>1, <2>4, <3>1, <3>2, AdoptedIs DEF Brought, Current
  <2>5. CASE Claimed(p) /\ ~Exact(p)
    <3>1. R = Conflict(p)
      BY <2>5 DEF PlanRegularSource
    <3> QED
      BY <2>1, <3>1
  <2>6. CASE Claimed(p) /\ Exact(p)
    <3>1. \/ R = Keep(p) /\ file[p].content = Source(p)
          \/ R = Conflict(p)
          \/ R = Update(p, Source(p)) /\ manifest[p].own # "preexisting"
      BY <2>6 DEF PlanRegularSource
    <3>2. manifest[p].own \in {"created", "preexisting", "replaced"}
      BY <2>6, OwnOfClaimed
    <3>3. Source(p).part = release
      BY DEF Source, Content
    <3> QED
      BY <1>2, <2>1, <2>6, <3>1, <3>2, <3>3 DEF Brought, Current
  <2> QED
    BY <1>0, <2>2, <2>3, <2>4, <2>5, <2>6
<1>3. CASE p \in Instructions \cap Selected(options) /\ ~Unreadable(p)
  <2> DEFINE B == PlanBlock(p)
             c == file[p].content
  <2>1. P = B /\ New(p) = InsertBlock(c)
    BY <1>3, OwnershipAssumption DEF InstallPlan, New
  <2>2. CASE ~Claimed(p) /\ Missing(p)
    <3>1. B = Create(p, InsertBlock(c))
      BY <2>2 DEF PlanBlock, Missing, Present
    <3> QED
      BY <1>3, <2>1, <2>2, <3>1 DEF Brought
  <2>3. CASE Present(p) /\ (Claimed(p) => Exact(p))
    <3>1. \/ B = Replace(p, InsertBlock(c)) /\ ~HasBlock(c)
          \/ B = Conflict(p)
          \/ B = Update(p, InsertBlock(c)) /\ manifest[p].own \in {"created", "replaced"}
          \/ B = Keep(p) /\ Claimed(p) /\ c.part = release
          \/ B = AdoptBlock(p) /\ ~Claimed(p) /\ c.part = release /\ file[p].mode = "private"
      BY <2>3 DEF PlanBlock, Present, Missing
    <3>2. manifest[p].own \in {"created", "replaced"} => Claimed(p)
      BY NoEntryType DEF Claimed
    <3> HIDE DEF B, c
    <3> QED
      BY <1>3, <2>1, <2>3, <3>1, <3>2, AdoptedIs, OwnershipAssumption DEF Brought, Current, c
  <2>4. CASE ~(Present(p) /\ (Claimed(p) => Exact(p))) /\ ~(~Claimed(p) /\ Missing(p))
    <3>1. B = Conflict(p)
      BY <2>4 DEF PlanBlock
    <3> QED
      BY <2>1, <3>1
  <2> QED
    BY <2>2, <2>3, <2>4
<1>4. CASE p \notin Selected(options) /\ ~(p \in Instructions /\ Unreadable(p))
  <2>1. P = IF Claimed(p) THEN StaleInstall(p) ELSE Leave(p)
    BY <1>4 DEF InstallPlan
  <2>2. CASE Exact(p) /\ manifest[p].own = "replaced"
    <3>1. StaleInstall(p) = Restore(p)
      BY <2>2 DEF StaleInstall
    <3>2. Claimed(p)
      BY <2>2, NoEntryType DEF Claimed
    <3> QED
      BY <1>4, <2>1, <2>2, <3>1, <3>2, RestoreIs DEF Taken
  <2>3. CASE Exact(p) /\ manifest[p].own = "created"
    <3>1. StaleInstall(p) = IF p \in Instructions THEN WithoutBlock(p, file[p].mode) ELSE Remove(p)
      BY <2>3 DEF StaleInstall
    <3>2. Claimed(p)
      BY <2>3, NoEntryType DEF Claimed
    <3> QED
      BY <1>4, <2>1, <2>3, <3>1, <3>2 DEF Taken, Exact, Paths
  <2>4. CASE ~(Exact(p) /\ manifest[p].own \in {"created", "replaced"})
    <3>1. StaleInstall(p) = Conflict(p)
      BY <2>4 DEF StaleInstall
    <3> QED
      BY <1>4, <2>1, <3>1
  <2> QED
    BY <2>2, <2>3, <2>4
<1> QED
  BY <1>1, <1>2, <1>3, <1>4 DEF Paths

LEMMA UninstallDecides ==
  ASSUME release \in Releases, NEW p \in Paths, PathInv(p)
  PROVE  LET P == UninstallPlan[p]
         IN \/ P = Leave(p) /\ (~Claimed(p) \/ p \in Runtime)
            \/ P = Conflict(p) /\ Claimed(p) /\ p \notin Runtime
            \/ Taken(p, P) /\ p \notin Runtime
<1> DEFINE P == UninstallPlan[p]
<1>1. CASE ~Claimed(p) \/ p \in Runtime
  BY <1>1 DEF UninstallPlan
<1>2. CASE Claimed(p) /\ p \notin Runtime /\ file[p].links # 1
  BY <1>2 DEF UninstallPlan
<1>3. CASE Claimed(p) /\ p \notin Runtime /\ file[p].links = 1 /\ p \in Files
  <2>1. P = UninstallFile(p)
    BY <1>3 DEF UninstallPlan
  <2>2. \/ Exact(p) /\ manifest[p].own = "created" /\ UninstallFile(p) = Remove(p)
        \/ Exact(p) /\ manifest[p].own = "replaced" /\ UninstallFile(p) = Restore(p)
        \/ UninstallFile(p) = Conflict(p)
    BY DEF UninstallFile
  <2> QED
    BY <1>3, <2>1, <2>2, RestoreIs DEF Taken
<1>4. CASE Claimed(p) /\ p \notin Runtime /\ file[p].links = 1 /\ p \notin Files
  <2> DEFINE Ours == /\ Present(p) /\ file[p].mode = manifest[p].mode
                     /\ file[p].content.part = manifest[p].content.part
             Out == Plan(p, "remove-block",
                         File(RemoveBlock(file[p].content), manifest[p].savedMode), NoEntry)
  <2>1. P = UninstallBlock(p) /\ p \in Instructions
    BY <1>4 DEF UninstallPlan, Paths
  <2>0. manifest[p].own = "replaced" => <<p, manifest[p].saved>> \in kept
    BY DEF PathInv, PathOK, PathSaved
  <2>2. \/ Ours /\ manifest[p].own = "created" /\ UninstallBlock(p) = WithoutBlock(p, file[p].mode)
        \/ Ours /\ manifest[p].own = "replaced" /\ Exact(p) /\ UninstallBlock(p) = Restore(p)
        \/ Ours /\ manifest[p].own = "replaced" /\ UninstallBlock(p) = Out
        \/ UninstallBlock(p) = Conflict(p)
    BY <2>0 DEF UninstallBlock
  <2> QED
    BY <1>4, <2>1, <2>2, RestoreIs DEF Taken
<1> QED
  BY <1>1, <1>2, <1>3, <1>4

-----------------------------------------------------------------------------
(* What the manifest records.                                               *)

\* What is installed is private; an entry of an instruction file records a block,
\* and what stood there before it without one.
EntryTidy(p, e) == e.own # "nobody" =>
  /\ e.mode = "private"
  /\ p \in Instructions =>
       /\ e.content.part \in Releases
       /\ e.own = "created" => e.content.text = NoText /\ ~e.content.ended
       /\ e.own = "replaced" => e.saved.part = Nothing /\ Holds(p, e.content, e.saved)

\* What the manifest does not claim is as the user has it, and what is as the
\* manifest has it stands for what it says of before.
PathGiven(p, f, e, m) ==
  /\ e.own = "nobody" => /\ m.kind = f.kind
                         /\ p \in Files => m.content = f.content /\ m.mode = f.mode
  /\ f.kind = "regular" /\ f.content = e.content =>
       /\ e.own = "created" => m.kind = "absent"
       /\ e.own = "replaced" =>
            /\ m.kind = "regular" /\ Holds(p, e.saved, m.content)
            /\ p \in Files => m.content = e.saved /\ m.mode = e.savedMode
  /\ p \in Instructions /\ f.kind = "regular" =>
       \/ m.kind = "regular" /\ Holds(p, f.content, m.content)
       \/ m.kind = "absent" /\ e.own = "created" /\ f.content.text = NoText
PathRecorded(p, f, e, m) == EntryTidy(p, e) /\ (p \notin Runtime => PathGiven(p, f, e, m))
Recorded == \A p \in Paths : PathRecorded(p, file[p], manifest[p], mine[p])

\* A plan leaves a path recorded.
Records(p, plan) == PathRecorded(p, plan.after, plan.entry, mine[p])

\* The fields of one path that the cases below use.
LEMMA PathFields ==
  ASSUME NEW p \in Paths, PathInv(p)
  PROVE  /\ file[p] \in FileStates /\ manifest[p] \in Entries /\ mine[p] \in FileStates
         /\ file[p].kind = "regular" => /\ Proper(p, file[p].content)
                                        /\ file[p].content \in Contents
         /\ mine[p].kind = "regular" => Proper(p, mine[p].content)
         /\ mine[p].kind \in {"absent", "link"} =>
              mine[p].content = Blank /\ mine[p].mode \in {"none"}
         /\ file[p].kind \in {"absent", "link"} =>
              file[p].content = Blank /\ file[p].mode \in {"none"}
<1>1. file[p] \in FileStates /\ manifest[p] \in Entries /\ mine[p] \in FileStates
  BY DEF PathInv, PathOK, PathTyped
<1>2. /\ file[p].kind = "regular" => Proper(p, file[p].content)
      /\ mine[p].kind = "regular" => Proper(p, mine[p].content)
  BY DEF PathInv, PathOK, PathProper
<1>3. \A f \in FileStates : f.kind \in {"absent", "link"} => f.content = Blank /\ f.mode = "none"
  BY Kinds DEF Absent, Symlink
<1> QED
  BY <1>1, <1>2, <1>3, RegularFields

LEMMA KeepRecords ==
  ASSUME NEW p \in Paths, PathInv(p), PathRecorded(p, file[p], manifest[p], mine[p])
  PROVE  /\ Claimed(p) => Records(p, Keep(p))
         /\ Records(p, Conflict(p))
         /\ (~Claimed(p) \/ p \in Runtime) => Records(p, Leave(p))
<1>1. ASSUME NEW u \in BOOLEAN, Claimed(p), NEW plan, plan.after = file[p],
             plan.entry = [manifest[p] EXCEPT !.unresolved = u]
      PROVE  Records(p, plan)
  <2> DEFINE e == [manifest[p] EXCEPT !.unresolved = u]
  <2>1. /\ e.own = manifest[p].own /\ e.content = manifest[p].content
        /\ e.mode = manifest[p].mode /\ e.saved = manifest[p].saved
        /\ e.savedMode = manifest[p].savedMode
    BY <1>1 DEF PathInv, PathOK, PathTyped, Entries, NoEntry, Entry
  <2>2. plan.entry = e
    BY <1>1
  <2> HIDE DEF e
  <2> QED
    BY <1>1, <2>1, <2>2 DEF Records, PathRecorded, EntryTidy, PathGiven
<1>2. ASSUME NEW plan, plan.after = file[p], plan.entry = NoEntry, ~Claimed(p) \/ p \in Runtime
      PROVE  Records(p, plan)
  <2>1. Claimed(p) \/ manifest[p] = NoEntry
    BY DEF Claimed
  <2> QED
    BY <1>2, <2>1, NoEntryType DEF Records, PathRecorded, EntryTidy
<1>3. Claimed(p) => Keep(p).after = file[p]
      /\ Keep(p).entry = [manifest[p] EXCEPT !.unresolved = FALSE]
  BY DEF Keep, Plan
<1>4. Conflict(p).after = file[p]
      /\ Conflict(p).entry = IF Claimed(p) THEN [manifest[p] EXCEPT !.unresolved = TRUE] ELSE NoEntry
  BY DEF Conflict, Leave, Plan
<1>5. Leave(p).after = file[p] /\ Leave(p).entry = NoEntry
  BY DEF Leave, Plan
<1> QED
  BY <1>1, <1>2, <1>3, <1>4, <1>5

LEMMA EntryIs ==
  ASSUME NEW c, NEW x, NEW o, NEW s, NEW y
  PROVE  LET e == Entry(c, x, o, s, y)
         IN /\ e.own = o /\ e.content = c /\ e.mode = x /\ e.saved = s /\ e.savedMode = y
            /\ ~e.unresolved
  BY DEF Entry

LEMMA FileIs ==
  ASSUME NEW c, NEW x
  PROVE  File(c, x).kind = "regular" /\ File(c, x).content = c /\ File(c, x).mode = x
         /\ File(c, x).links = 1
  BY DEF File

\* The new content of an instruction file has the text of the old and the block.
LEMMA NewType ==
  ASSUME release \in Releases, NEW p \in Paths, PathInv(p)
  PROVE  /\ New(p).part = release
         /\ p \in Instructions /\ (Missing(p) \/ Present(p)) =>
              /\ New(p).text = file[p].content.text
              /\ file[p].content.ended => New(p).ended
              /\ New(p).text = NoText /\ ~file[p].content.ended => ~New(p).ended
<1>1. New(p).part = release
  BY DEF New, Source, InsertBlock, Content
<1>2. ASSUME p \in Instructions
      PROVE  /\ New(p).text = file[p].content.text
             /\ New(p).ended = (file[p].content.ended
                                  \/ (file[p].content.text # NoText /\ ~HasBlock(file[p].content)))
  BY <1>2, OwnershipAssumption DEF New, InsertBlock, Content
<1> QED
  BY <1>1, <1>2

LEMMA BroughtRecords ==
  ASSUME release \in Releases, NEW p \in Paths, PathInv(p),
         PathRecorded(p, file[p], manifest[p], mine[p]), NEW plan, Brought(p, plan)
  PROVE  Records(p, plan)
<1> DEFINE f == file[p]
           e == manifest[p]
           m == mine[p]
<1>0. /\ Claimed(p) <=> e.own # "nobody"
      /\ Files \cap Instructions = {} /\ Runtime \subseteq Files
      /\ New(p).part = release
  BY OwnershipAssumption, EntryFields, NewType DEF Claimed, PathInv, PathOK, PathTyped
<1>1. CASE ~Claimed(p) /\ Missing(p) /\ plan = Create(p, New(p))
  <2>1. /\ plan.after = File(New(p), "private")
        /\ plan.entry = Entry(New(p), "private", "created", Blank, "none")
    BY <1>1, Zenon DEF Create, Plan
  <2>2. p \notin Runtime => m.kind = "absent"
    BY <1>0, <1>1 DEF PathRecorded, PathGiven, Missing
  <2>3. p \in Instructions => New(p).text = NoText /\ ~New(p).ended
    BY <1>1, NewType, PathFields, OtherFiles DEF Missing
  <2> QED
    BY <1>0, <2>1, <2>2, <2>3, EntryIs, FileIs
    DEF Records, PathRecorded, EntryTidy, PathGiven
<1>2. CASE /\ Present(p) /\ (p \in Instructions => ~HasBlock(f.content))
           /\ Claimed(p) => Exact(p) /\ p \in Instructions
           /\ plan = Replace(p, New(p))
  <2>1. /\ plan.after = File(New(p), "private")
        /\ plan.entry = Entry(New(p), "private", "replaced", f.content, f.mode)
    BY <1>2, Zenon DEF Replace, Plan
  <2>2. ~Claimed(p)
    <3> SUFFICES ASSUME Claimed(p) PROVE FALSE
      OBVIOUS
    <3>1. e.content.part \in Releases /\ f.content = e.content
      BY <1>0, <1>2 DEF PathRecorded, EntryTidy, Exact
    <3> QED
      BY <1>2, <3>1 DEF HasBlock, Nothing, Releases
  <2>3. p \in Instructions => /\ Holds(p, New(p), f.content) /\ f.content.part = Nothing
                              /\ \A c : Holds(p, f.content, c) => Holds(p, New(p), c)
    BY <1>0, <1>2, NewType DEF Holds, HasBlock
  <2>4. p \notin Runtime => /\ m.kind = "regular" /\ Holds(p, f.content, m.content)
                            /\ p \in Files => m.content = f.content /\ m.mode = f.mode
    BY <1>0, <1>2, <2>2, HoldsItself DEF PathRecorded, PathGiven, Present, Paths
  <2> QED
    BY <1>0, <2>1, <2>3, <2>4, EntryIs, FileIs
    DEF Records, PathRecorded, EntryTidy, PathGiven
<1>3. CASE /\ Exact(p) /\ e.own \in {"created", "replaced"}
           /\ plan = Update(p, New(p))
  <2> DEFINE g == [e EXCEPT !.content = New(p), !.mode = "private", !.unresolved = FALSE]
  <2>1. plan.after = File(New(p), "private") /\ plan.entry = g
    BY <1>3, Zenon DEF Update, Plan
  <2>2. /\ g.own = e.own /\ g.content = New(p) /\ g.mode = "private"
        /\ g.saved = e.saved /\ g.savedMode = e.savedMode
    BY DEF PathInv, PathOK, PathTyped, Entries, NoEntry, Entry
  <2>3. f.kind = "regular" /\ f.content = e.content
    BY <1>3 DEF Exact, Present
  <2>4. p \in Instructions =>
          /\ \A c : Holds(p, f.content, c) => Holds(p, New(p), c)
          /\ e.own = "created" => New(p).text = NoText /\ ~New(p).ended
          /\ e.own = "replaced" => e.saved.part = Nothing /\ Holds(p, New(p), e.saved)
    <3> SUFFICES ASSUME p \in Instructions
                 PROVE  /\ \A c : Holds(p, f.content, c) => Holds(p, New(p), c)
                        /\ e.own = "created" => New(p).text = NoText /\ ~New(p).ended
                        /\ e.own = "replaced" => e.saved.part = Nothing /\ Holds(p, New(p), e.saved)
      OBVIOUS
    <3>1. /\ New(p).text = f.content.text /\ (f.content.ended => New(p).ended)
          /\ New(p).text = NoText /\ ~f.content.ended => ~New(p).ended
      BY <2>3, NewType DEF Present
    <3>2. p \notin Files
      BY <1>0
    <3>3. /\ e.own = "created" => f.content.text = NoText /\ ~f.content.ended
          /\ e.own = "replaced" => e.saved.part = Nothing /\ Holds(p, f.content, e.saved)
      BY <1>3, <2>3 DEF PathRecorded, EntryTidy
    <3> QED
      BY <3>1, <3>2, <3>3 DEF Holds
  <2> HIDE DEF g
  <2>5. EntryTidy(p, g)
    BY <1>0, <2>2, <2>4 DEF EntryTidy
  <2>6. p \notin Runtime => PathGiven(p, File(New(p), "private"), g, m)
    <3> SUFFICES ASSUME p \notin Runtime
                 PROVE  PathGiven(p, File(New(p), "private"), g, m)
      OBVIOUS
    <3>1. PathGiven(p, f, e, m)
      BY DEF PathRecorded
    <3>2. /\ e.own = "created" => m.kind = "absent"
          /\ e.own = "replaced" =>
               /\ m.kind = "regular" /\ Holds(p, e.saved, m.content)
               /\ p \in Files => m.content = e.saved /\ m.mode = e.savedMode
      BY <2>3, <3>1 DEF PathGiven
    <3>3. p \in Instructions =>
            \/ m.kind = "regular" /\ Holds(p, f.content, m.content)
            \/ m.kind = "absent" /\ e.own = "created" /\ f.content.text = NoText
      BY <2>3, <3>1 DEF PathGiven
    <3> QED
      BY <1>3, <2>2, <2>4, <3>2, <3>3, FileIs DEF PathGiven
  <2> QED
    BY <2>1, <2>5, <2>6 DEF Records, PathRecorded
<1>4. CASE Claimed(p) /\ plan = Keep(p)
  BY <1>4, KeepRecords
<1>5. CASE /\ ~Claimed(p) /\ Present(p) /\ f.mode = "private"
           /\ f.content.part = release /\ Adopted(p, plan)
  <2>1. /\ plan.after = f /\ plan.entry.own = "preexisting"
        /\ plan.entry.content = f.content /\ plan.entry.mode = "private"
    BY <1>5 DEF Adopted
  <2>2. f.kind = "regular" /\ e.own = "nobody"
    BY <1>0, <1>5 DEF Present
  <2> QED
    BY <1>0, <1>5, <2>1, <2>2 DEF Records, PathRecorded, EntryTidy, PathGiven
<1> QED
  BY <1>1, <1>2, <1>3, <1>4, <1>5 DEF Brought, Current

\* What is let go of is as the user last had it, and has no block.
LEMMA TakenRecords ==
  ASSUME release \in Releases, NEW p \in Paths, p \notin Runtime, PathInv(p),
         PathRecorded(p, file[p], manifest[p], mine[p]), NEW plan, Taken(p, plan)
  PROVE  /\ Records(p, plan) /\ plan.entry = NoEntry
         /\ p \in Instructions => /\ plan.after.content.part = Nothing
                                  /\ plan.after.kind # "link"
<1> DEFINE f == file[p]
           e == manifest[p]
           m == mine[p]
           c == RemoveBlock(f.content)
<1>0. Files \cap Instructions = {} /\ EntryTidy(p, e) /\ PathGiven(p, f, e, m)
  BY OwnershipAssumption DEF PathRecorded
<1>1. /\ f.kind = "regular" => Proper(p, f.content)
      /\ m.kind = "regular" => Proper(p, m.content)
      /\ m.kind = "absent" => m.content = Blank /\ m.mode = "none"
  BY PathFields
<1>2. /\ c.text = f.content.text /\ c.ended = f.content.ended /\ c.part = Nothing
  BY DEF RemoveBlock, Content
<1>3. ASSUME NEW g, plan.after = g, plan.entry = NoEntry,
             m.kind = g.kind, p \in Files => m.content = g.content /\ m.mode = g.mode,
             p \in Instructions /\ g.kind = "regular" => Holds(p, g.content, m.content),
             p \in Instructions => g.content.part = Nothing /\ g.kind # "link"
      PROVE  /\ Records(p, plan) /\ plan.entry = NoEntry
             /\ p \in Instructions => /\ plan.after.content.part = Nothing
                                      /\ plan.after.kind # "link"
  BY <1>3, NoEntryType DEF Records, PathRecorded, EntryTidy, PathGiven
<1>4. ASSUME m.kind = "absent", plan = Remove(p)
      PROVE  /\ Records(p, plan) /\ plan.entry = NoEntry
             /\ p \in Instructions => /\ plan.after.content.part = Nothing
                                      /\ plan.after.kind # "link"
  <2>1. plan.after = Absent /\ plan.entry = NoEntry
    BY <1>4 DEF Remove, Plan
  <2>2. Absent.kind = "absent" /\ Absent.content = Blank /\ Absent.mode = "none"
        /\ Blank.part = Nothing
    BY OtherFiles DEF Absent
  <2> QED
    BY <1>1, <1>3, <1>4, <2>1, <2>2
<1>5. CASE p \in Files /\ Exact(p) /\ e.own = "created" /\ plan = Remove(p)
  <2>1. m.kind = "absent"
    BY <1>0, <1>5 DEF PathGiven, Exact, Present
  <2> QED
    BY <1>4, <1>5, <2>1
<1>6. CASE /\ Exact(p) /\ e.own = "replaced"
           /\ plan = Plan(p, "restore", File(e.saved, e.savedMode), NoEntry)
  <2>1. plan.after = File(e.saved, e.savedMode) /\ plan.entry = NoEntry
    BY <1>6, PlanFields
  <2>2. /\ m.kind = "regular" /\ Holds(p, e.saved, m.content)
        /\ p \in Files => m.content = e.saved /\ m.mode = e.savedMode
    BY <1>0, <1>6 DEF PathGiven, Exact, Present
  <2>3. p \in Instructions => e.saved.part = Nothing
    BY <1>0, <1>6 DEF EntryTidy
  <2> QED
    BY <1>3, <2>1, <2>2, <2>3, FileIs
<1>7. CASE /\ p \in Instructions /\ Present(p) /\ e.own = "created"
           /\ f.content.part = e.content.part /\ plan = WithoutBlock(p, f.mode)
  <2>1. \/ m.kind = "regular" /\ Holds(p, f.content, m.content)
        \/ m.kind = "absent" /\ f.content.text = NoText
    BY <1>0, <1>7 DEF PathGiven, Present
  <2>2. CASE c.text = NoText
    <3>1. plan = Remove(p)
      BY <1>7, <2>2 DEF WithoutBlock
    <3>2. f.content.text = NoText /\ ~f.content.ended
      BY <1>1, <1>2, <1>7, <2>2 DEF Proper, Present
    <3>3. e.content.text = NoText /\ ~e.content.ended
      BY <1>0, <1>7 DEF EntryTidy
    <3>4. f.content = e.content
      <4>1. f.content \in Contents /\ e.content \in Contents
        BY <1>7, PathFields, EntryFields DEF Present
      <4>2. f.content.ended = FALSE /\ e.content.ended = FALSE
        BY <3>2, <3>3, <4>1, ContentFields
      <4> QED
        BY <1>7, <3>2, <3>3, <4>1, <4>2 DEF Contents
    <3>5. m.kind = "absent"
      BY <1>0, <1>7, <3>4 DEF PathGiven, Present
    <3> QED
      BY <1>4, <3>1, <3>5
  <2>3. CASE c.text # NoText
    <3>1. plan = Plan(p, "remove-block", File(c, f.mode), NoEntry)
      BY <1>7, <2>3 DEF WithoutBlock
    <3>2. m.kind = "regular" /\ Holds(p, c, m.content)
      BY <1>0, <1>2, <1>7, <2>1, <2>3 DEF Holds
    <3>3. plan.after = File(c, f.mode) /\ plan.entry = NoEntry
      BY <3>1, PlanFields
    <3> QED
      BY <1>0, <1>2, <1>3, <1>7, <3>2, <3>3, FileIs
  <2> QED
    BY <2>2, <2>3
<1>8. CASE /\ p \in Instructions /\ Present(p) /\ e.own = "replaced"
           /\ plan = Plan(p, "remove-block", File(c, e.savedMode), NoEntry)
  <2>1. m.kind = "regular" /\ Holds(p, c, m.content)
    BY <1>0, <1>2, <1>8 DEF PathGiven, Present, Holds
  <2>2. plan.after = File(c, e.savedMode) /\ plan.entry = NoEntry
    BY <1>8, PlanFields
  <2> QED
    BY <1>0, <1>2, <1>3, <1>8, <2>1, <2>2, FileIs
<1> QED
  BY <1>5, <1>6, <1>7, <1>8 DEF Taken

-----------------------------------------------------------------------------
(* What the manifest lets go of is given back.                              *)

\* An install that succeeds has brought, left or taken every path.
LEMMA InstallDoes ==
  ASSUME IInv, NEW options \in SUBSET Optional, Install(options)
  PROVE  LET plan == InstallPlan(options)
         IN \/ /\ UNCHANGED <<file, manifest, kept, release, edits, mine, repeat>>
               /\ Exit(plan) # "success" /\ outcome' = Exit(plan)
            \/ /\ Apply(plan) /\ UNCHANGED <<release, edits, mine>>
               /\ repeat' = {options} /\ outcome' = "success" /\ Valid(plan)
               /\ \A p \in Paths :
                    \/ p \in Selected(options) /\ Brought(p, plan[p])
                    \/ /\ p \notin Selected(options) /\ ~Claimed(p) /\ plan[p] = Leave(p)
                       /\ p \in Instructions => ~Unreadable(p)
                    \/ p \notin Selected(options) /\ p \notin Runtime /\ Taken(p, plan[p])
<1> DEFINE plan == InstallPlan(options)
<1>1. CASE Exit(plan) # "success" /\ End(Exit(plan), repeat) /\ UNCHANGED <<file, manifest, kept>>
  BY <1>1 DEF End
<1>2. CASE Exit(plan) = "success" /\ Apply(plan) /\ End(Exit(plan), {options})
  <2>1. /\ ~\E p \in Paths : plan[p].op = "raise"
        /\ ~HasConflicts(plan) /\ Valid(plan)
    BY <1>2 DEF Exit
  <2>2. ASSUME NEW p \in Paths
        PROVE  plan[p] # Raise(p) /\ plan[p] # Conflict(p)
    <3>1. Raise(p).op = "raise"
      BY DEF Raise, Plan
    <3>2. Conflict(p).conflict = TRUE
      BY DEF Conflict, Leave, Plan
    <3> QED
      BY <2>1, <3>1, <3>2 DEF HasConflicts
  <2>3. ASSUME NEW p \in Paths
        PROVE  \/ p \in Selected(options) /\ Brought(p, plan[p])
               \/ /\ p \notin Selected(options) /\ ~Claimed(p) /\ plan[p] = Leave(p)
                  /\ p \in Instructions => ~Unreadable(p)
               \/ p \notin Selected(options) /\ p \notin Runtime /\ Taken(p, plan[p])
    <3>1. p \notin Selected(options) => p \notin Runtime
      BY OwnershipAssumption DEF Selected
    <3> QED
      BY <2>2, <3>1, InstallDecides DEF IInv, Shape
  <2>4. UNCHANGED <<release, edits, mine>> /\ repeat' = {options} /\ outcome' = "success"
    BY <1>2 DEF End
  <2> HIDE DEF plan
  <2> QED
    BY <1>2, <2>1, <2>3, <2>4 DEF plan
<1> QED
  BY <1>1, <1>2 DEF Install

\* A plan that records every path leaves all recorded.
LEMMA ApplyRecords ==
  ASSUME IInv, NEW plan, Apply(plan), UNCHANGED mine,
         \A p \in Paths : Records(p, plan[p])
  PROVE  Recorded'
  BY DEF Apply, Recorded, Records

LEMMA InstallRecords ==
  ASSUME IInv, Recorded, NEW options \in SUBSET Optional, Install(options)
  PROVE  Recorded'
<1> DEFINE plan == InstallPlan(options)
<1>1. CASE UNCHANGED <<file, manifest, kept, release, edits, mine, repeat>>
  BY <1>1 DEF Recorded
<1>2. CASE /\ Apply(plan) /\ UNCHANGED mine
           /\ \A p \in Paths :
                \/ Brought(p, plan[p])
                \/ ~Claimed(p) /\ plan[p] = Leave(p)
                \/ p \notin Runtime /\ Taken(p, plan[p])
  <2>1. ASSUME NEW p \in Paths
        PROVE  Records(p, plan[p])
    <3>1. release \in Releases /\ PathInv(p) /\ PathRecorded(p, file[p], manifest[p], mine[p])
      BY DEF IInv, Shape, Recorded
    <3> HIDE DEF plan
    <3> QED
      BY <1>2, <3>1, BroughtRecords, TakenRecords, KeepRecords
  <2> HIDE DEF plan
  <2> QED
    BY <1>2, <2>1, ApplyRecords
<1> QED
  BY <1>1, <1>2, InstallDoes

LEMMA UninstallRecords ==
  ASSUME IInv, Recorded, Uninstall
  PROVE  Recorded'
<1>1. Apply(UninstallPlan) /\ UNCHANGED mine
  BY DEF Uninstall, End
<1>2. ASSUME NEW p \in Paths
      PROVE  Records(p, UninstallPlan[p])
  <2>1. release \in Releases /\ PathInv(p) /\ PathRecorded(p, file[p], manifest[p], mine[p])
    BY DEF IInv, Shape, Recorded
  <2> QED
    BY <2>1, UninstallDecides, TakenRecords, KeepRecords
<1> QED
  BY <1>1, <1>2, ApplyRecords

\* The user changes a file: what counts as his is what he has now, unless he puts
\* back what was installed.
LEMMA ChangeRecords ==
  ASSUME IInv, Recorded, NEW p \in Paths, NEW f \in FileStates, Change(p, f)
  PROVE  Recorded'
<1> DEFINE m == mine[p]
           e == manifest[p]
           n == Remembered(p, f)
           SameBytes == Present(p) /\ f.kind = "regular" /\ f.content = file[p].content
           PutBack == f.kind = "regular" /\ f.content = e.content
                                         /\ e.own \in {"created", "replaced"}
<1>0. /\ EntryTidy(p, e) /\ (p \notin Runtime => PathGiven(p, file[p], e, m))
      /\ PathInv(p) /\ (Claimed(p) <=> e.own # "nobody") /\ Files \cap Instructions = {}
      /\ e \in Entries /\ m \in FileStates /\ file[p] \in FileStates
  BY PathFields, EntryFields, OwnershipAssumption DEF Recorded, PathRecorded, IInv, Claimed
<1>1. p \notin Runtime => PathGiven(p, f, e, n)
  <2> SUFFICES ASSUME p \notin Runtime PROVE PathGiven(p, f, e, n)
    OBVIOUS
  <2>1. CASE SameBytes
    <3>1. n = IF Claimed(p) \/ m.kind # "regular" THEN m ELSE [m EXCEPT !.mode = f.mode]
      BY <2>1 DEF Remembered
    <3>2. m.kind = "regular" => /\ [m EXCEPT !.mode = f.mode].kind = m.kind
                                /\ [m EXCEPT !.mode = f.mode].content = m.content
                                /\ [m EXCEPT !.mode = f.mode].mode = f.mode
      BY <1>0 DEF FileStates, Absent, Symlink
    <3>3. file[p].kind = "regular" /\ f.kind = "regular" /\ f.content = file[p].content
      BY <2>1 DEF Present
    <3> HIDE DEF n, m, e
    <3>4. CASE Claimed(p)
      BY <1>0, <3>1, <3>3, <3>4 DEF PathGiven
    <3>5. CASE ~Claimed(p)
      <4>1. m.kind = "regular" /\ e.own = "nobody"
        BY <1>0, <3>3, <3>5 DEF PathGiven
      <4>2. n.kind = "regular" /\ n.content = m.content /\ n.mode = f.mode
        BY <3>1, <3>2, <3>5, <4>1
      <4> QED
        BY <1>0, <3>3, <4>1, <4>2 DEF PathGiven
    <3> QED
      BY <3>4, <3>5
  <2>2. CASE ~SameBytes /\ PutBack /\ e.own = "created"
    <3>1. n = Absent
      BY <2>2 DEF Remembered
    <3>2. p \in Instructions => f.content.text = NoText
      BY <1>0, <2>2 DEF EntryTidy
    <3> HIDE DEF n, m, e
    <3> QED
      BY <2>2, <3>1, <3>2, OtherFiles DEF PathGiven
  <2>3. CASE ~SameBytes /\ PutBack /\ e.own = "replaced"
    <3>1. n = File(e.saved, e.savedMode)
      BY <2>3 DEF Remembered
    <3>2. n.kind = "regular" /\ n.content = e.saved /\ n.mode = e.savedMode
      BY <3>1, FileIs
    <3>3. p \in Instructions => Holds(p, f.content, e.saved)
      BY <1>0, <2>3 DEF EntryTidy
    <3> HIDE DEF n, m, e
    <3> QED
      BY <2>3, <3>2, <3>3, HoldsItself DEF PathGiven
  <2>4. CASE ~SameBytes /\ ~PutBack /\ f.kind = "regular"
    <3> DEFINE c == IF p \in Files THEN f.content ELSE RemoveBlock(f.content)
    <3>1. n = File(c, f.mode)
      BY <2>4 DEF Remembered
    <3>2. n.kind = "regular" /\ n.content = c /\ n.mode = f.mode
      BY <3>1, FileIs
    <3>3. p \in Instructions => Holds(p, f.content, c)
      BY <1>0 DEF Holds, RemoveBlock, Content
    <3> HIDE DEF n, m
    <3> QED
      BY <2>4, <3>2, <3>3 DEF PathGiven
  <2>5. CASE f.kind # "regular"
    <3>1. n = f
      BY <2>5 DEF Remembered
    <3> HIDE DEF n, m, e
    <3> QED
      BY <2>5, <3>1 DEF PathGiven
  <2> QED
    BY <2>1, <2>2, <2>3, <2>4, <2>5
<1>2. /\ file' = [file EXCEPT ![p] = f] /\ mine' = [mine EXCEPT ![p] = n]
      /\ manifest' = manifest
  BY DEF Change
<1> HIDE DEF n
<1>3. ASSUME NEW q \in Paths
      PROVE  PathRecorded(q, file'[q], manifest'[q], mine'[q])
  <2>1. CASE q = p
    <3>1. file'[p] = f /\ mine'[p] = n
      BY <1>2 DEF IInv, Shape
    <3> QED
      BY <1>0, <1>1, <1>2, <2>1, <3>1 DEF PathRecorded
  <2>2. CASE q # p
    <3>1. file'[q] = file[q] /\ mine'[q] = mine[q]
      BY <1>2, <2>2 DEF IInv, Shape
    <3> QED
      BY <1>2, <3>1 DEF Recorded
  <2> QED
    BY <2>1, <2>2
<1> QED
  BY <1>3 DEF Recorded

LEMMA RecordedStep == IInv /\ Recorded /\ [Next]_vars => Recorded'
<1> SUFFICES ASSUME IInv, Recorded, [Next]_vars PROVE Recorded'
  OBVIOUS
<1>1. CASE \E options \in SUBSET Optional : Install(options)
  BY <1>1, InstallRecords
<1>2. CASE Uninstall
  BY <1>2, UninstallRecords
<1>3. CASE \E p \in Paths : Write(p) \/ Chmod(p) \/ Delete(p) \/ HardLink(p) \/ LinkAway(p)
  BY <1>3, UserChanges, ChangeRecords
<1>4. CASE Upgrade \/ UNCHANGED vars
  BY <1>4 DEF Upgrade, vars, Recorded
<1> QED
  BY <1>1, <1>2, <1>3, <1>4 DEF Next

\* What a path is like that a plan lets go of.
LEMMA TakenIsGivenBack ==
  ASSUME IInv, Recorded, IInv', NEW p \in Paths, p \notin Runtime, NEW plan,
         Taken(p, plan[p]), Apply(plan), UNCHANGED mine
  PROVE  GivenBack(p)'
<1> DEFINE g == plan[p].after
           m == mine[p]
<1>1. /\ Records(p, plan[p]) /\ plan[p].entry = NoEntry
      /\ p \in Instructions => g.content.part = Nothing
  BY TakenRecords DEF IInv, Shape, Recorded
<1>2. /\ m.kind = g.kind
      /\ p \in Files => m.content = g.content /\ m.mode = g.mode
      /\ p \in Instructions /\ g.kind = "regular" => Holds(p, g.content, m.content)
  BY <1>1, NoEntryType DEF Records, PathRecorded, PathGiven
<1>3. file'[p] = g /\ mine'[p] = m
  BY DEF Apply
<1>4. g.kind # "regular" => g.content = m.content
  <2>1. g \in FileStates /\ m \in FileStates
    BY <1>3 DEF IInv, PathInv, PathOK, PathTyped
  <2> QED
    BY <1>2, <2>1, Kinds
<1> HIDE DEF g, m
<1> QED
  BY <1>1, <1>2, <1>3, <1>4, HoldsItself DEF GivenBack, HasBlock, Paths

\* An entry is dropped only from a path that is taken.
LEMMA LetGoIsTaken ==
  ASSUME IInv, NEW p \in Paths, Claimed(p), NEW plan, Apply(plan), ~Claimed(p)'
  PROVE  /\ plan[p].entry = NoEntry
         /\ ~Brought(p, plan[p]) /\ plan[p] # Conflict(p)
<1>1. plan[p].entry = NoEntry
  BY DEF Apply, Claimed
<1>2. NoEntry.own = "nobody" /\ manifest[p].own # "nobody"
  BY NoEntryType, EntryFields DEF Claimed, IInv, PathInv, PathOK, PathTyped
<1>3. plan[p] # Conflict(p)
  <2>1. Conflict(p).entry.own = manifest[p].own
    BY <1>2 DEF Conflict, Leave, Plan, IInv, PathInv, PathOK, PathTyped, Entries, Entry, NoEntry
  <2> QED
    BY <1>1, <1>2, <2>1
<1>4. ASSUME Brought(p, plan[p])
      PROVE  FALSE
  <2>1. ASSUME NEW c
        PROVE  Create(p, c).entry.own = "created" /\ Replace(p, c).entry.own = "replaced"
               /\ Update(p, c).entry.own = manifest[p].own
    <3>1. Create(p, c).entry.own = "created" /\ Replace(p, c).entry.own = "replaced"
      BY DEF Create, Replace, Plan, Entry
    <3>2. manifest[p] \in Entries
      BY DEF IInv, PathInv, PathOK, PathTyped
    <3>3. [manifest[p] EXCEPT !.content = c, !.mode = "private", !.unresolved = FALSE].own
            = manifest[p].own
      BY <3>2 DEF Entries, NoEntry, Entry
    <3> QED
      BY <3>1, <3>3 DEF Update, Plan
  <2>2. Keep(p).entry.own = manifest[p].own
    BY DEF Keep, Plan, IInv, PathInv, PathOK, PathTyped, Entries, NoEntry, Entry
  <2>3. Adopted(p, plan[p]) => plan[p].entry.own = "preexisting"
    BY DEF Adopted
  <2> QED
    BY <1>1, <1>2, <1>4, <2>1, <2>2, <2>3 DEF Brought
<1> QED
  BY <1>1, <1>3, <1>4

\* What an entry of the manifest says is true of what the user had there: nothing if
\* it is `created', the saved bytes if it is `replaced', the adopted file if it is
\* `preexisting' (the entries _plan_regular_source and _plan_block write).
THEOREM EntriesTellWhatWas == Spec => []Recorded
<1>1. Init => Recorded
  <2> SUFFICES ASSUME Init, NEW p \in Paths
               PROVE  PathRecorded(p, file[p], manifest[p], mine[p])
    BY DEF Recorded
  <2>1. file[p] = Absent /\ manifest[p] = NoEntry /\ mine[p] = Absent
    BY DEF Init
  <2> QED
    BY <2>1, OtherFiles, NoEntryType DEF PathRecorded, EntryTidy, PathGiven
<1> QED
  BY <1>1, RecordedStep, OwnershipInvariant, PTL DEF Spec

\* A path the manifest lets go of is as the user last had it, without a block, be
\* it by an uninstall or by an install that no longer selects it (_stale_install,
\* _target_uninstall).
THEOREM LetGoIsGivenBack == Spec => RoundTrip
<1> DEFINE Back == \A p \in Paths \ Runtime : Claimed(p) /\ ~Claimed(p)' => GivenBack(p)'
<1>1. IInv /\ IInv' /\ Recorded /\ [Next]_vars => [Back]_vars
  <2> SUFFICES ASSUME IInv, IInv', Recorded, Next,
                      NEW p \in Paths \ Runtime, Claimed(p), ~Claimed(p)'
               PROVE  GivenBack(p)'
    OBVIOUS
  <2>1. UNCHANGED manifest => FALSE
    BY DEF Claimed
  <2>2. CASE \E options \in SUBSET Optional : Install(options)
    <3>1. PICK options \in SUBSET Optional : Install(options)
      BY <2>2
    <3>2. /\ Apply(InstallPlan(options)) /\ UNCHANGED mine
          /\ \/ Brought(p, InstallPlan(options)[p])
             \/ Taken(p, InstallPlan(options)[p])
      BY <2>1, <3>1, InstallDoes
    <3> QED
      BY <3>2, LetGoIsTaken, TakenIsGivenBack
  <2>3. CASE Uninstall
    <3>1. Apply(UninstallPlan) /\ UNCHANGED mine
      BY <2>3 DEF Uninstall, End
    <3>2. Taken(p, UninstallPlan[p]) \/ UninstallPlan[p] = Conflict(p)
      BY UninstallDecides DEF IInv, Shape
    <3> QED
      BY <3>1, <3>2, LetGoIsTaken, TakenIsGivenBack
  <2>4. CASE Upgrade
    BY <2>1, <2>4 DEF Upgrade
  <2>5. CASE \E q \in Paths : Write(q) \/ Chmod(q) \/ Delete(q) \/ HardLink(q) \/ LinkAway(q)
    BY <2>1, <2>5 DEF Write, Chmod, Delete, HardLink, LinkAway, Change
  <2> QED
    BY <2>2, <2>3, <2>4, <2>5 DEF Next
<1> QED
  BY <1>1, EntriesTellWhatWas, OwnershipInvariant, PTL DEF Spec, RoundTrip

-----------------------------------------------------------------------------
(* An install settles.                                                      *)

\* What an install with these options leaves of a path.
PathSettled(p, options) ==
  IF p \in Selected(options)
  THEN /\ Claimed(p) /\ Exact(p) /\ ~manifest[p].unresolved
       /\ Current(p) /\ file[p].mode = "private"
  ELSE ~Claimed(p) /\ (p \in Instructions => ~Unreadable(p))
Settled == \A options \in repeat, p \in Paths : PathSettled(p, options)

LEMMA BroughtSettles ==
  ASSUME IInv, Recorded, NEW p \in Paths, NEW plan, Brought(p, plan)
  PROVE  /\ plan.after.kind = "regular" /\ plan.after.content = plan.entry.content
         /\ plan.after.mode = plan.entry.mode /\ plan.after.mode = "private"
         /\ plan.after.content.part = release
         /\ p \in Files => plan.after.content = Source(p)
         /\ plan.entry # NoEntry /\ ~plan.entry.unresolved
<1>1. New(p).part = release /\ (p \in Files => New(p) = Source(p))
  BY NewType DEF IInv, Shape, New
<1>2. manifest[p] \in Entries /\ NoEntry.own = "nobody"
  BY NoEntryType DEF IInv, PathInv, PathOK, PathTyped
<1>3. CASE plan = Create(p, New(p)) \/ plan = Replace(p, New(p))
  <2>1. /\ plan.after = File(New(p), "private")
        /\ \/ plan.entry = Entry(New(p), "private", "created", Blank, "none")
           \/ plan.entry = Entry(New(p), "private", "replaced", file[p].content, file[p].mode)
    <3>1. /\ Create(p, New(p)).after = File(New(p), "private")
          /\ Create(p, New(p)).entry = Entry(New(p), "private", "created", Blank, "none")
      BY PlanFields DEF Create
    <3>2. /\ Replace(p, New(p)).after = File(New(p), "private")
          /\ Replace(p, New(p)).entry
               = Entry(New(p), "private", "replaced", file[p].content, file[p].mode)
      BY PlanFields DEF Replace
    <3> QED
      BY <1>3, <3>1, <3>2
  <2> QED
    BY <1>1, <1>2, <2>1, EntryIs, FileIs
<1>4. CASE manifest[p].own \in {"created", "replaced"} /\ plan = Update(p, New(p))
  <2> DEFINE g == [manifest[p] EXCEPT !.content = New(p), !.mode = "private", !.unresolved = FALSE]
  <2>1. plan.after = File(New(p), "private") /\ plan.entry = g
    BY <1>4, Zenon DEF Update, Plan
  <2>2. /\ g.own = manifest[p].own /\ g.content = New(p) /\ g.mode = "private"
        /\ g.unresolved = FALSE
    BY <1>2 DEF Entries, NoEntry, Entry
  <2> HIDE DEF g
  <2> QED
    BY <1>1, <1>2, <1>4, <2>1, <2>2, FileIs
<1>5. CASE Claimed(p) /\ Exact(p) /\ Current(p) /\ plan = Keep(p)
  <2> DEFINE g == [manifest[p] EXCEPT !.unresolved = FALSE]
  <2>1. plan.after = file[p] /\ plan.entry = g
    BY <1>5, Zenon DEF Keep, Plan
  <2>2. /\ g.own = manifest[p].own /\ g.content = manifest[p].content
        /\ g.mode = manifest[p].mode /\ g.unresolved = FALSE
    BY <1>2 DEF Entries, NoEntry, Entry
  <2>3. manifest[p].own # "nobody"
    BY <1>2, <1>5, EntryFields DEF Claimed
  <2>4. manifest[p].mode = "private"
    BY <2>3 DEF Recorded, PathRecorded, EntryTidy
  <2> HIDE DEF g
  <2> QED
    BY <1>2, <1>5, <2>1, <2>2, <2>3, <2>4 DEF Exact, Present, Current
<1>6. CASE Present(p) /\ file[p].mode = "private" /\ Current(p) /\ Adopted(p, plan)
  BY <1>2, <1>6 DEF Adopted, Present, Current
<1> QED
  BY <1>3, <1>4, <1>5, <1>6 DEF Brought

LEMMA InstallSettled ==
  ASSUME IInv, Recorded, Settled, NEW options \in SUBSET Optional, Install(options)
  PROVE  Settled'
<1> DEFINE plan == InstallPlan(options)
<1>1. CASE UNCHANGED <<file, manifest, kept, release, edits, mine, repeat>>
  BY <1>1 DEF Settled, PathSettled, Current, Source, Claimed, Exact, Present,
     Unreadable, Unsafe
<1>2. CASE /\ Apply(plan) /\ UNCHANGED <<release, edits, mine>> /\ repeat' = {options}
           /\ \A p \in Paths :
                \/ p \in Selected(options) /\ Brought(p, plan[p])
                \/ /\ p \notin Selected(options) /\ ~Claimed(p) /\ plan[p] = Leave(p)
                   /\ p \in Instructions => ~Unreadable(p)
                \/ p \notin Selected(options) /\ p \notin Runtime /\ Taken(p, plan[p])
  <2> SUFFICES ASSUME NEW p \in Paths PROVE PathSettled(p, options)'
    BY <1>2 DEF Settled
  <2>1. file'[p] = plan[p].after /\ manifest'[p] = plan[p].entry /\ release' = release
    BY <1>2 DEF Apply
  <2> HIDE DEF plan
  <2>2. CASE p \in Selected(options) /\ Brought(p, plan[p])
    <3>1. /\ plan[p].after.kind = "regular" /\ plan[p].after.content = plan[p].entry.content
          /\ plan[p].after.mode = plan[p].entry.mode /\ plan[p].after.mode = "private"
          /\ plan[p].after.content.part = release
          /\ p \in Files => plan[p].after.content = Source(p)
          /\ plan[p].entry # NoEntry /\ ~plan[p].entry.unresolved
      BY <2>2, BroughtSettles
    <3>2. Claimed(p)' /\ Exact(p)' /\ Current(p)'
      BY <2>1, <3>1 DEF Claimed, Exact, Present, Current, Source
    <3> QED
      BY <2>1, <2>2, <3>1, <3>2 DEF PathSettled
  <2>3. CASE /\ p \notin Selected(options) /\ plan[p] = Leave(p)
             /\ p \in Instructions => ~Unreadable(p)
    <3>1. file'[p] = file[p] /\ manifest'[p] = NoEntry
      BY <2>1, <2>3 DEF Leave, Plan
    <3> QED
      BY <2>3, <3>1 DEF PathSettled, Claimed, Unreadable, Unsafe
  <2>4. CASE p \notin Selected(options) /\ p \notin Runtime /\ Taken(p, plan[p])
    <3>1. /\ plan[p].entry = NoEntry
          /\ p \in Instructions => /\ plan[p].after.content.part = Nothing
                                   /\ plan[p].after.kind # "link"
      BY <2>4, TakenRecords DEF IInv, Shape, Recorded
    <3>2. Nothing # Broken
      BY DEF Nothing, Broken
    <3> QED
      BY <2>1, <2>4, <3>1, <3>2 DEF PathSettled, Claimed, Unreadable, Unsafe
  <2> QED
    BY <1>2, <2>2, <2>3, <2>4
<1> QED
  BY <1>1, <1>2, InstallDoes

LEMMA SettledStep == IInv /\ Recorded /\ Settled /\ [Next]_vars => Settled'
<1> SUFFICES ASSUME IInv, Recorded, Settled, [Next]_vars PROVE Settled'
  OBVIOUS
<1>1. CASE \E options \in SUBSET Optional : Install(options)
  BY <1>1, InstallSettled
<1>2. CASE repeat' = {}
  BY <1>2 DEF Settled
<1>3. CASE UNCHANGED vars
  BY <1>3 DEF vars, Settled, PathSettled, Current, Source, Claimed, Exact, Present,
     Unreadable, Unsafe
<1>4. Uninstall \/ Upgrade => repeat' = {}
  BY DEF Uninstall, Upgrade, End
<1>5. \A p \in Paths : Write(p) \/ Chmod(p) \/ Delete(p) \/ HardLink(p) \/ LinkAway(p) => repeat' = {}
  BY DEF Write, Chmod, Delete, HardLink, LinkAway, Change
<1> QED
  BY <1>1, <1>2, <1>3, <1>4, <1>5 DEF Next

\* To a settled path the same install plans nothing.
LEMMA SettledPlansNothing ==
  ASSUME IInv, NEW options, NEW p \in Paths, PathSettled(p, options)
  PROVE  LET P == InstallPlan(options)[p]
         IN /\ P = Plan(p, "none", file[p], manifest[p])
            /\ P.entry # NoEntry => Linked(p, P)
<1> DEFINE P == InstallPlan(options)[p]
<1>0. release \in Releases /\ PathInv(p) /\ manifest[p] \in Entries
  BY DEF IInv, Shape, PathInv, PathOK, PathTyped
<1>1. Claimed(p) /\ ~manifest[p].unresolved => [manifest[p] EXCEPT !.unresolved = FALSE] = manifest[p]
  BY <1>0 DEF Claimed, Entries
<1>2. CASE p \in Selected(options)
  <2>1. /\ Claimed(p) /\ Exact(p) /\ ~manifest[p].unresolved
        /\ Current(p) /\ file[p].mode = "private" /\ Present(p)
    BY <1>2 DEF PathSettled, Exact
  <2>2. release # Nothing /\ release # Broken
    BY <1>0, OwnershipAssumption DEF Releases, Nothing, Broken
  <2>3. P = Keep(p)
    <3>1. CASE p \in Files
      <4>1. P = PlanRegularSource(p)
        BY <1>2, <3>1, OwnershipAssumption DEF InstallPlan
      <4>2. PlanRegularSource(p) = Keep(p)
        BY <2>1, <3>1 DEF PlanRegularSource, Current
      <4> QED
        BY <4>1, <4>2
    <3>2. CASE p \notin Files
      <4>1. ~Unreadable(p) /\ p \in Instructions
        BY <2>1, <2>2, <3>2 DEF Unreadable, Unsafe, Present, Current, Paths
      <4>2. P = PlanBlock(p)
        BY <1>2, <3>2, <4>1 DEF InstallPlan
      <4>3. PlanBlock(p) = Keep(p)
        BY <2>1, <2>2 DEF PlanBlock, Current, HasBlock, Missing, Present
      <4> QED
        BY <4>2, <4>3
    <3> QED
      BY <3>1, <3>2
  <2>4. P = Plan(p, "none", file[p], manifest[p])
    BY <1>1, <2>1, <2>3 DEF Keep
  <2>5. P.op = "none" /\ P.entry = manifest[p]
    BY <2>4, PlanFields
  <2>6. manifest[p].own = "replaced" => <<p, manifest[p].saved>> \in kept
    BY <1>0 DEF PathInv, PathOK, PathSaved
  <2> HIDE DEF P
  <2>7. Linked(p, P)
    BY <2>1, <2>5, <2>6 DEF Linked, Exact
  <2> QED
    BY <2>4, <2>7 DEF P
<1>3. CASE p \notin Selected(options)
  <2>1. manifest[p] = NoEntry /\ ~Claimed(p) /\ (p \in Instructions => ~Unreadable(p))
    BY <1>3 DEF PathSettled, Claimed
  <2>2. P = Leave(p)
    BY <1>3, <2>1, OwnershipAssumption DEF InstallPlan
  <2>3. P = Plan(p, "none", file[p], manifest[p])
    BY <2>1, <2>2 DEF Leave
  <2> QED
    BY <2>1, <2>3, PlanFields
<1> QED
  BY <1>2, <1>3

\* What an install that nothing has followed left: the release is in place, and
\* what was not selected is not claimed.
THEOREM InstallsHold == Spec => []Settled
<1>1. Init => Settled
  BY DEF Init, Settled
<1> QED
  BY <1>1, SettledStep, EntriesTellWhatWas, OwnershipInvariant, PTL DEF Spec

\* Installing twice is installing once: the second time nothing is planned, and
\* the plan of nothing is accepted (_target_install, _validate_manifest_linkage).
THEOREM InstallsSettle == Spec => []InstallSettles
<1>1. IInv /\ Settled => InstallSettles
  <2> SUFFICES ASSUME IInv, Settled, NEW options \in repeat
               PROVE  /\ \A p \in Selected(options) : Exact(p) /\ file[p].content.part = release
                                                              /\ file[p].mode = "private"
                      /\ \A p \in Paths \ Selected(options) : ~Claimed(p)
                      /\ LET plan == InstallPlan(options)
                         IN Valid(plan) /\ \A p \in Paths : plan[p] = Plan(p, "none", file[p], manifest[p])
    BY DEF InstallSettles
  <2>1. Selected(options) \subseteq Paths
    BY OwnershipAssumption DEF IInv, Shape, Selected
  <2>2. \A p \in Paths : PathSettled(p, options)
    BY DEF Settled
  <2>3. \A p \in Paths : /\ InstallPlan(options)[p] = Plan(p, "none", file[p], manifest[p])
                         /\ InstallPlan(options)[p].entry # NoEntry =>
                              Linked(p, InstallPlan(options)[p])
    BY <2>2, SettledPlansNothing
  <2> QED
    BY <2>1, <2>2, <2>3 DEF PathSettled, Current, Valid
<1> QED
  BY <1>1, InstallsHold, OwnershipInvariant, PTL

-----------------------------------------------------------------------------
(* Why an install is rejected or reports a conflict.                        *)

LEMMA TakenFields ==
  ASSUME NEW p, NEW plan, Taken(p, plan)
  PROVE  plan.entry = NoEntry
<1>1. \A op, f : Plan(p, op, f, NoEntry).entry = NoEntry
  BY PlanFields
<1> QED
  BY <1>1 DEF Taken, Remove, WithoutBlock

\* What is planned for a path without an unresolved entry is accepted.
LEMMA PlansAreLinked ==
  ASSUME IInv, NEW p \in Paths, ~manifest[p].unresolved, NEW plan,
         Brought(p, plan), plan.entry # NoEntry
  PROVE  Linked(p, plan)
<1>0. /\ manifest[p] \in Entries /\ NoEntry.own = "nobody"
      /\ manifest[p].own = "replaced" => <<p, manifest[p].saved>> \in kept
  BY NoEntryType DEF IInv, PathInv, PathOK, PathTyped, PathSaved
<1>1. CASE plan = Create(p, New(p))
  <2>1. plan.op = "create" /\ plan.after = File(New(p), "private")
        /\ plan.entry = Entry(New(p), "private", "created", Blank, "none")
    BY <1>1, PlanFields DEF Create
  <2> QED
    BY <2>1, EntryIs, FileIs DEF Linked
<1>2. CASE plan = Replace(p, New(p))
  <2>1. plan.op = "replace" /\ plan.after = File(New(p), "private")
        /\ plan.entry = Entry(New(p), "private", "replaced", file[p].content, file[p].mode)
    BY <1>2, PlanFields DEF Replace
  <2> QED
    BY <2>1, EntryIs, FileIs DEF Linked
<1>3. CASE plan = Update(p, New(p))
  <2> DEFINE g == [manifest[p] EXCEPT !.content = New(p), !.mode = "private", !.unresolved = FALSE]
  <2>1. plan.op = "replace" /\ plan.after = File(New(p), "private") /\ plan.entry = g
    BY <1>3, PlanFields DEF Update
  <2>2. /\ g.own = manifest[p].own /\ g.content = New(p) /\ g.mode = "private"
        /\ g.saved = manifest[p].saved /\ g.savedMode = manifest[p].savedMode
    BY <1>0 DEF Entries, NoEntry, Entry
  <2> HIDE DEF g
  <2> QED
    BY <1>0, <2>1, <2>2, FileIs DEF Linked
<1>4. CASE Claimed(p) /\ Exact(p) /\ plan = Keep(p)
  <2>1. [manifest[p] EXCEPT !.unresolved = FALSE] = manifest[p]
    BY <1>0, <1>4 DEF Claimed, Entries
  <2>2. plan.op = "none" /\ plan.entry = manifest[p]
    BY <1>4, <2>1, PlanFields DEF Keep
  <2> QED
    BY <1>0, <1>4, <2>2 DEF Linked, Exact
<1>5. CASE ~Claimed(p) /\ Adopted(p, plan)
  BY <1>5 DEF Adopted, Linked
<1> QED
  BY <1>1, <1>2, <1>3, <1>4, <1>5 DEF Brought

\* An install that nothing speaks against before it is applied is applied, unless
\* the manifest has an unresolved entry.
LEMMA RejectedStep ==
  ASSUME IInv, NEW options \in SUBSET Optional,
         ~\E p \in Paths : InstallPlan(options)[p].op = "raise",
         ~HasConflicts(InstallPlan(options)), \A p \in Paths : ~manifest[p].unresolved
  PROVE  Valid(InstallPlan(options))
<1> DEFINE plan == InstallPlan(options)
<1>1. ASSUME NEW p \in Paths, plan[p].entry # NoEntry
      PROVE  Linked(p, plan[p])
  <2>1. plan[p] # Raise(p)
    BY PlanFields DEF Raise
  <2>2. plan[p] # Conflict(p)
    <3>1. Conflict(p).conflict = TRUE
      BY DEF Conflict, Leave, Plan
    <3> QED
      BY <3>1 DEF HasConflicts
  <2>3. Leave(p).entry = NoEntry
    BY PlanFields DEF Leave
  <2> QED
    BY <1>1, <2>1, <2>2, <2>3, InstallDecides, TakenFields, PlansAreLinked DEF IInv, Shape
<1> QED
  BY <1>1 DEF Valid

\* An apply error, a rejected plan without conflicts, has its cause in an entry that
\* an uninstall has retained (_validate_manifest_linkage).
THEOREM RejectionsHaveACause == Spec => []RejectedOnlyAfterRetained
<1>1. Init => RejectedOnlyAfterRetained
  BY DEF Init, RejectedOnlyAfterRetained
<1>2. IInv /\ RejectedOnlyAfterRetained /\ [Next]_vars => RejectedOnlyAfterRetained'
  <2> SUFFICES ASSUME IInv, RejectedOnlyAfterRetained, [Next]_vars, outcome' = "apply-error"
               PROVE  \E p \in Paths : manifest'[p].unresolved
    BY DEF RejectedOnlyAfterRetained
  <2>1. CASE \E options \in SUBSET Optional : Install(options)
    <3>1. PICK options \in SUBSET Optional : Install(options)
      BY <2>1
    <3>2. UNCHANGED manifest /\ outcome' = Exit(InstallPlan(options))
      BY <3>1, InstallDoes
    <3>3. /\ ~\E p \in Paths : InstallPlan(options)[p].op = "raise"
          /\ ~HasConflicts(InstallPlan(options)) /\ ~Valid(InstallPlan(options))
      BY <3>2 DEF Exit
    <3> QED
      BY <3>2, <3>3, RejectedStep
  <2>2. CASE UNCHANGED vars
    BY <2>2 DEF vars, RejectedOnlyAfterRetained
  <2>3. ~Uninstall /\ ~Upgrade
    BY DEF Uninstall, Upgrade, End
  <2>4. \A p \in Paths : ~(Write(p) \/ Chmod(p) \/ Delete(p) \/ HardLink(p) \/ LinkAway(p))
    BY DEF Write, Chmod, Delete, HardLink, LinkAway, Change
  <2> QED
    BY <2>1, <2>2, <2>3, <2>4 DEF Next
<1> QED
  BY <1>1, <1>2, OwnershipInvariant, PTL DEF Spec

\* A path as the commands alone leave it: claimed and exact, or not there, or a
\* runtime file that an uninstall has left.
PathUntouched(p, f, e) ==
  /\ f.kind # "link"
  /\ f.kind = "regular" => /\ f.links = 1 /\ f.mode = "private"
                           /\ f.content.part \in Releases /\ f.content.text = NoText
  /\ e.own = "nobody" => f.kind = "absent" \/ p \in Runtime
  /\ e.own # "nobody" => /\ f.kind = "regular" /\ f.content = e.content /\ f.mode = e.mode
                         /\ ~e.unresolved /\ (e.own = "created" \/ p \in Runtime)
Untouched == edits = 0 => \A p \in Paths : PathUntouched(p, file[p], manifest[p])

LEMMA UntouchedFields ==
  ASSUME IInv, NEW p \in Paths, PathUntouched(p, file[p], manifest[p])
  PROVE  /\ Claimed(p) <=> manifest[p].own # "nobody"
         /\ Claimed(p) => Present(p) /\ Exact(p) /\ ~manifest[p].unresolved
         /\ ~Claimed(p) => Missing(p) \/ p \in Runtime
         /\ Missing(p) \/ Present(p)
         /\ ~Unsafe(p)
         /\ Present(p) => /\ file[p].mode = "private" /\ file[p].links = 1
                          /\ file[p].content.part \in Releases /\ HasBlock(file[p].content)
         /\ p \in Instructions => ~Unreadable(p)
<1>1. /\ manifest[p] \in Entries /\ file[p] \in FileStates
      /\ file[p].kind \in {"absent", "link", "regular"}
  BY Kinds DEF IInv, PathInv, PathOK, PathTyped
<1>2. Claimed(p) <=> manifest[p].own # "nobody"
  BY <1>1, EntryFields DEF Claimed
<1>3. /\ Claimed(p) => Present(p) /\ Exact(p) /\ ~manifest[p].unresolved
      /\ ~Claimed(p) => Missing(p) \/ p \in Runtime
      /\ (Missing(p) \/ Present(p)) /\ ~Unsafe(p)
  BY <1>1, <1>2 DEF PathUntouched, Present, Exact, Missing, Unsafe
<1>4. Nothing \notin Releases /\ Broken \notin Releases
  BY OwnershipAssumption DEF Releases, Nothing, Broken
<1>5. Present(p) => /\ file[p].mode = "private" /\ file[p].links = 1
                    /\ file[p].content.part \in Releases /\ HasBlock(file[p].content)
  BY <1>4 DEF PathUntouched, Present, HasBlock
<1>6. Missing(p) => file[p].content.part = Nothing
  BY <1>1, Kinds, OtherFiles DEF Missing
<1>7. ~Unreadable(p)
  BY <1>3, <1>4, <1>5, <1>6 DEF Unreadable, Nothing, Broken
<1> QED
  BY <1>2, <1>3, <1>5, <1>7

\* Only a runtime file that was taken for the user's stands in the way.
LEMMA UntouchedInstall ==
  ASSUME IInv, NEW options, NEW p \in Paths, PathUntouched(p, file[p], manifest[p]),
         p \in Runtime => manifest[p].own # "preexisting"
  PROVE  LET P == InstallPlan(options)[p] IN P.op # "raise" /\ ~P.conflict
<1> DEFINE P == InstallPlan(options)[p]
<1>0. /\ Claimed(p) => Present(p) /\ Exact(p) /\ ~manifest[p].unresolved
      /\ ~Claimed(p) => Missing(p) \/ p \in Runtime
      /\ (Missing(p) \/ Present(p)) /\ ~Unsafe(p)
      /\ Present(p) => file[p].mode = "private" /\ HasBlock(file[p].content)
      /\ p \in Instructions => ~Unreadable(p)
      /\ Claimed(p) => manifest[p].own \in {"created", "replaced"}
  BY UntouchedFields, OwnOfClaimed DEF IInv, PathUntouched
<1>1. /\ \A c : /\ Create(p, c).op = "create" /\ ~Create(p, c).conflict
                /\ Replace(p, c).op = "replace" /\ ~Replace(p, c).conflict
                /\ Update(p, c).op = "replace" /\ ~Update(p, c).conflict
      /\ Keep(p).op = "none" /\ ~Keep(p).conflict
      /\ Adopt(p).op = "none" /\ ~Adopt(p).conflict
      /\ Leave(p).op = "none" /\ ~Leave(p).conflict
      /\ Remove(p).op = "remove" /\ ~Remove(p).conflict
  BY DEF Create, Replace, Update, Keep, Adopt, Leave, Remove, Plan
<1>2. \A x : WithoutBlock(p, x).op \in {"remove", "remove-block"} /\ ~WithoutBlock(p, x).conflict
  BY DEF WithoutBlock, Remove, Plan
<1>3. CASE p \in Files \cap Selected(options)
  <2> DEFINE R == PlanRegularSource(p)
  <2>1. P = R
    BY <1>3, OwnershipAssumption DEF InstallPlan
  <2>2. \/ R \in {Create(p, Source(p)), Replace(p, Source(p)), Update(p, Source(p))}
        \/ R = Adopt(p) \/ R = Keep(p)
    <3>1. CASE ~Claimed(p) /\ Missing(p)
      BY <3>1 DEF PlanRegularSource, Missing, Unsafe, Present
    <3>2. CASE ~Claimed(p) /\ Present(p)
      BY <1>0, <3>2 DEF PlanRegularSource, Missing, Unsafe, Present
    <3>3. CASE Claimed(p)
      BY <1>0, <3>3 DEF PlanRegularSource
    <3> QED
      BY <1>0, <3>1, <3>2, <3>3
  <2> HIDE DEF R, P
  <2> QED
    BY <1>1, <2>1, <2>2 DEF P
<1>4. CASE p \in Instructions \cap Selected(options)
  <2> DEFINE B == PlanBlock(p)
             c == file[p].content
  <2>1. P = B
    BY <1>0, <1>4, OwnershipAssumption DEF InstallPlan
  <2>2. p \notin Runtime
    BY <1>4, OwnershipAssumption
  <2>3. \/ B = Create(p, InsertBlock(c)) \/ B = Update(p, InsertBlock(c)) \/ B = Keep(p)
    <3>1. CASE ~Claimed(p) /\ Missing(p)
      BY <3>1 DEF PlanBlock, Missing, Present
    <3>2. CASE Claimed(p)
      BY <1>0, <3>2 DEF PlanBlock
    <3> QED
      BY <1>0, <2>2, <3>1, <3>2
  <2> HIDE DEF B, c, P
  <2> QED
    BY <1>1, <2>1, <2>3 DEF P
<1>5. CASE p \notin Selected(options)
  <2>1. P = IF Claimed(p) THEN StaleInstall(p) ELSE Leave(p)
    BY <1>0, <1>5, OwnershipAssumption DEF InstallPlan
  <2>2. p \notin Runtime
    BY <1>5, OwnershipAssumption DEF Selected
  <2>3. Claimed(p) => manifest[p].own = "created"
    BY <1>0, <2>2, UntouchedFields DEF PathUntouched
  <2>4. Claimed(p) => StaleInstall(p) = IF p \in Instructions THEN WithoutBlock(p, file[p].mode)
                                                              ELSE Remove(p)
    BY <1>0, <2>3 DEF StaleInstall
  <2> HIDE DEF P
  <2> QED
    BY <1>1, <1>2, <2>1, <2>4 DEF P
<1> QED
  BY <1>3, <1>4, <1>5 DEF Paths

LEMMA UntouchedUninstall ==
  ASSUME IInv, NEW p \in Paths, PathUntouched(p, file[p], manifest[p])
  PROVE  ~UninstallPlan[p].conflict /\ UninstallPlan[p] # Conflict(p)
<1> DEFINE P == UninstallPlan[p]
<1>0. /\ Claimed(p) => Present(p) /\ Exact(p) /\ file[p].links = 1
      /\ Claimed(p) /\ p \notin Runtime => manifest[p].own = "created"
  BY UntouchedFields DEF PathUntouched
<1>1. /\ Leave(p).op = "none" /\ ~Leave(p).conflict
      /\ Remove(p).op = "remove" /\ ~Remove(p).conflict
      /\ \A x : ~WithoutBlock(p, x).conflict
      /\ Conflict(p).conflict = TRUE
  BY DEF Leave, Remove, WithoutBlock, Conflict, Plan
<1>2. CASE ~Claimed(p) \/ p \in Runtime
  <2>1. P = Leave(p)
    BY <1>2 DEF UninstallPlan
  <2> QED
    BY <1>1, <2>1
<1>3. CASE Claimed(p) /\ p \notin Runtime
  <2>1. P = IF p \in Files THEN UninstallFile(p) ELSE UninstallBlock(p)
    BY <1>0, <1>3 DEF UninstallPlan
  <2>2. UninstallFile(p) = Remove(p)
    BY <1>0, <1>3 DEF UninstallFile
  <2>3. UninstallBlock(p) = WithoutBlock(p, file[p].mode)
    BY <1>0, <1>3 DEF UninstallBlock, Exact
  <2> HIDE DEF P
  <2> QED
    BY <1>1, <2>1, <2>2, <2>3 DEF P
<1> QED
  BY <1>2, <1>3

\* An uninstall or an install leaves a path untouched by the user.
LEMMA BroughtUntouched ==
  ASSUME IInv, Recorded, NEW p \in Paths, PathUntouched(p, file[p], manifest[p]),
         NEW plan, Brought(p, plan)
  PROVE  PathUntouched(p, plan.after, plan.entry)
<1> DEFINE f == file[p]
           e == manifest[p]
<1>0. /\ manifest[p] \in Entries /\ file[p] \in FileStates /\ release \in Releases /\ PathInv(p)
      /\ Files \cap Instructions = {} /\ Runtime \subseteq Files
      /\ Claimed(p) <=> e.own # "nobody"
      /\ Claimed(p) => Present(p) /\ Exact(p) /\ ~e.unresolved
      /\ ~Claimed(p) => Missing(p) \/ p \in Runtime
      /\ Present(p) => HasBlock(f.content)
  BY UntouchedFields, OwnershipAssumption DEF IInv, Shape, PathInv, PathOK, PathTyped
<1>1. /\ New(p).part = release
      /\ p \in Files => New(p).text = NoText
      /\ p \in Instructions => New(p).text = f.content.text
  BY <1>0, NewType DEF New, Source, InsertBlock, Content
<1>2. f.content.text = NoText
  <2>1. f.kind = "absent" => f.content.text = NoText
    BY <1>0, Kinds, OtherFiles
  <2> QED
    BY <1>0, <2>1, Kinds DEF PathUntouched
<1>3. New(p).part \in Releases /\ New(p).text = NoText
  BY <1>0, <1>1, <1>2 DEF Paths
<1>4. ASSUME NEW g, g.own # "nobody", g.content = New(p), g.mode = "private", ~g.unresolved,
             g.own = "created" \/ p \in Runtime
      PROVE  PathUntouched(p, File(New(p), "private"), g)
  BY <1>3, <1>4, FileIs DEF PathUntouched
<1>5. CASE plan = Create(p, New(p))
  <2>1. plan.after = File(New(p), "private")
        /\ plan.entry = Entry(New(p), "private", "created", Blank, "none")
    BY <1>5, PlanFields DEF Create
  <2> QED
    BY <1>4, <2>1, EntryIs
<1>6. CASE /\ Present(p) /\ (p \in Instructions => ~HasBlock(f.content))
           /\ Claimed(p) => Exact(p) /\ p \in Instructions
           /\ plan = Replace(p, New(p))
  <2>1. plan.after = File(New(p), "private")
        /\ plan.entry = Entry(New(p), "private", "replaced", f.content, f.mode)
    BY <1>6, PlanFields DEF Replace
  <2>2. p \in Runtime
    BY <1>0, <1>6 DEF Missing, Present
  <2> QED
    BY <1>4, <2>1, <2>2, EntryIs
<1>7. CASE Exact(p) /\ e.own \in {"created", "replaced"} /\ plan = Update(p, New(p))
  <2> DEFINE g == [e EXCEPT !.content = New(p), !.mode = "private", !.unresolved = FALSE]
  <2>1. plan.after = File(New(p), "private") /\ plan.entry = g
    BY <1>7, PlanFields DEF Update
  <2>2. g.own = e.own /\ g.content = New(p) /\ g.mode = "private" /\ ~g.unresolved
    BY <1>0 DEF Entries, NoEntry, Entry
  <2>3. e.own = "created" \/ p \in Runtime
    BY <1>7 DEF PathUntouched
  <2> HIDE DEF g
  <2> QED
    BY <1>4, <1>7, <2>1, <2>2, <2>3
<1>8. CASE Claimed(p) /\ plan = Keep(p)
  <2>1. [e EXCEPT !.unresolved = FALSE] = e
    BY <1>0, <1>8 DEF Claimed, Entries
  <2>2. plan.after = f /\ plan.entry = e
    BY <1>8, <2>1, PlanFields DEF Keep
  <2> QED
    BY <2>2
<1>9. CASE ~Claimed(p) /\ Present(p) /\ Adopted(p, plan)
  <2>1. p \in Runtime /\ f.kind = "regular"
    BY <1>0, <1>9 DEF Missing, Present
  <2> QED
    BY <1>9, <2>1 DEF Adopted, PathUntouched
<1> QED
  BY <1>5, <1>6, <1>7, <1>8, <1>9 DEF Brought

LEMMA LeftUntouched ==
  ASSUME IInv, NEW p \in Paths, PathUntouched(p, file[p], manifest[p]), NEW plan,
         \/ plan = Leave(p) /\ (~Claimed(p) \/ p \in Runtime)
         \/ Taken(p, plan) /\ p \notin Runtime
  PROVE  PathUntouched(p, plan.after, plan.entry)
<1>0. /\ NoEntry.own = "nobody" /\ Absent.kind = "absent"
      /\ Claimed(p) <=> manifest[p].own # "nobody"
      /\ ~Claimed(p) => Missing(p) \/ p \in Runtime
      /\ Files \cap Instructions = {}
  BY NoEntryType, OtherFiles, UntouchedFields, OwnershipAssumption
<1>1. CASE plan = Leave(p) /\ (~Claimed(p) \/ p \in Runtime)
  <2>1. plan.after = file[p] /\ plan.entry = NoEntry
    BY <1>1, PlanFields DEF Leave
  <2> QED
    BY <1>0, <1>1, <2>1 DEF PathUntouched, Missing
<1>2. CASE Taken(p, plan) /\ p \notin Runtime
  <2>1. manifest[p].own # "replaced"
    BY <1>2 DEF PathUntouched
  <2>2. \/ plan = Remove(p)
        \/ Present(p) /\ plan = WithoutBlock(p, file[p].mode)
    BY <1>2, <2>1 DEF Taken
  <2>3. Present(p) => WithoutBlock(p, file[p].mode) = Remove(p)
    <3>1. RemoveBlock(file[p].content).text = file[p].content.text
      BY DEF RemoveBlock, Content
    <3> QED
      BY <3>1 DEF WithoutBlock, PathUntouched, Present
  <2>4. plan.after = Absent /\ plan.entry = NoEntry
    BY <2>2, <2>3, PlanFields DEF Remove
  <2> QED
    BY <1>0, <2>4 DEF PathUntouched
<1> QED
  BY <1>1, <1>2

LEMMA UntouchedStep ==
  ASSUME IInv, Recorded, Untouched, ConflictsHaveACause, Next
  PROVE  Untouched' /\ ConflictsHaveACause'
<1>0. edits \in Nat
  BY OwnershipAssumption DEF IInv, Shape
<1>1. CASE \E options \in SUBSET Optional : Install(options)
  <2>1. PICK options \in SUBSET Optional : Install(options)
    BY <1>1
  <2> DEFINE plan == InstallPlan(options)
  <2>2. CASE /\ UNCHANGED <<file, manifest, kept, release, edits, mine, repeat>>
             /\ Exit(plan) # "success" /\ outcome' = Exit(plan)
    <3>1. Untouched'
      BY <2>2 DEF Untouched
    <3>2. ASSUME edits = 0, \A p \in Runtime : manifest[p].own # "preexisting"
          PROVE  FALSE
      <4>1. \A p \in Paths : PathUntouched(p, file[p], manifest[p])
        BY <3>2 DEF Untouched
      <4>2. \A p \in Paths : plan[p].op # "raise" /\ ~plan[p].conflict
        BY <3>2, <4>1, UntouchedInstall
      <4>3. \A p \in Paths : ~manifest[p].unresolved
        <5>1. NoEntry.unresolved = FALSE
          BY DEF NoEntry, Entry
        <5> QED
          BY <4>1, <5>1, UntouchedFields DEF Claimed
      <4>4. ~(\E p \in Paths : plan[p].op = "raise") /\ ~HasConflicts(plan)
        BY <4>2 DEF HasConflicts
      <4>5. Valid(plan)
        BY <4>3, <4>4, RejectedStep
      <4> HIDE DEF plan
      <4> QED
        BY <2>2, <4>4, <4>5 DEF Exit
    <3> QED
      BY <2>2, <3>1, <3>2 DEF ConflictsHaveACause
  <2>3. CASE /\ Apply(plan) /\ UNCHANGED <<release, edits, mine>> /\ outcome' = "success"
             /\ \A p \in Paths :
                  \/ p \in Selected(options) /\ Brought(p, plan[p])
                  \/ /\ p \notin Selected(options) /\ ~Claimed(p) /\ plan[p] = Leave(p)
                     /\ p \in Instructions => ~Unreadable(p)
                  \/ p \notin Selected(options) /\ p \notin Runtime /\ Taken(p, plan[p])
    <3>1. ASSUME NEW p \in Paths, PathUntouched(p, file[p], manifest[p])
          PROVE  PathUntouched(p, plan[p].after, plan[p].entry)
      <4> HIDE DEF plan
      <4> QED
        BY <2>3, <3>1, BroughtUntouched, LeftUntouched
    <3> HIDE DEF plan
    <3> QED
      BY <2>3, <3>1 DEF Apply, Untouched, ConflictsHaveACause
  <2> QED
    BY <2>1, <2>2, <2>3, InstallDoes
<1>2. CASE Uninstall
  <2>1. /\ Apply(UninstallPlan) /\ UNCHANGED edits
        /\ outcome' = IF HasConflicts(UninstallPlan) THEN "unresolved" ELSE "success"
    BY <1>2 DEF Uninstall, End
  <2>2. ASSUME NEW p \in Paths, PathUntouched(p, file[p], manifest[p])
        PROVE  /\ PathUntouched(p, UninstallPlan[p].after, UninstallPlan[p].entry)
               /\ ~UninstallPlan[p].conflict
    BY <2>2, UninstallDecides, UntouchedUninstall, LeftUntouched DEF IInv, Shape
  <2> QED
    BY <2>1, <2>2 DEF Apply, Untouched, ConflictsHaveACause, HasConflicts
<1>3. CASE Upgrade
  BY <1>3 DEF Upgrade, Untouched, ConflictsHaveACause
<1>4. CASE \E p \in Paths : Write(p) \/ Chmod(p) \/ Delete(p) \/ HardLink(p) \/ LinkAway(p)
  <2>1. edits' = edits + 1
    BY <1>4 DEF Write, Chmod, Delete, HardLink, LinkAway, Change
  <2> QED
    BY <1>0, <2>1 DEF Untouched, ConflictsHaveACause
<1> QED
  BY <1>1, <1>2, <1>3, <1>4 DEF Next

\* While the user changes nothing every path is as the commands left it, and an
\* install that is not applied has met a runtime file that was taken for his.
THEOREM UntouchedPathsAreOurs == Spec => [](Untouched /\ ConflictsHaveACause)
<1>1. Init => Untouched /\ ConflictsHaveACause
  <2> SUFFICES ASSUME Init PROVE \A p \in Paths : PathUntouched(p, file[p], manifest[p])
    BY DEF Init, Untouched, ConflictsHaveACause
  <2> QED
    BY OtherFiles, NoEntryType DEF Init, PathUntouched
<1>2. IInv /\ Recorded /\ (Untouched /\ ConflictsHaveACause) /\ [Next]_vars
        => (Untouched /\ ConflictsHaveACause)'
  <2>1. UNCHANGED vars /\ Untouched /\ ConflictsHaveACause => Untouched' /\ ConflictsHaveACause'
    BY DEF vars, Untouched, ConflictsHaveACause
  <2> QED
    BY <2>1, UntouchedStep
<1> QED
  BY <1>1, <1>2, EntriesTellWhatWas, OwnershipInvariant, PTL DEF Spec

\* The installer is in its own way only with runtime files: an uninstall leaves
\* them, the next install takes them for the user's, and a new release of them is a
\* conflict (_target_uninstall, _plan_regular_source).
THEOREM ConflictsAreCaused == Spec => []ConflictsHaveACause
BY UntouchedPathsAreOurs, PTL
-----------------------------------------------------------------------------
(* An uninstall goes through.                                               *)

\* What an uninstall plans of one path neither raises nor is rejected: an entry
\* that stays is as it was but for the reason, and its backup is there.
LEMMA UninstallPlanAccepted ==
  ASSUME release \in Releases, NEW p \in Paths, PathInv(p)
  PROVE  LET P == UninstallPlan[p]
         IN P.op # "raise" /\ (P.entry # NoEntry => Linked(p, P))
<1> DEFINE P == UninstallPlan[p]
<1>0. manifest[p] \in Entries /\ (manifest[p].own = "replaced" => <<p, manifest[p].saved>> \in kept)
  BY DEF PathInv, PathOK, PathTyped, PathSaved
<1>1. CASE P = Leave(p)
  <2>1. P.op = "none" /\ P.entry = NoEntry
    BY <1>1, PlanFields DEF Leave
  <2> QED
    BY <2>1
<1>2. CASE P = Conflict(p) /\ Claimed(p)
  <2> DEFINE e == [manifest[p] EXCEPT !.unresolved = TRUE]
  <2>1. P.op = "none" /\ P.entry = e
    BY <1>2 DEF Conflict, Leave, Plan
  <2>2. /\ e.unresolved /\ e.own = manifest[p].own /\ e.saved = manifest[p].saved
        /\ [e EXCEPT !.unresolved = FALSE] = [manifest[p] EXCEPT !.unresolved = FALSE]
    BY <1>0 DEF Entries, NoEntry, Entry
  <2> HIDE DEF P, e
  <2>3. Linked(p, P)
    BY <1>0, <1>2, <2>1, <2>2 DEF Linked
  <2> QED
    BY <2>1, <2>3 DEF P
<1>3. CASE Taken(p, P)
  <2>1. P.op \in {"remove", "restore", "remove-block"} /\ P.entry = NoEntry
    BY <1>3, PlanFields DEF Taken, Remove, WithoutBlock
  <2> QED
    BY <2>1
<1> QED
  BY <1>1, <1>2, <1>3, UninstallDecides

\* Whatever commands, releases and edits came before, an uninstall is planned to its
\* end, the backups it needs are there, and its plan passes the validation
\* (preflight_uninstall, _validate_manifest_linkage).
THEOREM UninstallsGoThrough == Spec => []UninstallGoesThrough
<1>1. IInv => UninstallGoesThrough
  <2> SUFFICES ASSUME IInv PROVE UninstallGoesThrough
    OBVIOUS
  <2>1. \A p \in Paths : /\ UninstallPlan[p].op # "raise"
                         /\ UninstallPlan[p].entry # NoEntry => Linked(p, UninstallPlan[p])
    BY UninstallPlanAccepted DEF IInv, Shape
  <2>2. Valid(UninstallPlan)
    BY <2>1 DEF Valid
  <2>3. Exit(UninstallPlan) \in {"success", "managed-conflict"}
    BY <2>1, <2>2 DEF Exit
  <2> QED
    BY <2>2, <2>3 DEF UninstallGoesThrough
<1> QED
  BY <1>1, OwnershipInvariant, PTL
=============================================================================
