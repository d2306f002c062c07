------------------------------ MODULE Ownership ------------------------------
(***************************************************************************)
(* Who owns which file of a client's home                                  *)
(* (src/subagents_configs/planning.py, blocks.py and the validation of a   *)
(* plan in transaction.py).                                                *)
(*                                                                         *)
(* An install or an uninstall looks at every managed path, at the manifest *)
(* and at the sources, and plans one operation per path or a conflict.  A  *)
(* plan is applied whole or not at all (Transaction); between two commands *)
(* the user changes files as he likes and the sources move to the next     *)
(* release.                                                                *)
(*                                                                         *)
(* The bytes of a file are abstracted to three things: the text the user   *)
(* wrote, whether it ends in a newline, and what is there of the           *)
(* installer.  In an instruction file the latter is a managed block amid   *)
(* the text, elsewhere the whole content.  Equal digests are equal bytes.  *)
(***************************************************************************)
EXTENDS Integers, FiniteSets

CONSTANTS
  Files,         \* destinations of a whole source: agents, gates, extensions
  Runtime,       \* those under .subagents_configs/validation
  Instructions,  \* the client's instruction file, destination of the block
  Optional,      \* the paths that are installed only on request
  Texts,         \* what the user may write
  MaxRelease,    \* releases of the sources, 1..MaxRelease
  MaxEdits       \* bound on what the user does

Paths == Files \cup Instructions
Releases == 1..MaxRelease
\* A file in which the user wrote nothing.
NoText == ""

ASSUME OwnershipAssumption ==
  /\ Files \cap Instructions = {} /\ Runtime \subseteq Files
  /\ Optional \subseteq Paths /\ Instructions \subseteq Optional
  /\ Runtime \cap Optional = {}
  /\ NoText \notin Texts
  /\ MaxRelease \in Nat \ {0} /\ MaxEdits \in Nat

\* What there is of the installer in a file: what a release installs, nothing,
\* or markers that do not form a block.  (To a plan a block the user changed is
\* the block of another release: neither is the recorded nor the proposed one.)
Nothing == 0
Broken == -1
Parts == Releases \cup {Nothing, Broken}

Contents == [text : Texts \cup {NoText}, ended : BOOLEAN, part : Parts]
Content(text, ended, part) == [text |-> text, ended |-> ended, part |-> part]
Blank == Content(NoText, FALSE, Nothing)

\* 0600 or narrower, and anything broader.
Modes == {"private", "broad"}

File(content, mode) ==
  [kind |-> "regular", content |-> content, mode |-> mode, links |-> 1]
Absent == [kind |-> "absent", content |-> Blank, mode |-> "none", links |-> 0]
Symlink == [kind |-> "link", content |-> Blank, mode |-> "none", links |-> 1]

\* A manifest entry: installed_hash, installed_mode, ownership, backup_hash,
\* original_mode, and whether it carries an unresolved_reason.
Entry(content, mode, own, saved, savedMode) ==
  [own |-> own, content |-> content, mode |-> mode,
   saved |-> saved, savedMode |-> savedMode, unresolved |-> FALSE]
NoEntry == Entry(Blank, "none", "nobody", Blank, "none")

VARIABLES
  file,      \* what is at each path
  manifest,  \* the entry of each path in the manifest of the home
  kept,      \* the permanent backups: <<path, content>>
  release,   \* the release of the sources in the repository
  edits,     \* how often the user has stepped in
  mine,      \* what the user last had at each path (history)
  repeat,    \* the options of an install nothing has followed (history)
  outcome    \* how the command ended that nothing has followed

vars == <<file, manifest, kept, release, edits, mine, repeat, outcome>>

-----------------------------------------------------------------------------
(* What a plan reads.                                                       *)

Claimed(p) == manifest[p] # NoEntry
Missing(p) == file[p].kind = "absent"
\* assert_safe_managed_path and read_regular refuse it.
Unsafe(p) == file[p].kind = "link"
Present(p) == file[p].kind = "regular"
\* Digest and mode are those of the entry.
Exact(p) == /\ Present(p)
            /\ file[p].content = manifest[p].content
            /\ file[p].mode = manifest[p].mode

Source(p) == Content(NoText, FALSE, release)
HasBlock(c) == c.part # Nothing
\* insert_or_replace_block: a block goes after the text, on a line of its own.
InsertBlock(c) == Content(c.text, c.ended \/ (c.text # NoText /\ ~HasBlock(c)), release)
\* remove_exact_block
RemoveBlock(c) == Content(c.text, c.ended, Nothing)

(***************************************************************************)
(* What a plan says of one path: the operation, the state after it, the    *)
(* entry of the resulting manifest, and whether there is a conflict.       *)
(***************************************************************************)
Plan(p, op, after, entry) ==
  [op |-> op, after |-> after, entry |-> entry, conflict |-> FALSE]
Leave(p) == Plan(p, "none", file[p], NoEntry)
Keep(p) == Plan(p, "none", file[p], [manifest[p] EXCEPT !.unresolved = FALSE])
Adopt(p) == Plan(p, "none", file[p],
  Entry(file[p].content, file[p].mode, "preexisting", Blank, "none"))
AdoptBlock(p) == [Adopt(p) EXCEPT !.entry.savedMode = file[p].mode]
\* The prior entry is retained with a reason; without one there is no entry.
Conflict(p) == [Leave(p) EXCEPT
  !.conflict = TRUE,
  !.entry = IF Claimed(p) THEN [manifest[p] EXCEPT !.unresolved = TRUE] ELSE NoEntry]
\* The planner raises: the command ends before there is a plan.
Raise(p) == Plan(p, "raise", file[p], NoEntry)

\* Mutant: the mode after a creation is taken from before it.
CreateWithPriorMode(p, content) ==
  Plan(p, "create", File(content, file[p].mode),
       Entry(content, file[p].mode, "created", Blank, "none"))
Create(p, content) ==
  Plan(p, "create", File(content, "private"),
       Entry(content, "private", "created", Blank, "none"))
\* Mutant: a replaced file keeps its mode.
ReplaceKeepingMode(p, content) ==
  Plan(p, "replace", File(content, file[p].mode),
       Entry(content, file[p].mode, "replaced", file[p].content, file[p].mode))
Replace(p, content) ==
  Plan(p, "replace", File(content, "private"),
       Entry(content, "private", "replaced", file[p].content, file[p].mode))
\* Mutant: an update leaves the digest of the entry as it was.
UpdateKeepingDigest(p, content) ==
  Plan(p, "replace", File(content, "private"), [manifest[p] EXCEPT !.mode = "private"])
\* Ownership and backup of the entry stay.
Update(p, content) ==
  Plan(p, "replace", File(content, "private"),
       [manifest[p] EXCEPT !.content = content, !.mode = "private",
                           !.unresolved = FALSE])
\* Mutant: the entry of a removed file stays.
RemoveKeepingEntry(p) == Plan(p, "remove", Absent, manifest[p])
Remove(p) == Plan(p, "remove", Absent, NoEntry)
\* Mutant: a file is restored with the mode of what was installed.
RestoreKeepingMode(p) ==
  Plan(p, "restore", File(manifest[p].saved, manifest[p].mode), NoEntry)
Restore(p) == IF <<p, manifest[p].saved>> \in kept
              THEN Plan(p, "restore", File(manifest[p].saved, manifest[p].savedMode), NoEntry)
              ELSE Raise(p)

\* _plan_regular_source
PlanRegularSource(p) ==
  LET Same == file[p].content = Source(p)
  IN CASE ~Claimed(p) /\ Missing(p) -> Create(p, Source(p))
       [] ~Claimed(p) /\ Unsafe(p) -> Raise(p)
       [] ~Claimed(p) /\ Present(p) /\ ~Same -> Replace(p, Source(p))
       [] ~Claimed(p) /\ Present(p) /\ Same /\ file[p].mode = "private" -> Adopt(p)
       [] Claimed(p) /\ Exact(p) /\ Same -> Keep(p)
       [] Claimed(p) /\ Exact(p) /\ ~Same /\ manifest[p].own # "preexisting" ->
            Update(p, Source(p))
       \* drift, missing, a link, a broad copy, or a new release of a copy
       [] OTHER -> Conflict(p)

\* _plan_block, of a file that is no link and has balanced markers.
PlanBlock(p) ==
  LET c == file[p].content
      Trusted == Present(p) /\ (Claimed(p) => Exact(p))
  IN CASE ~Claimed(p) /\ Missing(p) -> Create(p, InsertBlock(c))
       [] Trusted /\ ~HasBlock(c) -> Replace(p, InsertBlock(c))
       [] Trusted /\ HasBlock(c) /\ c.part # release
            /\ manifest[p].own \in {"created", "replaced"} -> Update(p, InsertBlock(c))
       [] Trusted /\ c.part = release /\ file[p].mode = "private" ->
            IF Claimed(p) THEN Keep(p) ELSE AdoptBlock(p)
       \* drift, missing, someone else's block, or a broad file
       [] OTHER -> Conflict(p)

\* What is left of a file the block is taken out of; nothing if it was all.
WithoutBlock(p, mode) ==
  IF RemoveBlock(file[p].content).text = NoText THEN Remove(p)
  ELSE Plan(p, "remove-block", File(RemoveBlock(file[p].content), mode), NoEntry)

\* _stale_install: a source that is no longer selected.
StaleInstall(p) ==
  CASE Exact(p) /\ manifest[p].own = "replaced" -> Restore(p)
    [] Exact(p) /\ manifest[p].own = "created" ->
         IF p \in Instructions THEN WithoutBlock(p, file[p].mode) ELSE Remove(p)
    [] OTHER -> Conflict(p)

\* _target_install.  The instruction file is looked at even if no block goes in.
Selected(options) == (Paths \ Optional) \cup options
Unreadable(p) == Unsafe(p) \/ file[p].content.part = Broken
InstallPlan(options) == [p \in Paths |->
  CASE p \in Instructions /\ Unreadable(p) -> Raise(p)
    [] p \in Files \cap Selected(options) -> PlanRegularSource(p)
    [] p \in Instructions \cap Selected(options) /\ ~Unreadable(p) -> PlanBlock(p)
    [] p \notin Selected(options) /\ ~(p \in Instructions /\ Unreadable(p)) ->
         IF Claimed(p) THEN StaleInstall(p) ELSE Leave(p)]

\* _target_uninstall
UninstallFile(p) ==
  CASE Exact(p) /\ manifest[p].own = "created" -> Remove(p)
    [] Exact(p) /\ manifest[p].own = "replaced" -> Restore(p)
    [] OTHER -> Conflict(p)
\* The text around the block may have changed, the block and the mode may not.
UninstallBlock(p) ==
  LET Ours == /\ Present(p) /\ file[p].mode = manifest[p].mode
              /\ file[p].content.part = manifest[p].content.part
  IN CASE Ours /\ manifest[p].own = "created" -> WithoutBlock(p, file[p].mode)
       [] Ours /\ manifest[p].own = "replaced" ->
            IF RemoveBlock(file[p].content).text = NoText /\ Exact(p) THEN Restore(p)
            ELSE IF <<p, manifest[p].saved>> \in kept
                 THEN Plan(p, "remove-block",
                           File(RemoveBlock(file[p].content), manifest[p].savedMode), NoEntry)
                 ELSE Raise(p)
       [] OTHER -> Conflict(p)
UninstallPlan == [p \in Paths |->
  CASE ~Claimed(p) \/ p \in Runtime -> Leave(p)
    [] Claimed(p) /\ p \notin Runtime /\ file[p].links # 1 -> Conflict(p)
    [] Claimed(p) /\ p \notin Runtime /\ file[p].links = 1 ->
         IF p \in Files THEN UninstallFile(p) ELSE UninstallBlock(p)]

-----------------------------------------------------------------------------
(* Applying a plan.                                                         *)

\* _validate_manifest_linkage, of one entry of the resulting manifest.
Linked(p, plan) ==
  /\ plan.op = "none" =>
       IF plan.entry.unresolved
       THEN Claimed(p) /\ [plan.entry EXCEPT !.unresolved = FALSE]
                            = [manifest[p] EXCEPT !.unresolved = FALSE]
       ELSE /\ Claimed(p) => plan.entry = manifest[p]
            /\ plan.entry.content = file[p].content /\ plan.entry.mode = file[p].mode
  /\ plan.op # "none" =>
       plan.entry.content = plan.after.content /\ plan.entry.mode = plan.after.mode
  /\ plan.entry.own = "replaced" =>
       LET There == <<p, plan.entry.saved>> \in kept
           SameBackup(e) == e.saved = plan.entry.saved /\ e.savedMode = plan.entry.savedMode
           Retained == There /\ manifest[p].own = "replaced" /\ SameBackup(manifest[p])
           OfBefore == SameBackup([saved |-> file[p].content, savedMode |-> file[p].mode])
       IN IF plan.op = "none" THEN There ELSE Retained \/ OfBefore
Valid(plan) == \A p \in Paths : plan[p].entry # NoEntry => Linked(p, plan[p])

\* Mutant: only the backups of the transaction are made.
NoBackups(plan) == {}
\* Mutant: one backup per path, whatever is replaced later.
BackupsOnce(plan) == {<<p, plan[p].entry.saved>> :
  p \in {q \in Paths : /\ plan[q].op = "replace" /\ plan[q].entry.own = "replaced"
                       /\ \A b \in kept : b[1] # q}}
\* _ensure_permanent_backup
Backups(plan) == {<<p, plan[p].entry.saved>> :
  p \in {q \in Paths : plan[q].op = "replace" /\ plan[q].entry.own = "replaced"}}

Apply(plan) ==
  /\ file' = [p \in Paths |-> plan[p].after]
  /\ manifest' = [p \in Paths |-> plan[p].entry]
  /\ kept' = kept \cup Backups(plan)

\* How an install with this plan ends: the planner raises, a conflict is
\* reported, the plan is rejected while it is applied, or it is applied.
HasConflicts(plan) == \E p \in Paths : plan[p].conflict
Exit(plan) ==
  CASE \E p \in Paths : plan[p].op = "raise" -> "preflight-error"
    [] OTHER -> IF HasConflicts(plan) THEN "managed-conflict"
                ELSE IF ~Valid(plan) THEN "apply-error" ELSE "success"
End(exit, options) ==
  outcome' = exit /\ repeat' = options /\ UNCHANGED <<release, edits, mine>>

Install(options) ==
  LET plan == InstallPlan(options)
      exit == Exit(plan)
  IN \/ exit = "success" /\ Apply(plan) /\ End(exit, {options})
     \/ exit # "success" /\ End(exit, repeat) /\ UNCHANGED <<file, manifest, kept>>

\* Conflicts do not stop an uninstall: what they are about is retained.  Nothing
\* else does (UninstallGoesThrough); one that raised or were rejected would change nothing.
Uninstall ==
  /\ Exit(UninstallPlan) \in {"success", "managed-conflict"} /\ Valid(UninstallPlan)
  /\ Apply(UninstallPlan)
  /\ End(IF HasConflicts(UninstallPlan) THEN "unresolved" ELSE "success", {})

-----------------------------------------------------------------------------
(* Between two commands.                                                    *)

\* What the user has at p once f is there.  A block is not his, nor is what the
\* installer put there: putting that back leaves him with what he had before.
Remembered(p, f) ==
  LET e == manifest[p]
      SameBytes == Present(p) /\ f.kind = "regular" /\ f.content = file[p].content
      PutBack == f.kind = "regular" /\ f.content = e.content
                                    /\ e.own \in {"created", "replaced"}
  IN CASE SameBytes ->
            IF Claimed(p) \/ mine[p].kind # "regular" THEN mine[p]
            ELSE [mine[p] EXCEPT !.mode = f.mode]
       [] ~SameBytes /\ PutBack ->
            IF e.own = "created" THEN Absent ELSE File(e.saved, e.savedMode)
       [] ~SameBytes /\ ~PutBack /\ f.kind = "regular" ->
            File(IF p \in Files THEN f.content ELSE RemoveBlock(f.content), f.mode)
       [] f.kind # "regular" -> f

Change(p, f) ==
  /\ edits < MaxEdits /\ edits' = edits + 1
  /\ f # file[p] /\ file' = [file EXCEPT ![p] = f]
  /\ mine' = [mine EXCEPT ![p] = Remembered(p, f)]
  /\ repeat' = {} /\ outcome' = "none"
  /\ UNCHANGED <<manifest, kept, release>>

\* He writes text of his own or a copy of what some release installs; in an
\* instruction file he may also drop or spoil the block, or paste one.
Writings(p) ==
  IF p \in Files
  THEN {Content(t, TRUE, Nothing) : t \in Texts} \cup
       {Content(NoText, FALSE, r) : r \in Releases}
  ELSE {c \in Contents : /\ c.text = NoText => ~c.ended
                         /\ c.text # NoText /\ c.part # Nothing => c.ended}

Write(p) == \E c \in Writings(p), mode \in Modes :
  /\ Present(p) => mode = file[p].mode /\ c # file[p].content
  /\ Change(p, IF Present(p) THEN [file[p] EXCEPT !.content = c] ELSE File(c, mode))
Chmod(p) == Present(p) /\ \E mode \in Modes : Change(p, [file[p] EXCEPT !.mode = mode])
Delete(p) == ~Missing(p) /\ Change(p, Absent)
HardLink(p) == Present(p) /\ Change(p, [file[p] EXCEPT !.links = 2])
LinkAway(p) == Change(p, Symlink)

Upgrade ==
  /\ release < MaxRelease /\ release' = release + 1
  /\ repeat' = {} /\ outcome' = "none"
  /\ UNCHANGED <<file, manifest, kept, edits, mine>>

Init ==
  /\ file = [p \in Paths |-> Absent] /\ manifest = [p \in Paths |-> NoEntry]
  /\ kept = {} /\ release = 1 /\ edits = 0
  /\ mine = [p \in Paths |-> Absent] /\ repeat = {} /\ outcome = "none"

Next ==
  \/ \E options \in SUBSET Optional : Install(options)
  \/ Uninstall
  \/ Upgrade
  \/ \E p \in Paths : Write(p) \/ Chmod(p) \/ Delete(p) \/ HardLink(p) \/ LinkAway(p)

Spec == Init /\ [][Next]_vars

-----------------------------------------------------------------------------
(* Properties.                                                              *)

FileStates == {Absent, Symlink} \cup
  [kind : {"regular"}, content : Contents, mode : Modes, links : 1..2]
Entries == {NoEntry} \cup
  [own : {"created", "preexisting"}, content : Contents, mode : Modes,
   saved : {Blank}, savedMode : Modes \cup {"none"}, unresolved : BOOLEAN] \cup
  [own : {"replaced"}, content : Contents, mode : Modes,
   saved : Contents, savedMode : Modes, unresolved : BOOLEAN]
Outcomes == {"none", "success", "preflight-error", "managed-conflict", "apply-error",
             "unresolved"}

\* The variables have their types.
TypeOK ==
  /\ file \in [Paths -> FileStates] /\ manifest \in [Paths -> Entries]
  /\ kept \subseteq Paths \X Contents /\ release \in Releases
  /\ edits \in 0..MaxEdits /\ mine \in [Paths -> FileStates]
  /\ repeat \subseteq SUBSET Optional /\ outcome \in Outcomes

\* c holds what the user had in m, at most with a newline more at the end.
Holds(p, c, m) ==
  /\ c.text = m.text /\ (m.ended => c.ended)
  /\ p \in Files => c.part = m.part

\* What the user last had at a path is at that path or in a permanent backup,
\* whatever commands and releases followed: no plan overwrites, restores over
\* or removes a file of his without a backup, nor follows a link of his.
NothingLost == \A p \in Paths :
  /\ mine[p].kind = "link" => file[p].kind = "link"
  /\ mine[p].kind = "regular" =>
       \/ Holds(p, file[p].content, mine[p].content)
       \/ \E b \in kept : b[1] = p /\ Holds(p, b[2], mine[p].content)

\* A path the manifest lets go of is back as the user last had it, with
\* nothing of the installer left in it (uninstall, or a source deselected).
\* The runtime files, which an uninstall leaves, are the exception.
GivenBack(p) ==
  IF p \in Files THEN file[p].kind = mine[p].kind /\ file[p].content = mine[p].content
                                                  /\ file[p].mode = mine[p].mode
  ELSE /\ Holds(p, file[p].content, mine[p].content) /\ ~HasBlock(file[p].content)
       /\ mine[p].kind = "absent" => file[p].kind = "absent"
RoundTrip == [][\A p \in Paths \ Runtime :
  Claimed(p) /\ ~Claimed(p)' => GivenBack(p)']_vars

\* An install that nothing followed has put the release in place, privately,
\* has let go of all that was not selected, and plans nothing when repeated:
\* no write, no backup, no change of the manifest, and the plan is accepted.
InstallSettles == \A options \in repeat :
  /\ \A p \in Selected(options) :
       Exact(p) /\ file[p].content.part = release /\ file[p].mode = "private"
  /\ \A p \in Paths \ Selected(options) : ~Claimed(p)
  /\ LET plan == InstallPlan(options)
     IN Valid(plan) /\ \A p \in Paths : plan[p] = Plan(p, "none", file[p], manifest[p])

\* A plan without conflicts is rejected only if an uninstall retained an entry.
RejectedOnlyAfterRetained ==
  outcome = "apply-error" => \E p \in Paths : manifest[p].unresolved

\* Whatever was installed, upgraded and edited before: planning an uninstall never
\* raises, not for a backup it needs either, and its plan is never rejected.
UninstallGoesThrough ==
  Exit(UninstallPlan) \in {"success", "managed-conflict"} /\ Valid(UninstallPlan)

\* As long as the user has changed nothing the installer is in its own way
\* only with runtime files: kept by an uninstall, they were taken for the
\* user's by the next install, and a new release of them is a conflict.
ConflictsHaveACause ==
  edits = 0 /\ outcome \notin {"none", "success"} =>
    \E p \in Runtime : manifest[p].own = "preexisting"
=============================================================================
