# Verification of the subagents_configs installer

The program distributes agent definitions, hooks and instructions to the homes
of four clients (Codex, OpenCode, Claude Code, Pi). One invocation changes files
in several homes as one transaction, keeps a manifest of what it owns in each
home, recovers what an earlier invocation left behind, and never touches what
the user wrote. This directory holds TLA+ models of the parts where that is hard,
the TLC configurations that check them and TLAPS proofs about them. Paths below
are relative to the repository.

## 1. Inventory

| Component | State it keeps | Operations | Interacts with | What makes it correct |
|---|---|---|---|---|
| Transaction engine `subagents_configs/transaction.py` | managed files, transaction backups, one journal per home, three anchor files per home | prepare, apply, rollback, stage (seal) and remove journals | filesystem primitives, locks, recovery | all-or-nothing across homes; user edits survive; journals always recoverable |
| Recovery `recovery.py` | none of its own: reads and finishes what it finds | classify, seal, remove survivors, roll back | transaction engine, orchestrator | finishes or refuses; never decides anew; no write before everything is proved |
| Target locks `locks.py` | lock anchors in homes, flocks of homes and anchors, table of held anchors, lease of the context | open or publish a home, lock, check, release | everything that writes | one writer per home; nobody refused or blocked without cause |
| Filesystem primitives `filesystem.py` | files; temporaries and quarantine links; command cache | compare-and-swap, in-place rewrite, directory creation and removal, captured reads | all | only a file with the expected identity is replaced; nothing of the user is lost |
| Orchestrator `orchestrator.py` | none | recover, plan, dry run, external Pi phases, apply, exit status | all | recovery before planning; dry run is stable; the exit status is true |
| Planning and ownership `planning.py`, `blocks.py`, `compatibility.py` | manifests | plan install, uninstall, restore; managed blocks | transaction engine | what the user changed is kept and reported |
| Pi package `pi_package.py`, `pi_effective.py`, `pi_catalog.py` | external package inventory | install, verify, remove, postconditions | orchestrator, external program | both the package and the local files, or neither |
| State schema and models `state_schema.py`, `models.py`, `state.py` | none | encode, decode, validate, migrate | transaction engine, recovery | decode after encode; refuse the rest |
| Catalog and rendering `catalog_policy.py`, `formats.py`, `profiles.py`, `targets.py`, `paths.py` | none | parse, render, select | planning | pure functions |
| Command line `cli.py`, `diagnostics.py` | none | parse, print | orchestrator | pure functions |
| Validation isolation `scripts/validation_isolation/` | a private directory, a copy, child processes | look, copy, run, look again, remove | Git, the command, other programs in the temporary directory | what was tested is the checkout; only its own directory is removed, and all of it |
| Hook and extension `claude-code/hooks/`, `pi/` | none | decide one tool call | external clients | pure function |

Hard behaviours: kills between any two system calls; exceptions out of any of
them, also during rollback and recovery; the user editing files while a
transaction runs; several installers at once; homes that are created, moved or
replaced while they are being locked; recovery that is killed and retried.
`PROJECT.json` lists every hazard with the line where it bites and the
properties that would catch it.

## 2. Modules

| Module | Models | Kind |
|---|---|---|
| `Transaction` | `transaction.py`, `recovery.py`, journal groups and exit statuses of `orchestrator.py` | state machine |
| `AtomicCommit` | what a transaction promises: a group that is changed, decided once and reported | abstract specification |
| `TransactionRefinesCommit` | the refinement mapping from the first to the second | composition |
| `TransactionProofs` | theorems about `Transaction`, and that it implements `AtomicCommit` | proofs |
| `TransactionRecoveryProofs` | theorems about what a recovery finds while no system call raises | proofs |
| `TargetLocks` | `locks.py`, `locked_target_homes` with everything it calls | state machine |
| `TargetLocksProofs` | theorems about `TargetLocks` | proofs |
| `CompareAndSwap` | `compare_and_swap` of `filesystem.py` with the helpers for quarantines and temporaries, system call by system call | state machine |
| `CompareAndSwapProofs` | theorems about `CompareAndSwap` | proofs |
| `Ownership` | plans of install and uninstall (`planning.py`, `blocks.py`) and the validation of a plan in `transaction.py` | state machine |
| `OwnershipProofs` | theorems about `Ownership` | proofs |
| `PiLifecycle` | the external Pi package around the local transaction: `pi_package.py`, `pi_effective.py`, the Pi phases of `orchestrator.py` and `planning.py` | state machine |
| `PiLifecycleProofs` | theorems about `PiLifecycle` | proofs |
| `DryRun` | the dry run of `orchestrator.py` against another process and the user | state machine |
| `DryRunProofs` | theorems about `DryRun` | proofs |
| `ValidationIsolation` | `scripts/validation_isolation/` | state machine |
| `ValidationIsolationProofs` | theorems about `ValidationIsolation` | proofs |
| `MC...` | constants for TLC | model checking |

### Transaction

State on disk: `file[o]` what operation o's path holds, as identities (the code
compares device, inode, size, links, mode and hash; contents are abstracted);
`backup[o]`; per home the journal as its `rollback_status` (`jrb`), its entries
(`jent`: status, expected_before_evidence, expected_after_evidence) and the
evidence it stores of all anchors (`jslot`); `debris`, whether a killed or raising
process left a second name in a directory every command inventories; per home the two alternating
progress slots (`slot`), each a progress root (sequence, digest of a journal), a
cleanup root, torn, or absent. The third anchor, the base root, never changes
after the seal and is left out. In memory: the loops' position (`op`, `home`),
what is being written (`task`), the journals (`ment`, `mslot`), whether the held
identity of a journal is that of the file (`fresh`), `rollback_error` (`err`).

One action is one system call or one stretch of code that reads only:

| Code | Actions |
|---|---|
| `_collect_readonly_evidence`, `_prepare`, `_cleanup_preparation` | `Prepare`, `CreateJournal`, `Unprepare` |
| `_write_progress_journal`, `_transition_commitment_anchor_slot`, `rewrite_regular_in_place` | `RootOpen`, `RootWrite`, `RootRefused` |
| `_write_journal` (a compare-and-swap: unlink, link) | `JournalDetach`, `JournalInstall` |
| `_apply_operation`, `_reverse_operation`, `compare_and_swap` | `CasLink`, `CasLook`, `CasUnlink`, `CasInstall`, `CasSettle`, `Reverse` |
| the loops of apply, `_rollback` and recovery | `ToApply`, `ToReverse`, `ToBulk`, `AfterJournal`, `AfterSeal` |
| every `except` | `Raise` |
| `_stage_cleanup_group`, `_sync_and_remove_journal`, `_remove_cleanup_commitment_markers` | `Stage`, `LinkBackup`, `RemoveBackup`, `RemoveJournal`, `RemoveMarks` |
| `_journal_groups`, `recover_participants_impl` up to its first write | `Recover` |
| kill; exception before or after a call's effect; the user | `Crash`, `FaultBefore`, `FaultAfter`, `UserEdit` |

Rollback of the running process and of a recovery share actions, told apart by
`mode`, because they run the same helpers in the same order; where they differ
(error handling, the condition for staging) the actions have alternatives.

The compare-and-swap of a managed file is five steps. The last look (`CasLook`,
`filesystem.py:702`, `577`) and the unlink by name (`CasUnlink`, `708`, `581`) are two:
what the user puts at the path in between is unlinked. `EditsSurvive` names that
window and one more, the unlink in the clean-up of a replacement that raised after
its link; `CompareAndSwap` looks at both more closely (`LostOnlyInWindow`).

The state directory and the home itself are inventoried by every command, which
refuses a name it does not know (`_inventory_state_fd`, `state_schema.py:1048`). So a
temporary or a quarantine left there by a kill blocks every later command on that home.
`Naming` says at which steps there is such a name (for managed files: those whose
directory is inventoried, `Listed`), and `KilledJournal` what a kill in the creation,
replacement or removal of a journal leaves. A backup that is being unlinked has a
second link, which `_validated_journal_evidence` refuses (`transaction.py:2618`): that is
`LinkBackup`. These, with a file whose new identity is not durable and journals being
created or withdrawn, are the five windows of `RefusalJustified`.

### TargetLocks

A context goes through the homes of its `Route` one after the other. Directories
and anchors are inodes, so that deleting and creating an anchor, or moving a home
away and another one in, gives a different inode under the same name. `Look` to
`Rmdir` are `_prepare_home` and `_create_and_publish_home`, `OpenAnchor` to
`CheckAnchor` the loop of `locked_target_homes`, `Undo` its inner exception
handler and `Release` its `finally`. `Validate` is `_validate_target_sequence`, which
refuses targets that are not in the order of the registry (`Rank`) before anything is
opened: that, and not luck, keeps two contexts from waiting for each other. `_directory_binding` compares the change
time of a directory, which `ctime` counts. Contexts of one process share the
table of `_reserve_anchor`; `Interpreter` says which those are. Re-entrant use
(a context that already holds a lease) either yields at once or raises, without
changing any state, and is left out. `Kill` and `Meddle` are the operating
system's and the user's.

### CompareAndSwap

`Transaction` treats a mutation as five steps, of which only the last look is told
apart from the call it guards. `CompareAndSwap` opens all of them up: three names and their inodes, the
temporary and the quarantine link, every look and every call a step of its own,
the exception handlers with the rollback of an installed replacement and the
restoration of the quarantine. The user edits the file in place (also through a
descriptor he opened before), puts another at the path, takes it away or links
it elsewhere between any two steps. A kill needs no action of its own: the
properties hold after every step. Evidence is read in one step, as
`_evidence_from_descriptor` compares two stats around the reading. Repeated looks
of one helper at the same name (`_remove_owned_entry`) are one. `chmod` is left
out, no caller asks for it; an exception comes out of a system call, not between
the call and the assignment that records it.

`FailedLeaves` is the link between the two models: what one exception leaves at
the path is what `CasLeft` of `Transaction` allows. `LostOnlyInWindow` says what a look
is worth: between a look and the unlink it guards there is a window no portable system call closes (the code says so itself at
`filesystem.py:1069`), and a fifth window, `capture`, that only exists because the
data of the detached file is not compared. Each of the five is needed: without any
of them TLC finds the loss.

### Ownership

A command is one step here: `Transaction` is about its steps, this module about
sequences of commands with edits and releases in between. The state is what the
next command finds: the files, the manifest, the permanent backups and the
release of the sources. `mine`, `repeat` and `outcome` are history.

| Code | Definitions |
|---|---|
| `_plan_regular_source`, `_plan_block` | `PlanRegularSource`, `PlanBlock` |
| `_stale_install`, `_target_install` | `StaleInstall`, `InstallPlan` |
| `_target_uninstall` | `UninstallFile`, `UninstallBlock`, `UninstallPlan` |
| `insert_or_replace_block`, `remove_exact_block` | `InsertBlock`, `RemoveBlock` |
| `_validate_plan`, `_validate_manifest_linkage` | `Valid`, `Linked` |
| `_ensure_permanent_backup`, `_apply_operation` | `Backups`, `Apply` |
| the commands; the user; a new checkout | `Install`, `Uninstall`; `Write` to `LinkAway`; `Upgrade` |

The bytes of a file are its text, whether the text ends in a newline, and what
is there of the installer: nothing, a release, or markers that form no block. Of a
block the plans ask whether it is the recorded or the proposed one, so a block the
user changed is that of another release. One text of the user is enough: the
empty text and the copies of releases tell two versions of a file apart.

An uninstall never raises and is never rejected, whatever came before it:
`UninstallGoesThrough`, which is why `Uninstall` has no alternative that fails.

Two behaviours are worth knowing that contradict no document. Runtime files stay
after an uninstall and lose their entries, so the next install adopts them as the
user's and the next release of them is a conflict: the second disjunct of
`ConflictsHaveACause`. And an uninstall that takes a block out of an edited text that
had no final newline leaves one, which `Holds` allows.

### PiLifecycle

One action is one call of a phase of the installer (`Recover`, `PlanInstall`,
`PlanUninstall`, `Probe` to `Unrecord`, in the order of `_run_mutating_locked`); an
install runs `External`, `Spawn`, `Start`, `Exited` or `Timeout`, `Verify`,
`Postcondition`, `Package`, `Catalog`, `Store`, `Stored`, `Record`, `Apply`, `Applied`,
`Local`, an uninstall with `--remove-pi-package` the local transaction first, then
`Probe`, `Removal`, the command, `Removed` and `Unrecord`. `Raise` is any call that
fails. The package is what an inspection tells apart: the entry in
`settings.json`, the rest of that file, and the store under `npm/`; an inspection
is one step. `Works` is one step of `pi install` or `pi remove`, which run as long as
they like, also after their installer was killed (they have a session of their
own, so `Kill` turns the command into an orphan that holds no lock). The local
transaction is that of `AtomicCommit`, with one managed file for all of them.

The compatibility gate refuses every Pi request in this commit (no version of Pi
is in `catalogs/client-compatibility.json`, see `compatibility.py:400` and
`README.md:367`). `Begin` passes the gate or ends with 3, so what is behind it is
checked as if a version were supported.

### DryRun

A collection reads journals, then each target's manifest and files, twice, and the
closing collection does so twice again; each read is a step (`Read`) between steps
of another process's transaction (`Plan` to `Recover`, what of `Transaction` a reader
can see) and edits. A difference ends the run at once: the code ends with 3 as
well, a few reads later. What counts is content, not the identity of inodes. A
command cache belongs to one plan and answers from the one read of each path, so
a plan reads each path once. `moments` collects what a plan would have been at each
moment of the current collection, `edits` which files were edited since it began,
whether one was edited twice, which transaction is the first it may meet, and whether
a look at a journal was `missed`.

The other process replaces a file, a manifest and a journal as `compare_and_swap`
does: what is there is unlinked (`Apply`, `Undo`, `Detach`), then the new content is
linked (`Place`, `Restore`, `Attach`, `Seal`). A journal is rewritten for every status,
any number of times here (`Rewritten`). While it is between its names the directory
holds its temporary and its quarantine, and a reader that lists the directory then is
refused (`Refused`, for a kill; for a running writer the refusal is `Raise`); a look
that falls there just the same, because the listing came before, finds no journal
(`Missed`). A kill in that window leaves names and no journal (`litter`, `away`): every
later command on that home is refused, so a reader cannot take it for a home without
a transaction, and no recovery resumes it. The rollback goes on after an operation it
cannot undo, as `_rollback` does, and stages nothing then (`Halts`, `Undone`); the
rollback of a recovery stops there.

What a reader compares, it compares by content: a file that is changed and changed
back between its reads looks as if nothing had happened. `Concealed` says when that can
be: beside the collection a file is edited twice, or there are two transactions, or one
transaction and edits of two files, between which it may hide what it changed; or a
journal was looked for just while it was between its names. `ReportIsOfOneMoment` leaves
these collections out, and the proof shows that nothing else conceals; transactions
that ended before the collection do not count.

A report of a conflict is about more than its last collection. Four transactions of
another process, one for each plan of the dry run, that fail and are rolled back, each
aligned with one plan, make a home whose file is changed and whose manifest is not yet
look like a conflict four times over. `NoPhantomConflict` says that it takes four as
long as no look at a journal is missed, and the proof that it takes no fewer; the run
shows both properties beside one. With misses one transaction is enough, if all looks
at its journals fall between their names. Text output of pending recovery is printed
without a collection after the rendering.

In three places the model lets the other process do more than the code: statuses of
operations are not kept, so a recovery may find any journal that is not sealed fit to
be rolled back; a kill while a manifest is being replaced may leave no name behind; and
how often a journal is rewritten is open. A failing write of an `ambiguous` status has
no step of its own. The planner's own look at the journal, in the middle of a plan, is
left out: it could only end the run more often.

### ValidationIsolation

`stage` follows `run_isolated`: a look at the checkout (status, tracked and untracked
lists, file by file), the copy, the probe, the command, a second look, the
comparison, and `cleanup_validation_root` system call by system call. `place` says
what has the name of the private directory, the quarantine's or none, for the run's
own directory and for one of somebody else, which may be empty or hold files; `held`
which of them the run has open. `Move` is anybody renaming either; `late` records which
was moved after the run's last look at the quarantine's name (`Recheck`,
`runner.py:223`). The `rmdir` that follows (`runner.py:227`) is by name: an empty directory
that came there late is removed in the place of the private one, and the result is
"cleaned", as the comparison at `runner.py:228` is of the held descriptor with itself.
`SuccessLeavesNothing` and `OthersKept` name that window and allow nothing else.
Only the process it started is killed at the deadline, so a process of the command
may write on (`Write`). A read of one file is one step, as the code compares two
stats around it. Checks of the sandbox, ancestors, modes and owners can only
refuse: `Refuse`.

Two kinds of edits no comparison of two looks can show: a path that is changed and
changed back, and one that is added to Git's index between the list of what is
tracked and the list of what is not. `unseen` records them, and `TestedIsTheCheckout` says that without them what was
tested is what the checkout held at one moment. The program does not recover from
a kill of its own; the private directory then stays.

## 3. Runs

| Run | Instance | What it shows |
|---|---|---|
| `Transaction_crash` | 3 homes, 5 operations (create, replace, remove), 3 kills | `WriteAhead`, `JournalBacked`, `DecisionUniform`, `PrefixApplied`, `RefusalJustified` |
| `Transaction_edits` | 2 homes, reinstallation, 1 kill, 1 exception, 2 user edits | `SettledAtomic`, `EditsSurvive`, `SealedFreezesFiles` |
| `TransactionRefinesCommit` | 2 homes, 3 operations, 2 kills (none while a journal is between its names), 2 exceptions, fairness | `ImplementsAtomicCommit`, `BackupKept`, `EventuallySettled` |
| `TargetLocks_existing` | 3 contexts, 2 processes, 2 existing homes, 2 contexts lock both; 1 interference, 1 kill | `MutualExclusion`, `RefusalJustified`, `NothingLeftLocked` |
| `TargetLocks_absent` | 3 contexts, 2 processes; 2 contexts lock both homes, 1 asks for them in the opposite order; 1 home exists, 1 is created; 1 interference, 1 exception, 1 kill, fairness | `LockedHomeStays`, `EventuallyThrough` |
| `CompareAndSwap` | create, replace and unlink; 3 steps of the user, 2 exceptions | `FailedLeaves`, `LostOnlyInWindow`, `OriginalKept`, `SuccessExact` |
| `Ownership` | a runtime file, an optional file, an instruction file; 2 releases, 3 steps of the user | `NothingLost`, `RoundTrip`, `InstallSettles`, `RejectedOnlyAfterRetained`, `UninstallGoesThrough`, `ConflictsHaveACause` |
| `PiLifecycle` | any number of invocations, kills and releases; 1 step of the user on the package, 1 orphaned command at a time, fairness | `OwnershipProved`, `FilesHaveTheirPackage`, `SuccessIsTrue`, `ReceiptOutlivesPackage`, `InvocationEnds` |
| `DryRun` | 2 homes, both installed or one with a foreign file; 1 dry run of an install after another, 1 transaction of another process, 1 kill, failed undoing or edit | `ReportIsOfOneMoment`, `NoPhantomConflict` |
| `ValidationIsolation` | 2 paths, 3 edits, 3 moves of temporary directories, the other one empty or not | `TestedIsTheCheckout`, `SuccessLeavesNothing`, `OthersKept` |

Each property is stated and explained where it is defined. `Transaction_crash`,
`TargetLocks_existing`, `Ownership` and `PiLifecycle` also check the type invariant of
their module. `PROJECT.json` gives for each property a
mutant of the code the run must catch.

Two runs expect a violation. They check a sentence of the documentation, and TLC
shows a behaviour of the code that breaks it; the findings in `PROJECT.json` quote
the sentence:

* `Transaction_InterruptionKeepsJournal`: a kill while a journal is replaced leaves no
  journal, the one behaviour that breaks atomicity; `SettledAtomic` holds otherwise. The
  names the replacement leaves make every later command refuse that home, so it is
  noticed, but never recovered. The trace is a kill while applying; a rollback rewrites
  its journals with the same helper;
* `PiLifecycle_InstalledIsRecorded`: an install that is killed between the package
  command and the receipt is followed by one that succeeds, finds the package exact
  and leaves no receipt, so the package can never be removed by the installer.

Findings without a run are disagreements met while modelling:

* an exception in the cleanup of a committed transaction is reported as rolled
  back, or the transaction is rolled back after it was reported as committed
  (`transaction.py:2794`, `2795`);
* an entry whose reversal and whose marking both failed is marked rolled back
  (`transaction.py:2691`), and recovery that fails on its sealing path after writing
  is reported as blocked before a write (`recovery.py:150`);
* an edit in place between the last look at a path and the look at what was
  detached is destroyed, because only the number of links is compared then
  (`filesystem.py:713`, the window `capture` of `CompareAndSwap`);
* after an uninstall that retained an entry every install is rejected while it
  is applied, though its plan has no conflict (`transaction.py:1187`);
* an install of the Pi target from the repository's own checkout always ends with a
  catalog conflict, because the checkout has `agents/` (`pi_effective.py:704`), and so
  does one with an unrelated package beside the pinned one (`pi_effective.py:590`);
* the validation helper looks at the checkout before its cleanup, never after
  (`runner.py:402`), and what it compares after its `rmdir` cannot tell which directory
  was removed (`runner.py:228`).

The lock and commit runs share their instances between safety and liveness: the
bounds are large enough that no action waits for a bound that is used up.

### Bounds and why they are enough

Two homes are the least with a group; three let a home be before, at and after
the one a loop has reached, so both kinds of absent journals occur together.
Homes have one or two operations: the order within a home and across homes both
matter. Kinds are mixed so that each of create, replace and remove is mutated
and reversed. One kill reaches recovery, two reach recovery of a recovery, three
the recovery of a retried seal. Two exceptions are the least for a failing
exception handler (`_rollback` marks an operation ambiguous in a handler). Two
edits change a file and change it back or away. Sequence numbers are bounded by
the number of journal writes. In `TargetLocks` inodes are bounded by the
constants `MaxDirs` and `MaxAnchors`, chosen above what the interferences allowed
can use up where liveness is checked; elsewhere a creation that would need one
more does not happen. `CompareAndSwap` is not bounded but by the user's steps and
the exceptions: two exceptions make one fail and its handler fail, three steps of
the user let him take a name away, put another file there and edit it. In
`Ownership` commands are not bounded; three steps of the user let him prepare a file,
change it while it is managed and change it again after a conflict; one of the two
whole files is optional and given back, the other is left by an uninstall.

In `PiLifecycle` invocations, kills, releases and edits of the managed file are not
bounded; one step of the user on package, settings or receipt is enough for each
check to fail at each place, and `settings.json` holds nothing else, something the
catalog objects to, or something the inspection refuses. In `DryRun` one transaction
of the other process, an install or an uninstall, with one kill gives every order of
its own steps, the recovery and the reads; or one edit lets a file differ between any
two reads. The kill and the edit are not combined, nor more than one transaction; the
proofs cover these.
`ValidationIsolation` holds with four edits too, and with a third, protected path and
two moves. No run uses symmetry: homes, paths and operations are ordered.

### Fairness

`Transaction!FairSpec`: the running process takes its next step (weak fairness
of `Process`) and the user re-runs the installer while journals are left (weak
fairness of `Recover`). Nothing makes kills, exceptions or edits happen, and
nothing stops them before their bound. `TargetLocks!FairSpec`: every context is
scheduled; a flock is granted if it stays free, which weak fairness says, and
contexts lock each home once, so no strong fairness is needed. `PiLifecycle!Spec`:
an invocation that runs takes its next step (weak fairness of `Proceed`, with the
deadline of a command in it), whether or not the command ever ends; no one must
start an invocation. The other modules state no fairness and no liveness.

Deadlock checking is off in the runs of `Transaction`, `TargetLocks` and
`CompareAndSwap`, which stop when all is done, and on in the others: installs can
always be repeated, dry runs too, and a validation ends in a stage that stutters.

## 4. Proofs

`TransactionProofs` (for every number of homes and operations, kinds, kills,
exceptions and edits):

* `Inductive`: `Spec => []IInv`, where `IInv` is `TypeOK` with `RewriteBacked`:
  while a root is being overwritten in place, the home has another slot with a
  root over the journal in memory. Without it `RootWrite` could not be shown to
  write a sequence number: it reads the highest one of a slot that must exist.
* `TypeCorrect`: `TypeOK`. Not only shape: no journal or root ever records a
  user's file, or a file in mid-mutation, as evidence.
* `EditsAreKept`: `EditsSurvive`. Every step of the compare-and-swap but the unlink by
  name changes a path only when it holds what the step expects, and no step expects a
  user's file, which is what the type invariant contributes. The unlink and the
  clean-up after an exception are the two exceptions the property names.
* `DecisionFreezesFiles`: `SealedFreezesFiles`, from `SealInv`: while a cleanup
  journal exists the process is settling, in recovery of a sealed group or not
  running, and none of these mutates a file.
* `JournalsTellTheFiles`: `AtomicInv`, the invariant behind the next five. A journal
  exists in memory, on disk, and one step ahead of the disk as the digest in a root
  (a recovery accepts a journal one step behind its root), and a kill leaves any of
  the three. `Entries` says of each what it tells of its files, `MemoryAhead`,
  `Applying` and `Undoing` how far memory may be ahead, `Standing` and `Clearing` which
  journals and roots may be missing, `BackupsHeld` which backups are needed, and
  `Deciding` which entries a group may have when its outcome is decided. From it
  `Atomicity` (`SettledAtomic`), `OneDecision` (`DecisionUniform`), `BackupsOutliveTheirUse`
  (`BackupKept`), `JournalComesFirst` (`WriteAhead`) and `SuccessIsReal`
  (`SuccessMeansInstalled`, which no run checks: success is reported only with every file
  installed and no journal left). The exception `SettledAtomic` makes, a kill while a journal
  has no name, is `Transaction_InterruptionKeepsJournal`; no other was needed.
* `CommitRefined`: the refinement of `AtomicCommit`, for behaviours with neither that
  kill nor edits, which is what the run checks. `ClosedIsUniform` says that the
  abstract decision agrees with the files, `OutcomeTells` that a report follows it, and
  `StepRefines` maps each action to an abstract step or a stutter.

`TransactionRecoveryProofs` (for every number of homes and operations, kinds, kills
and edits, as long as no system call raises, the condition the properties state):

* `RootsOutliveTheirRewrite`: `RecInv`, and from it `JournalsAreBacked` (`JournalBacked`).
  Which slot a journal rests on changes with every write: the root that is torn is
  the older one, so the newer one must back what is on disk (`DiskBacked`), what is in
  memory (`Memory`), and the journal that is on its way from one to the other
  (`Writing`). That the newest root is the right one takes the order of the sequence
  numbers, not only that some root matches.
* `FilesFollowTheJournals`: `OrderInv`, and from it `FilesChangeInOrder` (`PrefixApplied`):
  entries are accurate (`Accurate`), and a loop is where the entries change over.
* `NothingToRefuse`: `RefInv`, and from it `RefusalsHaveACause` (`RefusalJustified`):
  what any process finds, while nobody edited and no kill fell into one of the five
  windows, is what `Recover` accepts. That no name and no second link is left then
  (`debris`) is part of it.

`TargetLocksProofs` (for any contexts, processes, routes, homes, inodes, kills,
exceptions and interferences):

* `LocksHeld`, `LocksTyped` and `HomesAreExclusive` (`MutualExclusion`). The invariant
  says that a context has locked the directory it pinned for each home up to the one
  it has reached, and has a lease only with all of them. Two leases on one home name
  one directory, whose flock has one holder. The anchor's flock is not needed for it,
  as the proof shows: a context may write only while its home still has the name,
  and then the flock of the directory decides.
* `LocksAreReleased` (`NothingLeftLocked`), from `FlocksAreFound`: every flock and every
  registration belongs to a context that is under way and holds the descriptor that
  will release it.
* `LockedHomesStay` (`LockedHomeStays`), from `HomesAreLeftAlone`: a home that was
  published and not yet locked can be taken away by the context that published it only
  while it has no anchor.
* `RefusalsHaveACause` (`RefusalJustified`), from `NobodyIsHindered`, which says for each
  step of a context what it will find; contexts that ask in another order are refused
  at once and hold nothing.

`OwnershipProofs` (for any files, options, texts, releases and edits):

* `OwnershipTyped` and `NothingIsLost` (`NothingLost`). It is not inductive: a plan
  removes or overwrites a file without a backup when the file is as the entry says,
  and nothing in `NothingLost` says that such a file is not the user's. The invariant
  `PathOK` adds `PathCovered` (a file equal to an entry that is `created` or `replaced`
  stands for bytes the user does not have, or has in a backup; a created instruction
  file is the exception, its text is carried along), `PathSaved` (the backup a
  `replaced` entry names is there) and `PathProper` (no source is empty, so the user's
  empty instruction file is the only file that equals its absence). There is one lemma
  per operation of a plan (`CreateSafe` to `WithoutBlockSafe`), one per planner
  (`PlanRegularSourceSafe` to `UninstallPlanSafe`) and one per action. Neither the
  validation of a plan nor its conflicts are used: the planner alone is safe.
* `LetGoIsGivenBack` (`RoundTrip`), from `EntriesTellWhatWas`: what an entry's kind says
  of the file that was there before is so, across adoption, replacement, upgrades and
  entries an uninstall retained.
* `InstallsSettle` (`InstallSettles`), from `InstallsHold`: what an install leaves is a
  state in which each planner finds nothing to do.
* `RejectionsHaveACause` (`RejectedOnlyAfterRetained`), from the same invariant: an
  entry the validation objects to is one an uninstall retained.
* `UninstallsGoThrough` (`UninstallGoesThrough`), from the invariant of `NothingIsLost`:
  an entry an uninstall retains is as it was, and the backup of a `replaced` one is there.
* `ConflictsAreCaused` (`ConflictsHaveACause`), from `UntouchedPathsAreOurs`: without an
  edit each path is as the last command left it.

`PiLifecycleProofs` (for whatever `settings.json` may hold, any number of
invocations, kills, orphaned commands and steps of the user):

* `Inductive`, `TypeCorrect` and `OwnershipIsProved` (`OwnershipProved`), from `OwnInv`:
  `Phase` says what is planned and whether a command runs at each phase, `Owned` that
  a receipt, in memory or on disk, comes from a command that reported success, and
  `Kept` that where the package was there before no command is ever planned.
* `FilesArePaired` (`FilesHaveTheirPackage`), `SuccessIsReal` (`SuccessIsTrue`) and
  `ReceiptIsLast` (`ReceiptOutlivesPackage`), from `PackagePaired`. None of them is
  inductive: that a file has its package needs that a command runs only where there
  is no file and where no journal can bring one back (`Paired`), which for a removal
  rests on what the local transaction has left (`Transacted`).

`ValidationIsolationProofs` (for any number of paths, edits and moves):

* `Inductive`, `OthersAreKept` (`OthersKept`) and `NothingIsLeft` (`SuccessLeavesNothing`).
  The invariant says what the run holds open, which it has found to be its own and is
  all it empties (`Identified`), and what has the quarantine's name at the `rmdir`: the
  own directory, or one that was moved there after the last look (`AfterTheLook`), which
  the `rmdir` takes only when it is empty (`Removal`).
* `TestsAreOfTheCheckout` (`TestedIsTheCheckout`), from `LooksAgree`. The moment is the
  end of the first look: of each path the first look has passed, what was seen of it
  is what it held then, or it has lost that for good, since contents do not come back
  but by the edits `unseen` records; and then the second look differs.

`CompareAndSwapProofs` (for any number of steps of the user and of exceptions):
`CallsAreInOrder` is its invariant, one conjunct per reason a call may rely on an
earlier look. `Private`: temporary and quarantine hold inodes of the call, since the
user does not know their names. `Kept`: before the unlink the file that was found
has its names, or the user took one. `Detained` and `Looked`: what a look found is
so, or `since` of the inode is a step after it, which is what a window is. `Untouched`
and `Undone` are about calls without a user: how many exceptions it takes until the
path is empty. It gives `LossesAreInWindows` (`LostOnlyInWindow`), `OriginalIsKept`
(`OriginalKept`), `SuccessIsExact` (`SuccessExact`) and `FailuresLeaveAFile`
(`FailedLeaves`). The lemma `NamesTaken` says which name each step takes or gives, so that
the number of links, which the code compares, is counted once for all actions.

`DryRunProofs` (for any number of homes, transactions and kills): `ReadsAreCounted`
and `PhantomsTakeFour` (`NoPhantomConflict`). `WriterInv` says of each home how far the
transaction has come there, and that a home between its two operations has a journal,
which may be between its names; a look that falls there is counted as missed (`Untouched`
says that none was). `ReaderInv` says that a conflict in a plan was seen between two reads of journals that were
absent, so that a transaction began after the first and was gone before the second
(`Spent`, `Past`), one for each of the four plans (`Passes`). `ReportsAreWatched` and
`ReportsAreOfOneMoment` (`ReportIsOfOneMoment`) come from `MomentInv`, which says what the
reads so far tell. `JournalInv`: which homes have a journal, and in which order they are
sealed. `GroupsInv`: a journal that was found is still so, or a later look will differ
(`FirstGroups`, `SecondGroups`). `PlansInv`: what was read of a plan was due before the
one transaction began or after it was over, or a later read will differ (`FirstPlan`,
`SecondPlan`); each but for a look that was missed, which is the last conjunct of
`Concealed`. `Watching`: every moment of a collection is in `moments`. None needs that
the reads of two homes are close together; what decides is that each is repeated.

Assumptions: `TransactionAssumption` and `LocksAssumption` (homes ordered as their
operations, routes without repetition), as `_canonical_participant_order` and
`_validate_target_sequence` check them (that a context asks in order is not assumed: the
code refuses the others), `OwnershipAssumption` (an instruction
file is no whole file, runtime files are not optional, blocks always are), and
`RestsAssumption`, `ValidationAssumption`, `SwapAssumption` and `DryRunAssumption`, which
give the constants their types. TLC evaluates them in every run of their module.

Three attempts at a proof changed a model. The evidence a retried recovery accepts
(`RetryOk`) did not follow the code in one case, which made the step of `Recover` in
`NothingToRefuse` unprovable. And `NoPhantomConflict` used to allow no phantom conflict at
all; the count of `ReaderInv` did not close, and TLC found the four rollbacks. `PlansInv`
did not close either: `ReportIsOfOneMoment` left out only files edited twice, and on
instances larger than that of the run TLC found reports of no moment beside two
transactions and two edits, and beside one and two edits. `Concealed` now names them.

Every safety property of a passing run is proved. Model-checked only is what is beyond
the prover: liveness under fairness (`EventuallySettled`, `EventuallyThrough`,
`InvocationEnds`) and ENABLED. No module has a recursive operator, and no property needs induction over data.

## 5. Not modelled

Contents of files, hashes and encodings (identity stands for them); validation
of malformed journals, manifests and plans, which refuses before any change;
the base root, which is written once; permanent backups, which are never
removed; directories created by the preparation; `fsync`, so a completed call is
durable. `Transaction` lets an exception handler of a compare-and-swap fail once,
`CompareAndSwap` twice. In `Ownership`: the feature block in Codex's `config.toml`
(the block code with a collision check of its own), permanent backups or manifests
someone tampered with, compatibility checks. In `PiLifecycle`: how npm's files are
parsed and hashed, the probes of the Pi program beyond that they may fail, the
several managed files of the target. In `DryRun`: the identity of journals and
manifests, and the blocks of instruction files. In `ValidationIsolation`: the
configuration of the sandbox and the environment, owners and modes.

Not modelled at all, because they are functions without state that refuse or return:
state schema and models, catalog, formats, profiles and paths, the command line,
and the Claude Code hook. Their results appear in the models as the choices they
allow.

## 6. Plan

1. `Transaction`, `TargetLocks`, `AtomicCommit`, `CompareAndSwap` and their proofs (done).
2. `Ownership` with managed blocks and its proofs (done).
3. `PiLifecycle` and `DryRun` with their proofs (done); the phases and exit statuses of the orchestrator are
   in these two and in `Transaction`. The command cache has no module of its own: it
   lives as long as a plan, which `DryRun` models.
4. `ValidationIsolation` with its proofs (done).
5. Proofs: the second half of the link between `CompareAndSwap` and `Transaction`, that the five
   steps of `Cas`, and what `CasLeft` leaves when one raises, refine the system calls.
