# Freak: a TLA+ model of its transactions, caches, builds and process guards

This directory models the parts of the Freak tool chain that keep state which
outlives a call, or that several processes share: the journal that replaces a
project's manifest and lock (`src/src/cli/package_transaction.fk`), the query
cache, arenas and checkpoints of the V4 compiler (`src/src/compiler/v4`), the
record and the object cache that builds rely on (`src/src/cli/run.fk`,
`build.fk`, `runtime_cache.fk`), the package store of the Python bootstrap
(`src/freakc/hangar.py`), and the supervisors under which the project's own
tools run compilers and compiled programs (`check_v4.py`, `campaign_probe.py`,
`v3_performance_lab.py`). TLC checks small instances, TLAPS proves some of the
results for every instance.

1. [The system](#1-the-system)
2. [Package transactions](#2-package-transactions)
3. [The warm compiler](#3-the-warm-compiler)
4. [Builds and what they share](#4-builds-and-what-they-share)
5. [Python tools: package store and process guards](#5-python-tools-package-store-and-process-guards)
6. [What the models found](#6-what-the-models-found)
7. [What is proved](#7-what-is-proved)
8. [What is not modelled](#8-what-is-not-modelled)
9. [Plan](#9-plan)

## 1. The system

Freak is a programming language. Its repository holds three generations of
compilers (a Python bootstrap, the self-hosted V3, the V4 rewrite in crates),
a command line with a package manager ("hangar"), a C runtime whose checked
file, process and HTTP operations ("floor") the Freak code is built on, a
standard library and a UI package.

| component | state | operations | interacts with | what is hard |
|---|---|---|---|---|
| package transaction journal (`cli/package_transaction.fk`) | `transaction.marker`, before images, history and recovery directories, the project's two files | commit, abort, recover, clear | called by package preparation; uses the file floor; shares the files with editors | power loss between any two operations, completed-but-not-durable operations, an editor that ignores the lock, full quotas |
| package sources and preparation (`cli/package_sources.fk`) | source store, `graph.lock` | admit, fetch, resolve, commit | journal, package graph | re-reading under the lock what was read before it |
| package graph resolution (`cli/package_graph.fk`, `package_binding.fk`, `package_lock.fk`) | none beyond a call | colouring search, single linking, closure check | preparation | a search whose answer must agree with a definition |
| hangar commands (`cli/hangar.fk`, `lockfile.fk`) | manifest and legacy lock | add, remove, update | the journal's marker | a second writer of the same files |
| runtime object cache (`cli/runtime_cache.fk`) | objects shared by builds | pin, preprocess, lock, copy, compile, publish, link | file floor, processes | concurrent builds, inputs that change while compiled, a publication that is not durable |
| run freshness and builds (`cli/run.fk`, `build.fk`) | emitted file, binary and a record beside each source | decide, invalidate, build, confirm, record, launch | object cache | three files shared without a lock by runs with different options |
| Python hangar (`freakc/hangar.py`) | `hangar.toml`, `hangar_modules` | add, install, remove, version | other processes of the same project | no lock; a manifest written in place; a tree that is published or taken apart while others look |
| Python process guards (`check_v4.py`, `campaign_probe.py`, `v3_performance_lab.py`) | one launched tree, its captures | launch, watch, end, collect, report | the operating system | trees that fork, detach or do not end; identifiers used again; failures and interrupts inside the cleanup |
| file floor (`freak_v35_fs.inc`) | ticket table, owned temporary directories | checked write, rename, remove, lock, publish | the operating system | visible but not durable |
| process floor (`freak_v35_process.inc`) | command families in shared files | reserve, spawn, cancel, collect | other processes | late spawns, deadlines |
| HTTP and JSON floor | one request per owner ticket | accept, read, answer | event loop | ownership of a request |
| V4 query cache (`freak_query`) | memo table, dependency graph | get, store, record, invalidate, restore, confirm | every cached stage | a stale answer that looks valid |
| V4 session and driver (`freak_session`, `freak_driver`) | source table, promotion rules | set text, cached requests, confirm | query cache, arenas | slots reused under valid answers |
| V4 snapshots (`freak_snapshot`) | none beyond a call | save, restore a component or a unit, validate, roll back | all of the above | one of several restores fails |
| V4 language server (`freak_lsp`) | documents | didChange, requests, workspace commands | session, snapshots | order of edits and answers |
| V4 stage arenas, semantic analysis, code generation | one arena per stage | lower, check, emit | driver | pure, but by slot number |
| V3 compiler, older compilers, Python bootstrap | none beyond a run | compile | – | language rules only |
| command line, doctor, diagnostics, bootstrap, UI, tools | none that is shared | – | – | – |

`PROJECT.json` lists them with their status, the hazards at their lines, and
for every hazard the property that would catch it or why there is none yet.
The properties that make each modelled component correct are in sections 2 to
5; those of the planned ones in section 9.

## 2. Package transactions

### Modules

* `PackageTransaction.tla` models every step of a command that holds
  `graph.lock`: admission, recovery, the commit, its abort, and the clearing
  of the journal. One action is one checked operation of the file floor
  together with the decision the code takes on its result.
* `AtomicGeneration.tla` is what it promises: one generation, replaced as a
  whole. `ReplacedAtomically` shows the refinement.
* `MCPackageTransaction.tla` and `MCTransaction*.cfg` are the instances.

### Correspondence

| model | code |
|---|---|
| `disk` | directory entries as every process sees them |
| `media` | what a power loss may leave; a checked operation reports `completed` without `ok` when the directory could not be synchronized |
| `histories`, `recoveries` | `.transaction-history-*` and `.recovery-*` directories created |
| `pc`, `job` | where `package_recover_transaction_impl` or `package_commit_transaction_impl` is, and its locals |
| `outcome` | the result reported by the last command |
| `Begin`, `Admit` | `package_prepare_graph_impl`: lock, recover, read, resolve |
| `Recover` … `ClearImage` | recovery: marker and image checks, `restore_entry` for manifest then lock, `retain_current`, `package_transaction_clear` |
| `Commit` … `MarkCommitted`, `Abort` | the commit, from expected hashes to the durable committed marker, and the forced roll-back |
| `Perform` with `"ok"`, `"seen"`, `"fail"` | the three results of a checked operation |
| `Crash`, `PowerLoss` | a killed process (`flock` is released), a stopped machine |
| `EditorSaves`, `EditorWritesOpenFile`, `EditorRemoves` | an editor without the lock; it may also write through a file it opened before the entry was moved |

Equality of bytes stands for equality of SHA-256 hashes. File modes, the byte
quota, directory tickets and unsafe entries (links, special files) are steps
that may fail (`Fault`, `ReadFault`).

**Assumption on the file system.** With `OrderedMetadata` one successful
synchronization makes every earlier metadata change durable, as journalling
file systems do. Without it entries whose directory was not synchronized
persist on their own and in any order, and `JournalRecoverable` does not hold:
with `OrderedMetadata = FALSE` and two failing synchronizations, a marker whose
removal was visible and not durable can come back after the next transaction
has overwritten its images. The floor returns such a removal as an error and
the code cannot do more about it; the assumption says where it matters.
`NothingDiscarded` does not need it, and is proved with either value.

### Runs

| run | asks | bounds and why they are enough |
|---|---|---|
| `power_loss` | `TypeOK`, `JournalRecoverable`, `RollbackReady`, `AcknowledgedIsDurable`, `AbortedKeepsGeneration`, `ReplacedAtomically` | two contents (a third would only be another content that differs), two histories (a second transaction over the remains of the first), two failing operations (one that starts the abort and one inside it), a crash and a power loss in any order with them |
| `editor` | `ManifestPresent`, `ReplacesWhatWasAdmitted`, `NothingDiscarded` | two writes or deletions of the editor (before and after the first look), content that no command wrote, one failing operation, one crash; only the lock is deleted, since after a deletion of the manifest an absent manifest is right, and only the lock is given bytes of a known generation (`EditorReverts`), since for the manifest that is the instance of section 6 (4) |
| `settles` | `JournalSettles` | one fault, one unreadable entry, one crash: each may hit any step, after which commands run undisturbed |
| `commit_point` | `CommitPointIsFinal`, violated | see section 6 |

**Fairness.** `FairSpec` assumes `WF_vars(Recovery \/ Commitment)`: a process
that holds the lock and is not killed takes its next step, which no other
process can prevent, because the steps are calls that return. Nothing is
assumed of `Begin`: nobody has to start a command. `JournalSettles` therefore
says that *if* commands keep being started, the journal is cleared in the end;
and since faults are bounded, that this is so once operations stop failing.

### The properties

* `JournalRecoverable`: a marker that a power loss may bring back finds the
  images and the history it names. It is what the order of
  `package_transaction_clear` and of the commit's writes is for.
* `RollbackReady`: whatever a power loss leaves while there is a marker,
  `restore_entry` recognises each entry as restored or as one it can take
  back. There is no intermediate state that recovery refuses, if nobody edits.
* `AcknowledgedIsDurable`, `AbortedKeepsGeneration`: what is reported is what
  every possible power loss yields.
* `ReplacedAtomically`: the refinement of `AtomicGeneration`; the current
  generation is the one that a recovery of every possible disk yields, or the
  marker's `before` while they differ.
* `ManifestPresent`, `ReplacesWhatWasAdmitted`, `NothingDiscarded`: with an
  editor. The manifest comes back, a generation that was not read is never
  replaced, and displaced bytes are parked or retained.

## 3. The warm compiler

### Modules

* `QueryCache.tla`: the memo table and dependency graph of `freak_query` as
  operators on tables and graphs.
* `QueryInvalidation.tla`: the work list of one invalidation, step by step;
  it ends in what `QueryCache` takes for one step (`AsOneStep`).
* `SemanticCache.tla`: composes the cache (`INSTANCE QueryCache`) with the
  session's sources, the arenas, and the checkpoints of `freak_snapshot`.
* `MCQueryInvalidation.tla`, `MCSemanticCache.tla`, `MCInvalidation.cfg`,
  `MCCache*.cfg`: the instances.

### Correspondence

| model | code |
|---|---|
| `sources` | the parallel arrays of `freak_session`; `Cleared` is a slot whose path is `""` |
| `arenas[stage]` | the stage's arena; a slot is the file, the slot it was computed from and what it says |
| `entries`, `deps` | `v4_query_*` arrays; state `restored` is the code's dirty state with a last event that says it was imported |
| `Request` | `v4_<stage>_text_cached`: from the stage down to the first hit, then upwards; a HIR lowering that runs out of handles stores nothing |
| `Change` | `v4_lsp_change_document` |
| `Confirm` | `v4_driver_confirm_restored_document_text` |
| `RestoreComponents` | `workspace/expandSnapshotRestore`, `workspace/hirSnapshotRestore` with their invalidation |
| `RestoreQueries` | `v4_query_snapshot_restore` |
| `UnitRestore`, `UnitRestoreFails` | `v4_unit_snapshot_restore` with its roll-back |
| `Validate` | `v4_unit_snapshot_ty_context_matches`: the temporary parent context |
| `Restart` | a new process; clients keep their checkpoints |
| `Linked`, `Promotable` | `v4_driver_restored_<stage>_matches`, `v4_driver_query_entry_can_promote` |

`matched` and `lineage` are not in the code. The V4 README (lines 1275-1283)
obliges callers to combine only components of one provenance; these two
variables say when a client honours that, and guard the requests that combine.
Without them the model would report what the document excludes.

There is deliberately no invariant that a valid answer rests on valid ones: an
edit after a roll-back leaves a promoted later stage valid over a dirty earlier
one, since promotion compares slots and not states. This is harmless, because
the later slot still is the analysis of its text: `ValidIsFaithful` follows it
down to the stream.

### Runs

| run | asks | bounds and why they are enough |
|---|---|---|
| `invalidation` | `ExactlyDependents`, `AsOneStep`, `NoKeyTwice`, `Terminates` | every graph of three keys, every root and every table: chains, branches, diamonds through the root, cycles and self-edges |
| `query_cache` | `ValidIsFaithful`, `ValidationIsPure` | one document and two texts, so that slots of one text can be taken for the other's; three requests fill, shorten and refill an arena; a restart gives a checkpoint of another process, whose slots differ; two restores give a checkpoint taken before a restore, or a restore of parts followed by that of the unit |
| `checkpoint` | `ValidIsFaithful`, `TypeOK`, `RestoreIsWarm`, `RefusalIsHarmless`, `ChangeReachesEveryStage` | two documents (one may be confirmed and the other forgotten), an edit, a restart, two restores, one of which replaces the graph the edit walks, a failure inside one of them, roll-backs that fail |

`Depth` is 6 (lex, parse, expand, HIR, resolve, TY): these are the stages that
differ in how they are restored (replaced or overlaid) and linked. MIR and
borrow checking append and link like TY. `Requested` is the set of stages that
clients ask for; the choice per run keeps one stage before, at and behind the
arenas that are replaced. `RollbackFails` is FALSE in `query_cache`, because a
roll-back that fails inside a validation breaks both of its properties
(section 6), and TRUE in `checkpoint`. The systems may stop when the bounds are
used up, or when an invalidation is over, so that deadlock is not checked there; in
the transaction runs it is.

**Fairness.** `QueryInvalidation!FairSpec` is weak fairness of the only
process: the loop runs on.

### The properties

* `ValidIsFaithful`: what the cache answers is the analysis of the text it is
  asked for, and so is what is found by following its slot down the stages.
  It relates cache, arenas and sources after any sequence of requests, edits,
  restores, roll-backs and validations.
* `ChangeReachesEveryStage`: after an edit no stage of that document answers
  from the cache, also when a restore replaced the graph the edit walks.
* `RestoreIsWarm`, `RefusalIsHarmless`: for the texts a checkpoint was taken
  with, its restore answers all that the checkpoint answered; a refused restore
  loses none of the session's answers for its current texts. Both speak of
  answers whose entry is linked to those of the earlier stages (`Linked`), for
  only these are confirmed again; the next paragraph says what the rest are.
* `ValidationIsPure`: validation leaves every live slot as it was.
* `ExactlyDependents`, `AsOneStep`, `NoKeyTwice`, `Terminates`: the work list
  reaches the least closed set over every graph, counts what it dirtied, and
  ends. A restored snapshot may bring any edges, cycles included.

**Answers that have come apart.** An edit after a roll-back can leave a
promoted later stage valid over dirty earlier ones. If a request then
asks for one of the earlier stages, that one gets a new slot, and the later
answer, still true, names one that its neighbour no longer does. A checkpoint of such
a session, restored, leaves that answer unconfirmed
(`freak_snapshot/src/lib.fk` 1957-1990, 2147-2202; the promotion compares slots),
and so does a refused restore. With one document and texts A, B: `Save`;
`Request(A, 6)`; `Save`; `RestoreComponents(1, {Expand, Hir})`;
`RestoreQueries(2)`; `Confirm(A)`; `Change(B)`;
`RestoreComponents(2, {Expand, Hir})`; `Confirm(A)`, which promotes the stages
from expansion on above dirty tokens and syntax; `Request(A, 2)`, which gives
those two new slots; `Save`; `UnitRestore(3)`. The sequence needs four
restores, beyond the bounds of the runs; the attempt to prove the property
without `Linked` led to it. It costs a recomputation and never a wrong answer
(`ValidIsFaithful` holds on the way), so it is a limit of what "warm" means
and not a finding.

## 4. Builds and what they share

### Modules

* `RunFreshness.tla`: `freak run` and the build under it, for one source file,
  by several processes with different options.
* `RuntimeCache.tla`: the objects of the C runtime, which builds share under
  keys that digest all an object depends on.
* `MCRunFreshness.tla`, `MCRuntimeCache.tla`, `MCRun*.cfg`,
  `MCRuntimeCache.cfg`: the instances; all sets are symmetric.

The two meet in the link step of a build: `Link` of `RunFreshness` is one step
that makes the binary from the emitted file, whether its runtime objects come
from the cache or not, and `LinkedIsCurrent` of `RuntimeCache` is what entitles
it to.

### Correspondence

| model | code |
|---|---|
| `input` | source, packages, tools: all that `cli_run_fingerprint` digests but the options |
| `ir`, `binary`, `record` | the emitted `.ll` or `.c`, the binary and the freshness record, all named after the source alone |
| `Begin`, `HashForDecision`, `Compare` | `cli_run` up to the decision to build |
| `Invalidate`; `Discard`, `DropRecord`, `DropBinary` | the run drops the record if it can; `cli_invalidate_build_outputs` and its callers stop the build if they cannot remove emitted file, record and binary |
| `ReadSource`, `Transpile`, `Emit` | `cli_build_profile` reads, `cli_transpile` removes and writes the emitted file |
| `Compile`, `Link`, `CheckOutput` | `cli_build_binary`: what is compiled is the emitted file that is there then; the binary is written in place |
| `Confirm`, `Hash`, `Record` | inputs compared, binary hashed, record written, each a step of its own |
| `PrintAgain`, `HashAgain`, `ReadAgain`, `Refuse`, `Launch` | the second look immediately before the launch |
| `Edit`, `Replace`, `Crash` | inputs change (also back), a foreign binary, a killed process |

| model | code |
|---|---|
| `text`, `tool` | the runtime's sources with their headers, and the compiler with its support |
| `entry[key]` | a published directory: object and receipt; a receipt is the digest of the object it was written for |
| `lock[key]` | the lock beside a key, which is tried and never waited for |
| `PinSource` … `Repin` | `cli_runtime_cache_prepare` and `_preprocess`: hash, preprocess and hash dependencies, twice, hash again |
| `Lock`, `CopyHit`, `CompileUnit`, `Publish`, `Clean`, `Unlock` | one unit in `cli_runtime_cache_build` |
| `GiveUpPreparing` | a root, stage, source or compiler that cannot be had or read before the first object |
| `InputsStable`, `ToolStable` | the looks before publication, before the link, after it |
| `FallBack`, `Fail`, `Blinded`, `Leave` | build from sources without the cache; reject the build because a look showed a difference, or could not be taken; end |
| `Decay` | a damaged entry |

**Ghosts.** `mixed` (a build was disturbed between the removal of the old
binary and its record) and `returned` (a text or a compiler changed back to
what a running build has already seen, kept in `seen`) are not in the code.
They name what the design cannot see: it compares digests at two moments, so a
change that is taken back between them is invisible, and two builds of one
source share their files without a lock. What fails because of the second is
section 6; the properties say what holds otherwise.

### Runs

| run | asks | bounds and why they are enough |
|---|---|---|
| `run_freshness` | `TypeOK`, `RecordIsTrue`, `LaunchesItsOwn` | two inputs and two options (a third is only another that differs), two processes, three commands (one leaves a record, two act on it), two edits (there and back), one foreign binary, one crash; removals and writes fail at will |
| `racing_rebuild` | `RacingRebuildsRejected`, violated | one input, two options, two processes: nothing but the race |
| `runtime_cache` | `TypeOK`, `EntryIsTrue`, `LinkedIsCurrent`, `FailsOnlyByItsLooks`, `PublicationStands` | two units as with the LLVM backend, two builds of equal or different keys, two changes of sources or compiler, a decayed entry, a crash; copies, locks, compilations, publications, the preparation and every later look fail at will |

Both systems stop when their bounds are used up: deadlock is not checked. No
liveness is claimed: a run may always be refused, and a build always fail.

### The properties

* `RecordIsTrue`: the record joins a fingerprint only to a binary built from
  these inputs with these options, wherever a command failed, gave up or was
  killed. It rests on the order of removal, build, confirmation and record.
* `LaunchesItsOwn`: what a run admits for launch was built for it.
* `EntryIsTrue`, `LinkedIsCurrent`: an object is what its key says although it
  is compiled from a snapshot taken earlier, by a compiler that is looked at
  only before and after; a build never mixes objects of two states.
* `PublicationStands`: no clean-up removes what was published, also when the
  rename was visible and not durable.
* `FailsOnlyByItsLooks`: locks of others, entries that decayed and publications
  that failed make a build slower and never reject it. What does is one of its
  own later looks, which showed a difference where something changed, or could
  not be taken. The code does not tell the two apart (both end in outcome 0,
  `runtime_cache.fk` 733-743); the model does (`"failed"`, `"blind"`), and
  section 6 (6) is about the second.

## 5. Python tools: package store and process guards

### Modules

* `PackageStore.tla`: the commands of `freakc/hangar.py` over one manifest and
  one store, by several processes without a lock.
* `ProcessGuard.tla`: the supervisors `run_with_heartbeat` (on POSIX, `check`,
  and on Windows, `job`), `run_bounded` (`campaign`) and `_run_bytes` (`lab`)
  in one module with a parameter `kind`, because they are variations of one
  protocol and its properties compare them. The launched tree, the capture
  thread, the clock and the rest of the host are actions beside the supervisor.
* `MCPackageStore.tla`, `MCProcessGuard.tla` and their `.cfg`: the instances.

### Correspondence

| model | code |
|---|---|
| `manifest` | `hangar.toml`; `Blank` is what a file cut to nothing is read as |
| `store[n]` | what is found under `hangar_modules/n`: which command made it, and whether it is whole, partly or wholly emptied |
| `Add`, `Install`, `Remove`, `Version` | the commands, which read the manifest once and go on from what they read |
| `Look`, `Stage`, `StageFails`, `LookAgain`, `Publish` | `_install_one`; the stage is beside the store and reached by no name, the rename does not replace |
| `Cut`, `Fill` | `_write_manifest`: opening for writing, then writing |
| `Find`, `Empty`, `Unlink` | the `rmtree` of a remove: the directory it opened is emptied, the name removed if it is empty |
| `Crash` | a killed process |

| model | code |
|---|---|
| `procs` | the process table: running, zombie or free; process group; launched or a stranger |
| `Members` | what the supervisor's container holds: a process group by its number, whoever is in it, or a job |
| `drained`, `reader` | the capture thread; the two streams are alike, one stands for both |
| `WatchLimit`, `WatchExit` | the polling loops: output, memory, time, exit, in the order each tests them |
| `SignalGroup`, `SignalRefused`, `ReapLeader`, `ReapExpires`, `CloseTree`, `CloseRefused` | ending the tree and each way it fails; `check` and `job` try twice and then `Fallback` |
| `Fallback`, `TreeClosed` | `_final_cleanup` and what is said of it |
| `Joined`, `JoinExpires`, `Judge` | captures joined for a bounded time; the result or the error |
| `StartCapture`, `StartWatching`, `LaunchAbandoned` | what comes between the launch and the handler that ends the tree (`check_v4.py` 16386-16591): capture threads, a first sample of the memory, and an interrupt or a failure there |
| `deadline` | `timeout_seconds`, which in `check` and `job` may be absent (16372, 16613; callers 16775, 17008, 17053) |
| `Interrupted` | `KeyboardInterrupt` at any step from the handler on, and what each handler does |
| `Fork`, `Detach`, `Exit`, `Write`, `Grow`, `Arrive` | the tree and the host (external) |

`disturbed` and `promised` of `PackageStore` and `strangerHit` and `escaped` of
`ProcessGuard` are ghosts: a command overlapped another or was killed between
`Cut` and `Fill`; what was reported as added; what a signal hit; whether a
descendant left the group.

### Runs

| run | asks | bounds and why they are enough |
|---|---|---|
| `package_store` | `TypeOK`, `AddedIsUsable`, `RecordedIsWhole`, `AppearsWholeGoesEmpty` | two packages (one to lose while the other is written), two processes, four commands (add, remove and add again beside another), one crash |
| `guarded_run` | `TypeOK`, `NoSurvivor`, `TreeClosedIsTrue`, `SignalsOnlyItsOwn`, `ResultIsComplete`, `RunEnds` | a leader and two identifiers (a child that stays and one that detaches, or a stranger that gets a number), two units of output over a limit of one, two failures or interrupts (one that starts a cleanup, one inside it; or one between launch and handler), calls with and without a deadline, all four supervisors |

Both may stop: commands are used up, or the call has returned; deadlock is not
checked.

**Fairness.** `ProcessGuard!Spec` has `WF_vars(Supervise)`, since the loops poll
and every wait in them is bounded or ends with the process it waits for after
SIGKILL, and `WF_vars(DeadlinePasses)`, since time passes. That SIGKILL ends a
process is an assumption on the host: `campaign` waits for its leader without a
bound (`campaign_probe.py` 335), and would wait for ever for one that the kernel
does not let go. Nothing is assumed of the tree, which need not end, nor of the
capture thread, which may be stuck: `RunEnds` must hold for a tree that never
ends and never closes its pipe.

### The properties

* `AddedIsUsable`: what was reported as added is recorded and whole.
* `RecordedIsWhole`: what is recorded is absent or whole. A remove that is
  killed on its way leaves a part of a tree under its name, which `add` and
  `remove` both refuse to touch; the property says that no manifest ever comes
  to name it. It depends on the order in which `remove` records and takes apart,
  and on `add` looking before it records.
* `AppearsWholeGoesEmpty`: with any race of installs and removes, trees appear
  whole, take no other's place, and go only when empty.
* `NoSurvivor`: a call that has come to guard its tree and reports no failed
  cleanup leaves nothing of it in its container. The exceptions it names are
  what the code does: `campaign` ignores a refused signal, and a second
  interrupt abandons a cleanup that has not yet signalled the group. A call
  that ends between launch and handler guards nothing: section 6 (7).
* `TreeClosedIsTrue`: `tree-closed=True` is not overstated.
* `SignalsOnlyItsOwn`: the laboratory keeps the leader unreaped until the group
  is signalled, so that its number cannot be given to a stranger; the other
  supervisors reap first and have no such protection.
* `ResultIsComplete`: output that is returned is all of it, and in the bound.
* `RunEnds`: every call with a deadline returns, and one without does unless it
  watches a leader that runs for ever (`Endless`), as the code is meant to.

## 6. What the models found

Two runs are expected to be violated, each a finding in `PROJECT.json` that
quotes the statement of the repository it contradicts.

1. `commit_point`: a durable committed marker is called the commit point. When
   the process dies before the marker's removal and the next recovery fails to
   read one project entry, it goes to the roll-back branch with the error set:
   the manifest is passed over, the lock is taken back.
2. `racing_rebuild`: the second look of `freak run` is said to reject racing
   rebuilds. It compares the record with the binary, and both may be those of
   another run: emitted file, binary and record are named after the source
   only, and the binary is hashed after the inputs were confirmed. A run then
   records, and launches, a binary that was built with other options.

Five more results are stated by definitions of the modules and not among the
runs: statements that the code does not keep, or protection it does not have. Each instance below differs from a configuration of this
directory as described, checks one invariant or property only, and TLC finds
it violated within seconds.

3. A full quota. The message of a full quota (`package_transaction.fk:168`)
   says the previous generation is unchanged. The same budget is checked
   inside recovery (line 181), where it stops a roll-back in the middle.
   `MCTransactionCommitPoint.cfg` with `EntryQuota = 3` and
   `INVARIANT QuotaLeavesGeneration`.
4. An image that reappears. A process killed after a reappeared image was moved
   away and before the before image took its place leaves an entry that every
   later recovery refuses as an unknown deletion, which the comment at
   `package_transaction.fk:225` reserves for deletions.
   `MCTransactionEditor.cfg` with `EditorReverts = {"manifest", "lock"}`,
   `MaxFaults = 0`, `EditorDeletes = {}` and
   `INVARIANT NotMistakenForDeletion`.
5. A failed probe. The V4 README (lines 1294 and 1299) says validation leaves
   the session as it was. A validation whose roll-back runs out of handles at
   HIR returns with the checkpoint's HIR and resolve slots in the live arenas.
   `MCCacheAnswers.cfg` with `RollbackFails = TRUE`, `Requested = {6}` and
   `PROPERTY ValidationIsPure`; with `Requested = {2, 6}` and
   `INVARIANT ValidIsFaithful` TLC shows that answers suffer.
6. A look that cannot be taken. The comment at `runtime_cache.fk:309-311` says
   of support that cannot be resolved that it disables reuse and never rejects
   an otherwise supported build, and `README.md:544` that unavailable or
   unsupported caches fall back to source builds. That is so for the first
   look. A later one, for which `ldd` or a probe of the compiler fails or times
   out or a pinned input cannot be read (117-126, 275-315, 733-741), rejects the build,
   though nothing changed and the sources would compile.
   `MCRuntimeCache.cfg` with `MaxChanges = 0` and `INVARIANT OnlyChangesReject`.
7. The launch window. The supervisors launch the tree first and enter the `try`
   that ends it later (`check_v4.py` 16386 and 16591, with two thread starts and
   a memory sample between them). An interrupt or a failure there ends the call
   and leaves the tree running. `campaign` has a shorter window, between
   `Popen` and its `try` (`campaign_probe.py` 380-401), and `lab` only the
   instant before it knows its process.
   `MCGuardedRun.cfg` with `INVARIANT LaunchIsGuarded`.

## 7. What is proved

Proofs are in modules of their own. None uses the bounds of a run: bytes,
quotas, numbers of faults and crashes, keys, graphs and tables are arbitrary,
within the named assumptions of the modules (`BytesAssumption`,
`QuotaAssumption`, `BoundAssumption`, `AbsentAssumption`: the absence of an
entry is not a generation or a marker, `GuardAssumption`, `StoreAssumption`,
`FreshnessAssumption`, `CacheAssumption`, `EntryAssumption`; `FiniteAssumption`
and `PathsAssumption`: tables, graphs and the set of documents are finite, as
lists in memory are; `DepthAssumption`: the six stages up to TY are there, and
at most two more; `NoneAssumption`: no subject and no entry is the absence of
one).

* `PackageTransactionProofs!TypeCorrect`: `Spec => []TypeOK`. `TypeOK` alone is
  not inductive: the type of a step depends on where the holder is (it reads a
  record only where there is one, an image only where the entry was not
  absent, a recovery directory only where one was just made). `TypeInv` adds
  that, and the budget check is what keeps a recovery directory's number in
  range (`UsedBound`).
* `PackageTransactionProofs!JournalIsRecoverable`: under `OrderedMetadata`,
  `Spec => []JournalRecoverable`. `JournalInv` adds what the holder knows at
  each place (which images it has written, that the marker is absent while it
  writes them and durable afterwards), because a marker is only as good as the
  images at the moment it becomes visible. Its steps are proved under
  `InOrder` (ordered metadata, or nothing outstanding), so that the theorem on
  the manifest can use them without the hypothesis.
* `PackageTransactionProofs!NothingIsDiscarded`: `Spec => NothingDiscarded`,
  with an editor and with either assumption on the file system. It needs the
  type invariant, that a rename never has a present target, and that a file that
  is overwritten is a new name or a staged one.
* `PackageTransactionProofs!ReplacesTheAdmitted`: `Spec => []ReplacesWhatWasAdmitted`,
  without hypotheses. By `AdmittedInv` a commit knows that there is no marker
  until it writes one, and the one it writes names what was admitted.
* `PackageTransactionProofs!RollbackIsReady`: under `OrderedMetadata` and `NoEditor`
  (no editor writes or deletes), `Spec => []RollbackReady`. `RollbackInv` says of every disk a power loss may
  leave that the journal's entries are untouched, replaced or moved away, one
  generation at a time, and of the holder what it knows of the entry in hand at
  each place: without the second part no step of restore_entry can be shown to
  leave what the next recovery understands. An editor breaks the property as
  it is meant to: its bytes are none of the three.
* `PackageTransactionProofs!ManifestSurvives`: `Spec => []ManifestPresent` under
  `ManifestLeft`, with an editor, crashes and power losses, and with either
  assumption on the file system. `ManifestLeft` (the editor does not delete the
  manifest, nor bring bytes of a command back into it) is needed: after a deletion
  an absent manifest is right, and the other case is section 6 (4).
  The order of metadata is not, because while no operation has failed every
  removal and rename was synchronized, so that every disk a power loss may
  leave is the one seen (`media = {disk}` in `SafeInv`). `Kept` says that a
  manifest that is not in the project is the original of the journal, moved
  aside, and that the new bytes are in the project only after the original has
  gone; `MarkerAtHand` and `ManifestKnown` say at which places of the holder it may
  be away, and that these all lead to its return.
* `PackageAtomicProofs!AcknowledgedDurable` and `!AbortedKeepsPrevious`: under the
  same hypotheses, the two action properties about answers. `ReportInv` adds to
  `RollbackInv` which generation every disk yields from the committed marker
  (or the forced roll-back) on, and that it is the one the command asked for (or
  was admitted with).
* `PackageAtomicProofs!JournalReplacesAtomically`: under these and `Readable`
  (`MaxReadFaults = 0`), `Spec => ReplacedAtomically`, the refinement of
  `AtomicGeneration`. `AtomicInv` says that all disks agree on one journal,
  that each yields the generation before or the one after (`OutlookInv`), and
  where they still differ; a step then keeps the abstract generation, opens a
  replacement, finishes or drops it. The read faults are excluded because the
  theorem is false with them: a generation that cannot be read while recovery
  decides is rolled back, committed or not (section 6, `commit_point`).
* `QueryInvalidationProofs!DirtiesExactlyDependents` and `!ListsEachKeyOnce`:
  for every set of keys, graph and table. `Inv` says that what was seen is
  listed and below every closed set that holds the root, that the walked part
  is closed within what was seen, and that exactly its dependents and those
  visited of the key in hand are dirty. The closure is characterised as the
  least closed set, not computed.
* `QueryInvalidationProofs!WalksAsOneStep`: `Spec => []AsOneStep`, the walk ends
  in what `QueryCache!DependentsDirtied` computes by rounds (`Reached`). The rounds exist and
  grow, are below every closed set that holds the root, and one that adds
  nothing is closed; each other adds a key, so that after as many rounds as there
  are keys one has added nothing (a count over a finite set). The induction over numbers
  is not the library's, whose theorem takes an operator: `LeastNumber` and
  `AllNumbers` derive it for sets of numbers from `NatLessThanWellFounded`
  and `WFMin`, which take none.
* `SemanticCacheProofs` proves every property of `SemanticCache`. Two invariants
  are needed. `Shape` says of the session and of every checkpoint that it has
  the form in which the rest is stated, and that it is `Supported`: an entry at
  a stage, valid or not, has an entry for the same text at the stage before,
  and the graph the edge between them. So an invalidation that starts at a
  source reaches every stage above it (`ReachesUp`), whatever graph was
  restored. `TypeCorrect`, `ChangesReach`, `RestoresAreWarm` and
  `RefusalsAreHarmless` follow from it without hypotheses. `Content` says what
  the slots say: the slots of a valid answer form a chain down to the stream,
  each computed from the next (`Faithful`); every entry, valid or not, still
  names a slot of its text at the stages no restore replaces (`EntriesFit`), and
  a type slot says what its resolve slot says (`TypesFit`); while components are of one
  provenance (`matched`), replaced and kept stages fit each other
  (`OneProvenance`); and the kept stages of a checkpoint are continued by the live ones while
  its lineage lives. `AnswersAreFaithful` and `ValidationWritesBack` follow,
  under `Careful`: no roll-back fails inside a validation
  (`RollbackFails => MaxProbes = 0`), which both runs satisfy and without
  which section 6 (5) refutes both. That the recursive `Traced` follows a chain
  is again by `AllNumbers`.
* `ProcessGuardProofs`: `TypeCorrect`, `OnlyOwnSignalled`, `NothingSurvives`,
  `ClosedIsEmpty`, `ResultComplete`. `Pinned` says that a stranger is in a
  group of its own number, and that in the laboratory the leader's identifier is the leader's,
  running or zombie, until it was reaped, which is after the signal. `Cleaned`
  says where in the protocol the container is already empty, and what
  `signalled`, `closed` and `broken` then account for; that an empty container
  stays empty (`GoneStep`) is the key lemma: only a member can fork
  into it. `Taken` is about what was captured: a capture at its end has taken all and nobody is left to
  write, whoever judges has waited for it, and while no descendant has left the
  group an empty group is a tree without writers (which is where `Cleaned` is
  needed again).
* `PackageStoreProofs`: `TypeCorrect`, `PromisesAreKept`, `RecordedAreWhole`,
  `TreesComeAndGo`. `IInv` joins to the types what the place of a command says
  of it (`Stations`), and for commands that do not overlap what a command knows
  of the promises (`Knows`): it will write all of them back but the one it
  removes, and an add writes only what is in the store.
* `RunFreshnessProofs`: `TypeCorrect`, `RecordTrue`, `OwnIsLaunched`. `Own`
  carries "if the inputs are still those the build began with, then what it has
  read, emitted, compiled is of them" from place to place; the confirmation
  removes the condition.
* `RuntimeCacheProofs`: `TypeCorrect`, `EntriesAreTrue`, `LinkedOfOneState`,
  `OnlyLooksReject`, `PublicationsStand`. `Facts` holds whatever changes (what a
  build has pinned was there at some time, a failed one has seen two states);
  `Trust` holds while nothing returned (the two readings of a unit agree; an
  object is of its snapshot and of the build's compiler, or the compiler is
  another by now, which the next look shows).

Only model-checked is liveness: `JournalSettles`, `Terminates` and `RunEnds`,
since the provers have no rule for `ENABLED`. All invariants and action
properties of the runs are proved, under the hypotheses named above where they
are false without them.

## 8. What is not modelled

* In the journal: file modes, the byte and depth quotas and unsafe entries are
  folded into steps that fail; the text of the marker is a record.
* In the query cache: generations, telemetry, the invalidation log, and the
  validation of a payload's text. Restored entries are not touched by
  `v4_query_mark_dirty_key_at_generation`, as in the code.
* In the session: the diagnostics and editor families, which answer for text
  and not for slots; the syntax query; the lexer's overlay of tokens inside a
  stream; the checks of a snapshot's records.
* A standalone TY restore (`workspace/tySnapshotRestore`) replaces its arena
  without dirtying the `ty:` queries. It is a planned extension; what the
  caller owes (matching provenance) is the same text as for `matched`.
* In builds: package preparation, the choice of tools, parallel streams of
  output, and the interval between the last look and `exec`, which no look
  inside the process can close. A change that is taken back between two looks
  is named by the ghosts `mixed` and `returned` and excluded from the
  properties. In the object cache: creation and ownership probes of its root
  and of the stage, the fingerprint that `run_context` takes, and the closure
  of Windows libraries.
* In the package store: `init`, listing, and the resolution of modules, which
  only read or refuse. The fetch is a step that may fail. Tables of the
  manifest other than project and dependencies are not told apart.
* In the process guards: a launch that fails by itself and its roll-back
  (`ProcessTree._rollback_spawn`), groups that a nested campaign inherits, the host lock
  (`v4_host_mutex`), `lab` and `campaign` on Windows, the check on Darwin that a
  group is a singleton, and the case that the leader's number, once reaped, is
  given to a descendant of the same tree. What the three tools run under the
  guards, and what they measure, is not modelled.
* The Python sources are for the greater part not state machines.
  `check_v4.py` is 18,000 lines of test bodies around one supervisor,
  `freakc/auditor.py` a list of textual rules, `v3_performance_lab.py` and
  `campaign_probe.py` tables of measurements around theirs; lexer, parser, type
  checker and emitter translate text to text in one pass, and a model of them
  would be a transliteration. What in them keeps state, the supervisors and the
  package store, is modelled; the share of Python lines that definitions stand
  for therefore stays small. The larger part of the map is in the `.fk`
  sources, which are the product.
* Components with status `not_modelled` in `PROJECT.json`, each with its
  reason: pure text transformations, applications, vendored code, and those
  that section 9 plans.

## 9. Plan

Done: the journal, the query cache and its invalidation, the compositions in
`SemanticCache`, `RuntimeCache`, `RunFreshness`, `PackageStore`,
`ProcessGuard`. What is left, in this order:

1. `CommandFamily`: reservation, spawn, cancellation and collection of command
   families between processes (`freak_v35_process.inc` 313-440, 572-730). A
   late spawn does not escape its cancelled ancestor; a slot is retired once;
   a deadline and a natural end agree.
2. `TicketTable`: slots and generations of the file floor; a stale ticket is
   never taken for a live one.
3. Legacy writers (`hangar.fk`) as a second client of `PackageTransaction`.
4. `PackageGraph`: the colouring search against a reference definition over
   bounded graphs.
5. The remaining families of `SemanticCache`: TY restore, diagnostics and
   editor answers, over the language server's documents.
6. `BootstrapScopes`: which names `bringing back` makes visible to the Python
   type checker (`type_checker.py` 288-628) and which the emitter declares
   (`emitter.py` 154-1015), over bounded programs; `ImportJoin`, the resolution
   of imports in `freakc/__main__.py`.
7. With each of these, proofs of its invariants. Of what is modelled only the
   three liveness properties are unproved.
