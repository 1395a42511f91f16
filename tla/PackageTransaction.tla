------------------------- MODULE PackageTransaction -------------------------
(***************************************************************************)
(* The journal that replaces a project's generation, the manifest and      *)
(* hangar.lock, as one transaction (src/cli/package_transaction.fk), over  *)
(* the checked file operations of freakc/runtime/freak_v35_fs.inc.         *)
(*                                                                         *)
(* disk is what every process sees; media is the set of disks a power loss *)
(* may leave behind, because a visible change is durable only after its    *)
(* directories were synchronized.  One command at a time holds graph.lock  *)
(* (pc # "idle"); an editor that knows nothing of the lock may write at    *)
(* any time.  Equality of bytes stands for equality of SHA-256 hashes.     *)
(***************************************************************************)
EXTENDS Integers, FiniteSets

CONSTANTS
  GraphBytes,      \* bytes a command may write into the manifest or the lock
  EditorBytes,     \* bytes an editor may write; they may be known ones
  Empty,           \* the zero-length before image of an absent lock
  Absent,          \* no such directory entry
  HistoryQuota,    \* transaction histories admitted   (128 in the code)
  EntryQuota,      \* entries in retained histories    (4088 in the code)
  OrderedMetadata, \* TRUE: one sync makes every earlier change durable
  MaxFaults,       \* bound on changing file operations that fail
  MaxReadFaults,   \* bound on entries that cannot be read
  MaxCrashes,      \* bound on killed processes
  MaxPowerLosses,  \* bound on power losses
  MaxEdits,        \* bound on the editor's writes
  EditorDeletes,   \* the entries of the project that the editor may delete
  EditorReverts    \* the entries it may give the bytes of a generation

Bytes == GraphBytes \cup EditorBytes

ASSUME BytesAssumption ==
  /\ GraphBytes # {}
  /\ Empty \notin Bytes /\ Absent \notin Bytes /\ Empty # Absent
ASSUME QuotaAssumption == HistoryQuota \in Nat \ {0} /\ EntryQuota \in Nat
ASSUME BoundAssumption ==
  /\ {MaxFaults, MaxReadFaults, MaxCrashes, MaxPowerLosses,
      MaxEdits} \subseteq Nat
  /\ OrderedMetadata \in BOOLEAN
  /\ EditorDeletes \cup EditorReverts \subseteq {"manifest", "lock"}
-----------------------------------------------------------------------------
(* Names and contents of directory entries *)

Roles == {"manifest", "lock"}
Histories == 1..HistoryQuota     \* .transaction-history-* directories
Recoveries == 1..(EntryQuota+1)  \* .recovery-* directories; each is an entry

Project(r)     == <<"project", 0, r>>
Original(h, r) == <<"original", h, r>>        \* <history>/<role>.original
New(h, r)      == <<"new", h, r>>             \* <history>/<role>.new
Recovered(n)   == <<"recovered", n, "file">>  \* .recovery-*/current, restored
Before(r)      == <<"private", 0, r>>         \* transaction.<role>.before
Marker         == <<"private", 0, "marker">>  \* transaction.marker

Parked  == {Original(h, r) : h \in Histories, r \in Roles}
Staged  == {New(h, r) : h \in Histories, r \in Roles}
Removed == {Recovered(n) : n \in Recoveries}
Files   == {Project(r) : r \in Roles} \cup Parked \cup Staged \cup Removed
Images  == {Before(r) : r \in Roles}
Entry   == Files \cup Images \cup {Marker}

\* The directory an entry is in: the unit of synchronization.
Dir(e) == IF e[1] \in {"original", "new"} THEN <<"history", e[2]>>
                                          ELSE <<e[1], e[2]>>

Generation == {g \in [Roles -> Bytes \cup {Absent}] : g["manifest"] # Absent}
MarkerRecord == [phase : {"pending", "committed"}, before : Generation,
                 after : [Roles -> Bytes], history : Histories]
ASSUME AbsentAssumption == Absent \notin MarkerRecord \cup Generation
\* What an entry may hold.
Slot(e) == CASE e = Marker -> MarkerRecord \cup {Absent}
             [] e \in Images -> Bytes \cup {Empty, Absent}
             [] OTHER -> Bytes \cup {Absent}
Disk == {d \in [Entry -> Bytes \cup {Empty, Absent} \cup MarkerRecord] :
           \A e \in Entry : d[e] \in Slot(e)}

\* The before image of a generation's entry: absence is stored as no bytes.
Image(b) == IF b = Absent THEN Empty ELSE b

ProjectOf(d) == [r \in Roles |-> d[Project(r)]]

NoRecord == [before |-> Absent, after |-> Absent, history |-> 0]
NoJob == [then |-> "stop", role |-> "manifest", sound |-> TRUE,
          parked |-> Absent, admitted |-> Absent, want |-> Absent,
          rec |-> NoRecord]

VARIABLES
  disk,       \* Entry -> contents, as every process sees it
  media,      \* the disks a power loss may leave
  histories,  \* transaction histories created so far
  recoveries, \* recovery directories created so far
  pc,         \* where the holder of graph.lock is; "idle": nobody holds it
  job,        \* the holder's local variables
  outcome,    \* what the last finished command reported
  spent       \* how much of each bound was used

vars == <<disk, media, histories, recoveries, pc, job, outcome, spent>>
limits == <<histories, recoveries>>
-----------------------------------------------------------------------------
(* The checked file operations *)

\* The effect of directory changes w, a function from entries to contents.
Apply(d, w) == [e \in Entry |-> IF e \in DOMAIN w THEN w[e] ELSE d[e]]

\* What a power loss may leave once w is visible and not yet synchronized.
Exposed(w) == media \cup (IF OrderedMetadata THEN {Apply(disk, w)}
                                            ELSE {Apply(d, w) : d \in media})

\* What it may leave after the directories in dirs were synchronized as well.
Flushed(S, new, dirs) ==
  IF OrderedMetadata THEN {new}
  ELSE {[e \in Entry |-> IF Dir(e) \in dirs THEN new[e] ELSE d[e]] : d \in S}

\* A checked operation changes nothing ("fail"), or is visible with its
\* directories not synchronized ("seen": completed but not ok), or both ("ok").
Perform(w, o) ==
  /\ IF o = "fail" THEN UNCHANGED <<disk, media>>
     ELSE LET new == Apply(disk, w) IN
          /\ disk' = new
          /\ media' = IF o = "seen" THEN Exposed(w)
                      ELSE Flushed(Exposed(w), new, {Dir(e) : e \in DOMAIN w})
  /\ spent' = IF o = "ok" THEN spent ELSE [spent EXCEPT !.faults = @ + 1]

Outcomes == IF spent.faults < MaxFaults THEN {"ok", "seen", "fail"} ELSE {"ok"}

\* write_relative_bytes_checked replaces; remove_relative_file_checked unlinks.
Write(e, c, o) == o \in Outcomes /\ Perform([x \in {e} |-> c], o)
Remove(e, o)   == Write(e, Absent, o)

\* Mutant of Rename: replaces a present target.
RenameOver(from, to, o) ==
  IF disk[from] # Absent
  THEN /\ o \in Outcomes
       /\ Perform([x \in {from, to} |-> IF x = to THEN disk[from] ELSE Absent], o)
  ELSE o = "fail" /\ UNCHANGED <<disk, media, spent>>

\* rename_relative_new_checked: a missing source or a present target is refused.
Rename(from, to, o) ==
  IF disk[from] # Absent /\ disk[to] = Absent
  THEN /\ o \in Outcomes
       /\ Perform([x \in {from, to} |-> IF x = to THEN disk[from] ELSE Absent], o)
  ELSE o = "fail" /\ UNCHANGED <<disk, media, spent>>

\* A directory that cannot be created, or the byte quota: nothing changes.
Fault == /\ spent.faults < MaxFaults
         /\ spent' = [spent EXCEPT !.faults = @ + 1]
         /\ UNCHANGED <<disk, media>>

\* An entry that is unsafe or cannot be read.
ReadFault == /\ spent.reads < MaxReadFaults
             /\ spent' = [spent EXCEPT !.reads = @ + 1]
             /\ UNCHANGED <<disk, media>>

Quiet == UNCHANGED <<disk, media, spent>>

\* package_transaction_history_budget: the entries of the retained histories.
Used == recoveries + Cardinality({e \in Parked \cup Staged \cup Removed :
                                    disk[e] # Absent})
WithinBudget == Used <= EntryQuota
\* Mutant of Admissible: one history too many.
AdmissibleAtQuota == WithinBudget /\ histories <= HistoryQuota

\* package_transaction_admit_history: room for one more history.
Admissible == WithinBudget /\ histories < HistoryQuota
-----------------------------------------------------------------------------
(* Control of the lock holder *)

Goto(place) == pc' = place /\ UNCHANGED <<job, outcome>>

Finish(answer) == pc' = "idle" /\ job' = NoJob /\ outcome' = answer

\* package_recover_transaction_impl returns to its caller.  An aborting commit
\* ignores the result; a commit that only clears its journal has succeeded.
Return(valid) ==
  CASE job.then = "report" -> Finish(IF valid THEN "aborted" ELSE "in doubt")
    [] job.then = "acknowledge" -> Finish("committed")
    [] OTHER -> IF valid
                THEN /\ pc' = job.then
                     /\ job' = [NoJob EXCEPT !.then = job.then, !.want = job.want,
                                             !.admitted = job.admitted]
                     /\ UNCHANGED outcome
                ELSE Finish("refused")

\* A command takes graph.lock; flock refuses every other one until it is idle.
Begin == /\ pc = "idle"
         /\ pc' = "recover"
         /\ job' = [NoJob EXCEPT !.then = "admit"]
         /\ outcome' = "none"
         /\ Quiet /\ UNCHANGED limits
-----------------------------------------------------------------------------
(* Recovery: package_recover_transaction_impl *)

\* Mutant of Verified: an absent lock has no image.
VerifiedAsIs(d) == \A r \in Roles : d[Before(r)] = d[Marker].before[r]

\* The before images are those the marker names.
Verified(d) == \A r \in Roles : d[Before(r)] = Image(d[Marker].before[r])

\* The generation the marker names goes back, from role on.
RollBack(role, sound) ==
  /\ pc' = "restore"
  /\ job' = [job EXCEPT !.role = role, !.sound = sound,
               !.rec = [before |-> disk[Marker].before,
                        after |-> disk[Marker].after,
                        history |-> disk[Marker].history]]
  /\ UNCHANGED outcome

\* Mutant of Committed: without force_abort.
CommittedUnforced == /\ disk[Marker].phase = "committed"
                     /\ ProjectOf(disk) = disk[Marker].after

\* force_abort is set when an aborting commit recovers ("report").
Committed == /\ job.then # "report"
             /\ disk[Marker].phase = "committed"
             /\ ProjectOf(disk) = disk[Marker].after

\* When the generation cannot be read, its error makes restore_entry return
\* for the manifest before any change; it is then set aside for the lock.
Recover ==
  /\ pc = "recover"
  /\ \/ ReadFault /\ Return(FALSE)
     \/ Quiet /\ disk[Marker] = Absent /\ Return(TRUE)
     \/ /\ disk[Marker] # Absent
        /\ \/ Quiet /\ ~Verified(disk) /\ Return(FALSE)
           \/ Quiet /\ Verified(disk) /\ Committed /\ Goto("clear")
           \/ Quiet /\ Verified(disk) /\ ~Committed /\ RollBack("manifest", TRUE)
           \/ ReadFault /\ Verified(disk) /\ RollBack("lock", FALSE)
  /\ UNCHANGED limits

Was == job.rec.before[job.role]
Will == job.rec.after[job.role]
OriginalEntry == Original(job.rec.history, job.role)
Current == disk[Project(job.role)]

\* Mutant of Restored: forgets the manifest's error when it does the lock.
RestoredUnsound(ok) ==
  IF job.role = "manifest"
  THEN /\ pc' = "restore"
       /\ job' = [job EXCEPT !.role = "lock", !.sound = IF ok THEN @ ELSE FALSE]
       /\ UNCHANGED outcome
  ELSE IF ok THEN Goto("clear") ELSE Return(FALSE)

\* package_transaction_restore_entry returns: the lock follows the manifest,
\* and the journal is cleared only if neither reported an error.
Restored(ok) ==
  IF job.role = "manifest"
  THEN /\ pc' = "restore"
       /\ job' = [job EXCEPT !.role = "lock", !.sound = IF ok THEN @ ELSE FALSE]
       /\ UNCHANGED outcome
  ELSE IF job.sound /\ ok THEN Goto("clear") ELSE Return(FALSE)

\* The error of this entry stands, whatever is done next.
Unsound(place) == /\ pc' = place
                  /\ job' = [job EXCEPT !.sound = FALSE]
                  /\ UNCHANGED outcome

\* restore_entry up to its first change: it reads both entries and decides.
Restore ==
  /\ pc = "restore"
  /\ LET parked == disk[OriginalEntry]
         changed == parked \notin {Absent, Was}
         keep == /\ pc' = "retain"
                 /\ job' = [job EXCEPT !.parked = parked]
                 /\ UNCHANGED outcome
     IN \/ ReadFault /\ Restored(FALSE)
        \/ Quiet /\ changed /\ Current = Absent /\ Unsound("put_back")
        \/ Quiet /\ changed /\ Current # Absent /\ Restored(FALSE)
        \/ Quiet /\ ~changed /\ Current = Was /\ Restored(TRUE)
        \/ /\ Quiet /\ ~changed /\ Current \notin {Was, Will, Absent}
           /\ Restored(FALSE)
        \/ Quiet /\ ~changed /\ Current # Was /\ Current = Will /\ keep
        \/ /\ Quiet /\ ~changed /\ Current # Was /\ Current = Absent
           /\ IF parked = Was THEN Goto("unpark") ELSE Restored(FALSE)
  /\ UNCHANGED limits

\* Mutant of PutBack: leaves it parked.
LeaveParked == /\ pc = "put_back" /\ Quiet
               /\ Restored(FALSE)
               /\ UNCHANGED limits

\* An original edited while parked goes back into an absent name.
PutBack == /\ pc = "put_back"
           /\ \E o \in Outcomes \cup {"fail"} :
                Rename(OriginalEntry, Project(job.role), o)
           /\ Restored(FALSE)
           /\ UNCHANGED limits

\* retain_current: quota check and a private directory for the moved inode.
Retain ==
  /\ pc = "retain"
  /\ \/ Fault /\ Restored(FALSE) /\ UNCHANGED limits
     \/ /\ Quiet /\ (Current = Absent \/ ~WithinBudget)
        /\ Restored(FALSE) /\ UNCHANGED limits
     \/ /\ Quiet /\ Current # Absent /\ WithinBudget
        /\ recoveries' = recoveries + 1 /\ UNCHANGED histories
        /\ Goto("move_current")

MoveCurrent ==
  /\ pc = "move_current"
  /\ \E o \in Outcomes \cup {"fail"} :
       /\ Rename(Project(job.role), Recovered(recoveries), o)
       /\ CASE o = "ok"   -> Goto("verify_current")
            [] o = "seen" -> Unsound("verify_current")
            [] o = "fail" -> Restored(FALSE)
  /\ UNCHANGED limits

\* The moved bytes are hashed again.  parked is the hash restore_entry took.
VerifyCurrent ==
  /\ pc = "verify_current"
  /\ \/ ReadFault /\ Unsound("return_current")
     \/ Quiet /\ disk[Recovered(recoveries)] # Will /\ Unsound("return_current")
     \/ /\ Quiet /\ disk[Recovered(recoveries)] = Will
        /\ CASE Was = Absent -> Restored(TRUE)
             [] Was # Absent /\ job.parked = Was -> Goto("unpark")
             [] Was # Absent /\ job.parked # Was -> Goto("stage_image")
  /\ UNCHANGED limits

ReturnCurrent == /\ pc = "return_current"
                 /\ \E o \in Outcomes \cup {"fail"} :
                      Rename(Recovered(recoveries), Project(job.role), o)
                 /\ Restored(FALSE)
                 /\ UNCHANGED limits

Unpark == /\ pc = "unpark"
          /\ \E o \in Outcomes \cup {"fail"} :
               /\ Rename(OriginalEntry, Project(job.role), o)
               /\ Restored(o = "ok")
          /\ UNCHANGED limits

\* The original is in neither place: a copy of the verified before image.
StageImage ==
  /\ pc = "stage_image"
  /\ \/ Quiet /\ ~WithinBudget /\ Restored(FALSE) /\ UNCHANGED limits
     \/ /\ WithinBudget
        /\ recoveries' = recoveries + 1 /\ UNCHANGED histories
        /\ \E o \in Outcomes :
             /\ Write(Recovered(recoveries + 1), Was, o)
             /\ IF o = "ok" THEN Goto("publish_image") ELSE Restored(FALSE)

PublishImage == /\ pc = "publish_image"
                /\ \E o \in Outcomes \cup {"fail"} :
                     /\ Rename(Recovered(recoveries), Project(job.role), o)
                     /\ Restored(o = "ok")
                /\ UNCHANGED limits

\* package_transaction_clear: the marker first, and the images only when its
\* removal is durable; errors in removing the images are discarded.
Clear ==
  /\ pc = "clear"
  /\ \E o \in Outcomes :
       /\ Remove(Marker, o)
       /\ IF o = "ok"
          THEN /\ pc' = "clear_image"
               /\ job' = [job EXCEPT !.role = "manifest"] /\ UNCHANGED outcome
          ELSE Return(FALSE)
  /\ UNCHANGED limits

ClearImage ==
  /\ pc = "clear_image"
  /\ \E o \in Outcomes : Remove(Before(job.role), o)
  /\ IF job.role = "manifest"
     THEN pc' = pc /\ job' = [job EXCEPT !.role = "lock"] /\ UNCHANGED outcome
     ELSE Return(TRUE)
  /\ UNCHANGED limits
-----------------------------------------------------------------------------
(* Commit: package_commit_transaction_impl, after admission *)

\* package_prepare_graph_impl reads the generation it resolves, and with
\* --locked, --frozen or an invalid graph ends without a commit.
Admit ==
  /\ pc = "admit"
  /\ Quiet /\ UNCHANGED limits
  /\ \/ Finish("refused")
     \/ /\ disk[Project("manifest")] # Absent
        /\ \E m \in GraphBytes \cup {disk[Project("manifest")]}, l \in GraphBytes :
             job' = [NoJob EXCEPT !.then = "commit", !.admitted = ProjectOf(disk),
                       !.want = [r \in Roles |-> IF r = "lock" THEN l ELSE m]]
        /\ pc' = "recover" /\ UNCHANGED outcome

\* Mutant of StillAdmitted: without the expected hashes.
StillPresent(before) == before["manifest"] # Absent

\* The generation must still be the admitted one.
StillAdmitted(before) == before["manifest"] # Absent /\ before = job.admitted

\* The transaction starts: a new history directory is created.
Commit ==
  /\ pc = "commit"
  /\ LET before == ProjectOf(disk)
     IN \/ ReadFault /\ Finish("refused") /\ UNCHANGED limits
        \/ Quiet /\ ~StillAdmitted(before) /\ Finish("refused") /\ UNCHANGED limits
        \/ /\ StillAdmitted(before)
           /\ \/ /\ Quiet /\ job.want = before
                 /\ Finish("unchanged") /\ UNCHANGED limits
              \/ /\ job.want # before
                 /\ \/ Fault
                    \/ Quiet /\ ~Admissible
                 /\ Finish("refused") /\ UNCHANGED limits
              \/ /\ Quiet /\ job.want # before /\ Admissible
                 /\ histories' = histories + 1 /\ UNCHANGED recoveries
                 /\ job' = [job EXCEPT
                      !.rec = [before |-> before, after |-> job.want,
                               history |-> histories + 1],
                      !.role = IF job.want["manifest"] = before["manifest"]
                               THEN "lock" ELSE "manifest"]
                 /\ pc' = "stage" /\ UNCHANGED outcome

StepTo(place, role) == /\ pc' = place
                       /\ job' = [job EXCEPT !.role = role]
                       /\ UNCHANGED outcome

\* Mutant of Stage: writes the manifest's buffer into both files.
StageManifestTwice ==
  /\ pc = "stage"
  /\ \E o \in Outcomes :
       /\ Write(New(job.rec.history, job.role), job.rec.after["manifest"], o)
       /\ CASE o # "ok" -> Finish("refused")
            [] o = "ok" /\ job.role = "manifest" -> StepTo("stage", "lock")
            [] o = "ok" /\ job.role = "lock" -> StepTo("save_image", "manifest")
  /\ UNCHANGED limits

Stage ==
  /\ pc = "stage"
  /\ \E o \in Outcomes :
       /\ Write(New(job.rec.history, job.role), Will, o)
       /\ CASE o # "ok" -> Finish("refused")
            [] o = "ok" /\ job.role = "manifest" -> StepTo("stage", "lock")
            [] o = "ok" /\ job.role = "lock" -> StepTo("save_image", "manifest")
  /\ UNCHANGED limits

\* Mutant of SaveImage: the lock's image is not written.
SaveManifestImage ==
  /\ pc = "save_image"
  /\ \E o \in Outcomes :
       /\ Write(Before(job.role), Image(Was), o)
       /\ IF o = "ok" THEN Goto("mark_pending") ELSE Finish("refused")
  /\ UNCHANGED limits

SaveImage ==
  /\ pc = "save_image"
  /\ \E o \in Outcomes :
       /\ Write(Before(job.role), Image(Was), o)
       /\ CASE o # "ok" -> Finish("refused")
            [] o = "ok" /\ job.role = "manifest" -> StepTo("save_image", "lock")
            [] o = "ok" /\ job.role = "lock" -> Goto("mark_pending")
  /\ UNCHANGED limits

MarkerOf(phase) == [phase |-> phase, before |-> job.rec.before,
                    after |-> job.rec.after, history |-> job.rec.history]

ManifestChanges == job.rec.before["manifest"] # job.rec.after["manifest"]
LockStep == StepTo(IF job.rec.before["lock"] = Absent THEN "publish" ELSE "park",
                   "lock")

MarkPending ==
  /\ pc = "mark_pending"
  /\ \E o \in Outcomes :
       /\ Write(Marker, MarkerOf("pending"), o)
       /\ CASE o = "fail" -> Finish("refused")
            [] o = "seen" -> Goto("abort")
            [] o = "ok" -> IF ManifestChanges THEN StepTo("park", "manifest")
                           ELSE LockStep
  /\ UNCHANGED limits

Park == /\ pc = "park"
        /\ \E o \in Outcomes \cup {"fail"} :
             /\ Rename(Project(job.role), OriginalEntry, o)
             /\ Goto(IF o = "ok" THEN "verify_parked" ELSE "abort")
        /\ UNCHANGED limits

VerifyParked ==
  /\ pc = "verify_parked"
  /\ \/ ReadFault /\ Goto("abort")
     \/ Quiet /\ Goto(IF disk[OriginalEntry] = Was THEN "publish" ELSE "abort")
  /\ UNCHANGED limits

Publish ==
  /\ pc = "publish"
  /\ \E o \in Outcomes \cup {"fail"} :
       /\ Rename(New(job.rec.history, job.role), Project(job.role), o)
       /\ CASE o # "ok" -> Goto("abort")
            [] o = "ok" /\ job.role = "manifest" -> LockStep
            [] o = "ok" /\ job.role = "lock" -> Goto("verify_generation")
  /\ UNCHANGED limits

VerifyGeneration ==
  /\ pc = "verify_generation"
  /\ \/ ReadFault /\ Goto("abort")
     \/ Quiet /\ Goto(IF ProjectOf(disk) = job.rec.after THEN "mark_committed"
                      ELSE "abort")
  /\ UNCHANGED limits

\* Mutant of MarkCommitted: a visible marker is taken for a durable one.
MarkVisiblyCommitted ==
  /\ pc = "mark_committed"
  /\ \E o \in Outcomes :
       /\ Write(Marker, MarkerOf("committed"), o)
       /\ IF o # "fail" THEN /\ pc' = "clear" /\ UNCHANGED outcome
                             /\ job' = [job EXCEPT !.then = "acknowledge"]
          ELSE Goto("abort")
  /\ UNCHANGED limits

MarkCommitted ==
  /\ pc = "mark_committed"
  /\ \E o \in Outcomes :
       /\ Write(Marker, MarkerOf("committed"), o)
       /\ IF o = "ok" THEN /\ pc' = "clear" /\ UNCHANGED outcome
                           /\ job' = [job EXCEPT !.then = "acknowledge"]
          ELSE Goto("abort")
  /\ UNCHANGED limits

\* The marker says pending again, whether or not it said committed, and the
\* commit recovers with force_abort even if that could not be recorded.
Abort ==
  /\ pc = "abort"
  /\ \E o \in Outcomes : Write(Marker, MarkerOf("pending"), o)
  /\ pc' = "recover" /\ job' = [job EXCEPT !.then = "report"]
  /\ UNCHANGED outcome
  /\ UNCHANGED limits
-----------------------------------------------------------------------------
(* The environment *)

\* The process is killed; the system releases graph.lock.
Crash == /\ pc # "idle" /\ spent.crashes < MaxCrashes
         /\ spent' = [spent EXCEPT !.crashes = @ + 1]
         /\ Finish("none")
         /\ UNCHANGED <<disk, media, limits>>

\* The machine stops; what was not synchronized may be undone.
PowerLoss == /\ spent.losses < MaxPowerLosses
             /\ pc # "idle" \/ media # {disk}
             /\ spent' = [spent EXCEPT !.losses = @ + 1]
             /\ disk' \in media /\ media' = {disk'}
             /\ Finish("none")
             /\ UNCHANGED limits

\* An editor flushes what it saves.
Edit(e, c) == LET w == [x \in {e} |-> c] IN
  /\ spent.edits < MaxEdits
  /\ c \in GraphBytes => e[3] \in EditorReverts
  /\ spent' = [spent EXCEPT !.edits = @ + 1]
  /\ disk' = Apply(disk, w)
  /\ media' = IF OrderedMetadata THEN {disk'} ELSE {Apply(d, w) : d \in media}
  /\ UNCHANGED <<limits, pc, job, outcome>>

\* It saves under the project's name, in place, by replacement or anew.
EditorSaves == \E r \in Roles, c \in EditorBytes : Edit(Project(r), c)

\* It writes through a file it opened before the entry was moved away.
EditorWritesOpenFile ==
  \E e \in Parked \cup Removed, c \in EditorBytes :
    disk[e] # Absent /\ pc # "publish_image" /\ Edit(e, c)

EditorRemoves ==
  \E r \in Roles \cap EditorDeletes : disk[Project(r)] # Absent /\ Edit(Project(r), Absent)
-----------------------------------------------------------------------------
Init ==
  /\ \E g \in Generation :
       disk = [e \in Entry |-> IF e[1] = "project" THEN g[e[3]] ELSE Absent]
  /\ media = {disk}
  /\ histories = 0 /\ recoveries = 0
  /\ pc = "idle" /\ job = NoJob /\ outcome = "none"
  /\ spent = [faults |-> 0, reads |-> 0, crashes |-> 0, losses |-> 0, edits |-> 0]

Recovery == Recover \/ Restore \/ PutBack \/ Retain \/ MoveCurrent
              \/ VerifyCurrent \/ ReturnCurrent \/ Unpark \/ StageImage
              \/ PublishImage \/ Clear \/ ClearImage
Commitment == Admit \/ Commit \/ Stage \/ SaveImage \/ MarkPending \/ Park
                \/ VerifyParked \/ Publish \/ VerifyGeneration \/ MarkCommitted
                \/ Abort
Holder == Begin \/ Recovery \/ Commitment
Editor == EditorSaves \/ EditorWritesOpenFile \/ EditorRemoves

Next == Holder \/ Crash \/ PowerLoss \/ Editor
Spec == Init /\ [][Next]_vars
-----------------------------------------------------------------------------
(* Properties *)

Places == {"idle", "recover", "restore", "put_back", "retain", "move_current",
           "verify_current", "return_current", "unpark", "stage_image",
           "publish_image", "clear", "clear_image", "admit", "commit", "stage",
           "save_image", "mark_pending", "park", "verify_parked", "publish",
           "verify_generation", "mark_committed", "abort"}

Answers == {"none", "refused", "unchanged", "committed", "aborted", "in doubt"}
Record == [before : Generation, after : [Roles -> Bytes], history : Histories]
Job == [then : {"stop", "admit", "commit", "report", "acknowledge"},
        role : Roles, sound : BOOLEAN, parked : Bytes \cup {Absent},
        admitted : Generation \cup {Absent}, want : [Roles -> Bytes] \cup {Absent},
        rec : Record \cup {NoRecord}]

\* Every variable keeps its type; the visible disk is always one that a power
\* loss may leave, and no quota of directories is exceeded.
TypeOK ==
  /\ disk \in Disk /\ media \subseteq Disk /\ disk \in media
  /\ histories \in 0..HistoryQuota /\ recoveries \in 0..(EntryQuota+1)
  /\ pc \in Places
  /\ job \in Job /\ outcome \in Answers

\* A marker that can reappear after a crash still has the before images and
\* the history it names: package_transaction_clear removes them only after
\* the marker's removal is durable, and a commit writes them first.
JournalRecoverable ==
  \A d \in media : d[Marker] # Absent => /\ Verified(d)
                                        /\ d[Marker].history <= histories

\* Whatever a power loss leaves while a journal exists, restore_entry finds
\* each entry either restored or in a form it can take back; no step of
\* commit or recovery passes through a state that recovery refuses.
RollbackReady ==
  \A d \in media : d[Marker] # Absent =>
    \A r \in Roles :
      LET m == d[Marker]
          current == d[Project(r)]
          parked == d[Original(m.history, r)]
      IN \/ current = m.before[r] /\ parked \in {Absent, m.before[r]}
         \/ current = m.after[r] /\ parked \in {Absent, m.before[r]}
         \/ current = Absent /\ parked = m.before[r]

\* No command ever discards bytes: what was in the project, parked, staged or
\* retained is still in one of these places after any step of the holder of
\* graph.lock, also when an editor changed it between a check and a rename.
Contents(d) == {d[e] : e \in Files} \ {Absent}
NothingDiscarded == [][Holder => Contents(disk) \subseteq Contents(disk')]_vars

\* A command that has finished without a failing operation, and before which
\* nobody deleted the manifest, leaves a manifest in the project, even if it
\* was killed before or an editor wrote into the entries it moves.
ManifestPresent ==
  (pc = "idle" /\ outcome # "none" /\ spent.faults = 0 /\ spent.reads = 0)
    => disk[Project("manifest")] # Absent

\* A generation changed between its admission and the transaction is never
\* replaced: what the journal promises to bring back is what was admitted.
ReplacesWhatWasAdmitted ==
  (job.then \in {"commit", "acknowledge"} /\ disk[Marker] # Absent)
    => disk[Marker].before = job.admitted

\* Recovery takes a missing entry for a deletion only if somebody deleted it:
\* when a known image appeared again, the before image is restored.
NotMistakenForDeletion ==
  (pc = "restore" /\ Current = Absent /\ job.role \notin EditorDeletes)
    => Was = Absent \/ disk[OriginalEntry] # Absent

\* The generation that recovery yields from disk d.
Yields(d) == IF d[Marker] = Absent \/ (/\ d[Marker].phase = "committed"
                                      /\ ProjectOf(d) = d[Marker].after)
             THEN ProjectOf(d) ELSE d[Marker].before
Outlook == {Yields(d) : d \in media}

\* A commit is reported only when every disk a power loss may leave yields the
\* new generation, and so also when clearing the journal failed.
AcknowledgedIsDurable ==
  [][(outcome # "committed" /\ outcome' = "committed") => Outlook' = {job.want}]_vars

\* A commit that reports a completed abort leaves the previous generation, on
\* every disk a power loss may leave, even if its committed marker was visible
\* and the abort phase could not be recorded.
AbortedKeepsGeneration ==
  [][(outcome # "aborted" /\ outcome' = "aborted")
       => Outlook' = {job.admitted}]_vars

\* The pair of files is one generation, replaced at one point in time.
None == Absent
CurrentGeneration == IF Cardinality(Outlook) = 1 THEN CHOOSE g \in Outlook : TRUE
                     ELSE (CHOOSE d \in media : /\ d[Marker] # Absent
                                                /\ Yields(d) = d[Marker].before
                          )[Marker].before
OpenGeneration ==
  IF Outlook # {CurrentGeneration}
  THEN CHOOSE g \in Outlook : g # CurrentGeneration
  ELSE IF pc \in {"mark_pending", "park", "verify_parked", "publish",
                  "verify_generation", "mark_committed"}
       THEN job.rec.after ELSE None
Atomic == INSTANCE AtomicGeneration
            WITH Generations <- Generation, None <- None,
                 current <- CurrentGeneration, open <- OpenGeneration
ReplacedAtomically == Atomic!Spec

\* A durable committed marker is the generation commit point: from then on no
\* command takes an entry of the generation back.
CommitPointIsFinal ==
  [][(Holder /\ \A d \in media : d[Marker] # Absent
                                 /\ d[Marker].phase = "committed")
       => ProjectOf(disk') = ProjectOf(disk)]_vars

\* When the quota of retained history refuses an operation, the previous
\* generation is unchanged.
QuotaLeavesGeneration ==
  (pc \in {"retain", "stage_image"} /\ ~WithinBudget)
    => ProjectOf(disk) = job.rec.before

\* A started command runs on; nobody is obliged to start one.
Fairness == WF_vars(Recovery \/ Commitment)
FairSpec == Spec /\ Fairness

\* If commands keep being started, the journal is always cleared in the end.
JournalSettles ==
  []<>(pc = "recover") => []<>(disk[Marker] = Absent)
=============================================================================
