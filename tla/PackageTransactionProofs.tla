---------------------- MODULE PackageTransactionProofs ----------------------
(* Theorems about PackageTransaction, for every value of its constants: its  *)
(* types; that no bytes are discarded; that its journal can always be        *)
(* recovered and taken back, on a file system that makes changes durable in  *)
(* the order in which they were made; that it names what the commit was      *)
(* admitted with; and that a manifest survives whatever a command and its    *)
(* recovery go through.                                                      *)
EXTENDS PackageTransaction, FiniteSetTheorems, TLAPS

\* The disk group of the typing invariant.
DiskOK == disk \in Disk /\ media \subseteq Disk /\ disk \in media

-----------------------------------------------------------------------------
(* Entries and the checked operations *)

LEMMA EntryFacts ==
  /\ \A r \in Roles : Project(r) \in Entry /\ Slot(Project(r)) = Bytes \cup {Absent}
  /\ \A h \in Histories, r \in Roles :
       /\ Original(h, r) \in Entry /\ Slot(Original(h, r)) = Bytes \cup {Absent}
       /\ New(h, r) \in Entry /\ Slot(New(h, r)) = Bytes \cup {Absent}
  /\ \A n \in Recoveries :
       Recovered(n) \in Entry /\ Slot(Recovered(n)) = Bytes \cup {Absent}
  /\ \A r \in Roles : /\ Before(r) \in Entry
                      /\ Slot(Before(r)) = Bytes \cup {Empty, Absent}
  /\ Marker \in Entry /\ Slot(Marker) = MarkerRecord \cup {Absent}
<1> USE DEF Entry, Files, Parked, Staged, Removed, Images, Slot, Project, Original,
        New, Recovered, Before, Marker, Roles
<1>1. \A r \in Roles : Project(r) \in Entry /\ Slot(Project(r)) = Bytes \cup {Absent}
  OBVIOUS
<1>2. \A h \in Histories, r \in Roles :
       /\ Original(h, r) \in Entry /\ Slot(Original(h, r)) = Bytes \cup {Absent}
       /\ New(h, r) \in Entry /\ Slot(New(h, r)) = Bytes \cup {Absent}
  OBVIOUS
<1>3. \A n \in Recoveries :
       Recovered(n) \in Entry /\ Slot(Recovered(n)) = Bytes \cup {Absent}
  OBVIOUS
<1>4. \A r \in Roles : /\ Before(r) \in Entry
                       /\ Slot(Before(r)) = Bytes \cup {Empty, Absent}
  OBVIOUS
<1>5. Marker \in Entry /\ Slot(Marker) = MarkerRecord \cup {Absent}
  OBVIOUS
<1> QED BY <1>1, <1>2, <1>3, <1>4, <1>5

\* A directory change that puts only what an entry may hold keeps the type.
LEMMA ApplyType ==
  ASSUME NEW d \in Disk, NEW w,
         \A e \in DOMAIN w : w[e] \in Slot(e)
  PROVE  Apply(d, w) \in Disk
<1>1. \A e \in Entry : Apply(d, w)[e] \in Slot(e)
  BY DEF Apply, Disk
<1>2. \A e \in Entry : Slot(e) \subseteq Bytes \cup {Empty, Absent} \cup MarkerRecord
  BY DEF Slot
<1> QED BY <1>1, <1>2 DEF Apply, Disk

LEMMA PerformType ==
  ASSUME DiskOK, NEW w, NEW o, \A e \in DOMAIN w : w[e] \in Slot(e), Perform(w, o)
  PROVE  DiskOK'
<1>1. \A d \in media : Apply(d, w) \in Disk
  BY ApplyType DEF DiskOK
<1>2. CASE o = "fail"
  BY <1>2 DEF Perform, DiskOK
<1>3. CASE o # "fail"
  <2>1. disk' = Apply(disk, w) /\ disk' \in Disk
    BY <1>1, <1>3 DEF Perform, DiskOK
  <2>2. Exposed(w) \subseteq Disk /\ disk' \in Exposed(w)
    BY <1>1, <2>1 DEF Exposed, DiskOK
  <2>3. CASE o = "seen"
    BY <1>3, <2>1, <2>2, <2>3 DEF Perform, DiskOK
  <2>4. CASE o # "seen"
    <3> DEFINE dirs == {Dir(e) : e \in DOMAIN w}
               merge(d) == [e \in Entry |-> IF Dir(e) \in dirs THEN disk'[e] ELSE d[e]]
    <3>1. media' = Flushed(Exposed(w), disk', dirs)
      BY <1>3, <2>1, <2>4 DEF Perform
    <3>2. \A d \in Disk : merge(d) \in Disk
      BY <2>1 DEF Disk
    <3>3. merge(disk') = disk'
      BY <2>1 DEF Disk
    <3> HIDE DEF dirs, merge
    <3>4. CASE OrderedMetadata
      BY <2>1, <3>1, <3>4 DEF Flushed, DiskOK
    <3>5. CASE ~OrderedMetadata
      <4>1. media' = {merge(d) : d \in Exposed(w)}
        BY <3>1, <3>5 DEF Flushed, merge
      <4> QED BY <2>1, <2>2, <3>2, <3>3, <4>1 DEF DiskOK
    <3> QED BY <3>4, <3>5
  <2> QED BY <2>3, <2>4
<1> QED BY <1>2, <1>3

LEMMA WriteType ==
  ASSUME DiskOK, NEW e, NEW c \in Slot(e), NEW o, Write(e, c, o)
  PROVE  DiskOK'
<1> DEFINE w == [x \in {e} |-> c]
<1>1. \A x \in DOMAIN w : w[x] \in Slot(x)
  OBVIOUS
<1>2. Perform(w, o)
  BY DEF Write
<1> HIDE DEF w
<1> QED BY <1>1, <1>2, PerformType

LEMMA RemoveType ==
  ASSUME DiskOK, NEW e, Absent \in Slot(e), NEW o, Remove(e, o)
  PROVE  DiskOK'
BY WriteType DEF Remove

LEMMA RenameType ==
  ASSUME DiskOK, NEW from \in Entry, NEW to \in Entry, NEW o, Rename(from, to, o),
         Slot(from) = Bytes \cup {Absent}, Slot(to) = Bytes \cup {Absent}
  PROVE  DiskOK'
<1>1. CASE UNCHANGED <<disk, media, spent>>
  BY <1>1 DEF DiskOK
<1>2. CASE Perform([x \in {from, to} |-> IF x = to THEN disk[from] ELSE Absent], o)
  <2> DEFINE w == [x \in {from, to} |-> IF x = to THEN disk[from] ELSE Absent]
  <2>1. disk[from] \in Bytes \cup {Absent}
    BY DEF DiskOK, Disk
  <2>2. \A x \in DOMAIN w : w[x] \in Slot(x)
    BY <2>1
  <2>3. Perform(w, o)
    BY <1>2
  <2> HIDE DEF w
  <2> QED BY <2>2, <2>3, PerformType
<1> QED BY <1>1, <1>2 DEF Rename
-----------------------------------------------------------------------------
(* Control: where the lock holder is, and what its local variables hold there *)

WithRecord == Places \ {"idle", "recover", "clear", "clear_image", "admit", "commit"}
Retaining == {"move_current", "verify_current", "return_current", "publish_image"}

ControlOK ==
  /\ pc \in Places /\ job \in Job /\ outcome \in Answers
  /\ pc # "idle" => job.then # "stop"
  /\ pc \in WithRecord => job.rec \in Record
  /\ pc = "commit" => job.then = "commit"
  /\ job.then = "commit" => job.want \in [Roles -> Bytes]
  /\ pc = "stage_image" => Was # Absent
  /\ pc \in Retaining => recoveries \in Recoveries

TypeInv == /\ DiskOK /\ ControlOK
           /\ histories \in 0..HistoryQuota /\ recoveries \in 0..(EntryQuota+1)

LEMMA NoJobType == NoJob \in Job /\ NoJob.then = "stop"
BY DEF NoJob, NoRecord, Job, Roles

LEMMA FinishOK == ASSUME NEW a \in Answers, Finish(a) PROVE ControlOK'
BY NoJobType DEF Finish, ControlOK, Places, WithRecord, Retaining

LEMMA ReturnOK ==
  ASSUME ControlOK, pc # "idle", NEW v \in BOOLEAN, Return(v)
  PROVE  ControlOK'
<1>1. CASE job.then \in {"report", "acknowledge"} \/ ~v
  BY <1>1, FinishOK DEF Return, Answers
<1>2. CASE job.then \notin {"report", "acknowledge"} /\ v
  <2>1. /\ pc' = job.then /\ outcome' = outcome
        /\ job' = [NoJob EXCEPT !.then = job.then, !.want = job.want,
                                !.admitted = job.admitted]
        /\ job.then \in {"admit", "commit"}
    BY <1>2 DEF Return, ControlOK, Job
  <2> QED BY <2>1, NoJobType DEF ControlOK, Job, Places, WithRecord, Retaining
<1> QED BY <1>1, <1>2

LEMMA RestoredOK ==
  ASSUME ControlOK, pc \in WithRecord, NEW ok \in BOOLEAN, Restored(ok)
  PROVE  ControlOK'
<1>1. CASE job.role = "manifest"
  <2> DEFINE s == IF ok THEN job.sound ELSE FALSE
  <2>1. s \in BOOLEAN
    BY DEF ControlOK, Job
  <2>2. /\ pc' = "restore" /\ outcome' = outcome
        /\ job' = [job EXCEPT !.role = "lock", !.sound = s]
    BY <1>1 DEF Restored
  <2> HIDE DEF s
  <2>3. job' \in Job /\ job'.then = job.then /\ job'.rec = job.rec
        /\ job'.admitted = job.admitted /\ job'.want = job.want
    BY <2>1, <2>2 DEF ControlOK, Job, Roles
  <2> QED BY <2>2, <2>3 DEF ControlOK, Places, WithRecord, Retaining
<1>2. CASE job.role # "manifest" /\ job.sound /\ ok
  BY <1>2 DEF Restored, Goto, ControlOK, Places, WithRecord, Retaining
<1>3. CASE job.role # "manifest" /\ ~(job.sound /\ ok)
  BY <1>3, ReturnOK DEF Restored, WithRecord
<1> QED BY <1>1, <1>2, <1>3

\* What the local record gives the steps that use it.
LEMMA RecordFacts ==
  ASSUME ControlOK, job.rec \in Record
  PROVE  /\ Was \in Bytes \cup {Absent} /\ Will \in Bytes
         /\ Image(Was) \in Bytes \cup {Empty}
         /\ OriginalEntry \in Entry /\ Slot(OriginalEntry) = Bytes \cup {Absent}
         /\ New(job.rec.history, job.role) \in Entry
         /\ Slot(New(job.rec.history, job.role)) = Bytes \cup {Absent}
         /\ MarkerOf("pending") \in MarkerRecord
         /\ MarkerOf("committed") \in MarkerRecord
<1>1. job.role \in Roles /\ job.rec.history \in Histories
      /\ job.rec.before \in Generation /\ job.rec.after \in [Roles -> Bytes]
  BY DEF ControlOK, Job, Record
<1>2. Was \in Bytes \cup {Absent} /\ Will \in Bytes
  BY <1>1 DEF Was, Will, Generation
<1> QED BY <1>1, <1>2, EntryFacts DEF OriginalEntry, Image, MarkerOf, MarkerRecord

LEMMA HistoryEntriesFinite == IsFiniteSet(Parked \cup Staged \cup Removed)
<1>1. IsFiniteSet(Histories) /\ IsFiniteSet(Recoveries)
  BY FS_Interval, QuotaAssumption DEF Histories, Recoveries
<1>2. IsFiniteSet(Roles)
  <2>1. Roles = {"manifest"} \cup {"lock"}
    BY DEF Roles
  <2> QED BY <2>1, FS_Singleton, FS_Union
<1>3. IsFiniteSet(Histories \X Roles)
  BY <1>1, <1>2, FS_Product
<1>4. IsFiniteSet(Parked)
  <2> DEFINE f == [x \in Histories \X Roles |-> Original(x[1], x[2])]
  <2>1. f \in [Histories \X Roles -> Parked]
    BY DEF Parked
  <2>2. \A e \in Parked : \E x \in Histories \X Roles : f[x] = e
    <3> SUFFICES ASSUME NEW e \in Parked PROVE \E x \in Histories \X Roles : f[x] = e
      OBVIOUS
    <3>1. PICK h \in Histories, r \in Roles : e = Original(h, r)
      BY DEF Parked
    <3>2. <<h, r>> \in Histories \X Roles /\ f[<<h, r>>] = e
      BY <3>1
    <3> QED BY <3>2
  <2>3. f \in Surjection(Histories \X Roles, Parked)
    <3> HIDE DEF f
    <3> QED BY <2>1, <2>2 DEF Surjection
  <2> HIDE DEF f
  <2> QED BY <1>3, <2>3, FS_Surjection
<1>5. IsFiniteSet(Staged)
  <2> DEFINE f == [x \in Histories \X Roles |-> New(x[1], x[2])]
  <2>1. f \in [Histories \X Roles -> Staged]
    BY DEF Staged
  <2>2. \A e \in Staged : \E x \in Histories \X Roles : f[x] = e
    <3> SUFFICES ASSUME NEW e \in Staged PROVE \E x \in Histories \X Roles : f[x] = e
      OBVIOUS
    <3>1. PICK h \in Histories, r \in Roles : e = New(h, r)
      BY DEF Staged
    <3>2. <<h, r>> \in Histories \X Roles /\ f[<<h, r>>] = e
      BY <3>1
    <3> QED BY <3>2
  <2>3. f \in Surjection(Histories \X Roles, Staged)
    <3> HIDE DEF f
    <3> QED BY <2>1, <2>2 DEF Surjection
  <2> HIDE DEF f
  <2> QED BY <1>3, <2>3, FS_Surjection
<1>6. IsFiniteSet(Removed)
  <2> DEFINE f == [n \in Recoveries |-> Recovered(n)]
  <2>1. f \in [Recoveries -> Removed]
    BY DEF Removed
  <2>2. \A e \in Removed : \E x \in Recoveries : f[x] = e
    <3> SUFFICES ASSUME NEW e \in Removed PROVE \E x \in Recoveries : f[x] = e
      OBVIOUS
    <3> QED BY DEF Removed
  <2>3. f \in Surjection(Recoveries, Removed)
    <3> HIDE DEF f
    <3> QED BY <2>1, <2>2 DEF Surjection
  <2> HIDE DEF f
  <2> QED BY <1>1, <2>3, FS_Surjection
<1> QED BY <1>4, <1>5, <1>6, FS_Union

\* A recovery directory admitted by the quota has a name of its own.
LEMMA UsedBound ==
  ASSUME TypeInv, WithinBudget
  PROVE  recoveries + 1 \in Recoveries
<1> DEFINE S == {e \in Parked \cup Staged \cup Removed : disk[e] # Absent}
<1>1. Cardinality(S) \in Nat
  BY HistoryEntriesFinite, FS_Subset, FS_CardinalityType, S \in SUBSET (Parked \cup Staged \cup Removed)
<1>2. recoveries + Cardinality(S) <= EntryQuota
  BY DEF WithinBudget, Used
<1> QED BY <1>1, <1>2, QuotaAssumption DEF TypeInv, Recoveries

LEMMA InitType == Init => TypeInv
<1> SUFFICES ASSUME Init PROVE TypeInv
  OBVIOUS
<1>1. PICK g \in Generation :
        disk = [e \in Entry |-> IF e[1] = "project" THEN g[e[3]] ELSE Absent]
  BY DEF Init
<1>2. \A e \in Entry : disk[e] \in Slot(e) /\ disk[e] \in Bytes \cup {Absent}
  <2> SUFFICES ASSUME NEW e \in Entry
               PROVE  disk[e] \in Slot(e) /\ disk[e] \in Bytes \cup {Absent}
    OBVIOUS
  <2>1. CASE \E r \in Roles : e = Project(r)
    BY <1>1, <2>1, EntryFacts DEF Project, Generation
  <2>2. CASE ~ \E r \in Roles : e = Project(r)
    <3>1. e[1] # "project"
      BY <2>2 DEF Entry, Files, Parked, Staged, Removed, Images, Project, Original,
           New, Recovered, Before, Marker
    <3>2. disk[e] = Absent
      BY <1>1, <3>1
    <3> QED BY <3>2 DEF Slot
  <2> QED BY <2>1, <2>2
<1>3. DiskOK
  BY <1>1, <1>2 DEF DiskOK, Disk, Init
<1>4. ControlOK
  BY NoJobType DEF Init, ControlOK, Places, Answers, WithRecord, Retaining
<1> QED BY <1>3, <1>4, QuotaAssumption DEF Init, TypeInv
-----------------------------------------------------------------------------
(* Every step keeps the types *)

\* A step to a place, possibly with a new role or a standing error.
LEMMA StepOK ==
  ASSUME ControlOK, pc \in WithRecord,
         NEW place \in Places \ {"idle", "commit", "stage_image"},
         place \in Retaining => recoveries' \in Recoveries,
         NEW role \in Roles,
         Goto(place) \/ StepTo(place, role) \/ Unsound(place)
  PROVE  ControlOK'
<1>1. outcome' = outcome /\ pc' = place
  BY DEF Goto, StepTo, Unsound
<1>2. job' = job \/ job' = [job EXCEPT !.role = role] \/ job' = [job EXCEPT !.sound = FALSE]
  BY DEF Goto, StepTo, Unsound
<1>3. job' \in Job /\ job'.then = job.then /\ job'.rec = job.rec
      /\ job'.admitted = job.admitted /\ job'.want = job.want
  BY <1>2 DEF ControlOK, Job
<1>4. job.rec \in Record /\ job.then # "stop"
  BY DEF ControlOK, WithRecord
<1> QED BY <1>1, <1>3, <1>4 DEF ControlOK

LEMMA QuietType == ASSUME DiskOK, UNCHANGED <<disk, media>> PROVE DiskOK'
BY DEF DiskOK

\* ControlOK reads nothing of the disks.
LEMMA ControlUnchanged ==
  ASSUME ControlOK, UNCHANGED <<pc, job, outcome, recoveries>> PROVE ControlOK'
BY DEF ControlOK, Was

Limits == histories \in 0..HistoryQuota /\ recoveries \in 0..(EntryQuota+1)

LEMMA RecoveryType ==
  ASSUME TypeInv, Recovery
  PROVE  TypeInv'
<1> USE DEF TypeInv
<1>0. pc \in WithRecord => job.rec \in Record /\ job.role \in Roles /\ pc # "idle"
  BY DEF ControlOK, Job, WithRecord
<1>1. CASE Recover
  <2>1. DiskOK'
    BY <1>1, QuietType DEF Recover, Quiet, ReadFault
  <2>2. CASE Return(TRUE) \/ Return(FALSE)
    BY <1>1, <2>1, <2>2, ReturnOK DEF Recover, limits
  <2>3. CASE Goto("clear")
    BY <1>1, <2>1, <2>3 DEF Recover, Goto, limits, ControlOK, Places, WithRecord,
       Retaining
  <2>4. ASSUME NEW role \in Roles, NEW sound \in BOOLEAN, disk[Marker] # Absent,
               RollBack(role, sound)
        PROVE  TypeInv'
    <3> DEFINE rec == [before |-> disk[Marker].before, after |-> disk[Marker].after,
                       history |-> disk[Marker].history]
    <3>1. disk[Marker] \in MarkerRecord
      BY <2>4, EntryFacts DEF DiskOK, Disk
    <3>2. rec \in Record
      BY <3>1 DEF MarkerRecord, Record
    <3>3. /\ job' = [job EXCEPT !.role = role, !.sound = sound, !.rec = rec]
          /\ pc' = "restore" /\ outcome' = outcome
      BY <2>4 DEF RollBack
    <3> HIDE DEF rec
    <3>4. job' \in Job /\ job'.then = job.then /\ job'.rec \in Record
          /\ job'.admitted = job.admitted /\ job'.want = job.want
      BY <3>2, <3>3 DEF ControlOK, Job
    <3>5. pc = "recover"
      BY <1>1 DEF Recover
    <3>6. ControlOK'
      BY <3>3, <3>4, <3>5 DEF ControlOK, Places, WithRecord, Retaining
    <3> QED BY <1>1, <2>1, <3>6 DEF Recover, limits
  <2> QED BY <1>1, <2>2, <2>3, <2>4 DEF Recover, Roles
<1>2. CASE Restore
  <2>1. pc = "restore" /\ pc \in WithRecord /\ UNCHANGED limits
    BY <1>2 DEF Restore, WithRecord, Places
  <2>2. DiskOK'
    BY <1>2, QuietType DEF Restore, Quiet, ReadFault
  <2>3. CASE Restored(TRUE) \/ Restored(FALSE)
    BY <2>1, <2>2, <2>3, RestoredOK DEF limits
  <2>4. CASE Unsound("put_back") \/ Goto("unpark")
    BY <2>1, <2>2, <2>4, <1>0, StepOK DEF limits, Places, Retaining
  <2>5. CASE /\ pc' = "retain" /\ UNCHANGED outcome
             /\ job' = [job EXCEPT !.parked = disk[OriginalEntry]]
    <3>1. disk[OriginalEntry] \in Bytes \cup {Absent}
      BY <1>0, <2>1, RecordFacts DEF DiskOK, Disk
    <3>2. job' \in Job /\ job'.then = job.then /\ job'.rec = job.rec
          /\ job'.admitted = job.admitted /\ job'.want = job.want
      BY <2>5, <3>1 DEF ControlOK, Job
    <3>3. ControlOK'
      BY <1>0, <2>1, <2>5, <3>2 DEF ControlOK, Places, Retaining
    <3> QED BY <2>1, <2>2, <3>3 DEF limits
  <2> QED BY <1>2, <2>3, <2>4, <2>5 DEF Restore
<1>3. CASE PutBack
  <2>1. pc \in WithRecord /\ UNCHANGED limits /\ Restored(FALSE)
    BY <1>3 DEF PutBack, WithRecord, Places
  <2>2. DiskOK'
    BY <1>0, <1>3, <2>1, RecordFacts, EntryFacts, RenameType DEF PutBack
  <2> QED BY <2>1, <2>2, RestoredOK DEF limits
<1>4. CASE Retain
  <2>1. pc \in WithRecord /\ pc = "retain"
    BY <1>4 DEF Retain, WithRecord, Places
  <2>2. DiskOK'
    BY <1>4, QuietType DEF Retain, Quiet, Fault
  <2>3. CASE Restored(FALSE) /\ UNCHANGED limits
    BY <2>1, <2>2, <2>3, RestoredOK DEF limits
  <2>4. CASE /\ WithinBudget /\ Goto("move_current")
             /\ recoveries' = recoveries + 1 /\ UNCHANGED histories
    <3>1. recoveries' \in Recoveries
      BY <2>4, UsedBound
    <3>2. ControlOK'
      BY <1>0, <2>1, <2>4, <3>1, StepOK DEF Places
    <3> QED BY <2>2, <2>4, <3>1, <3>2, QuotaAssumption DEF Recoveries
  <2> QED BY <1>4, <2>3, <2>4 DEF Retain
<1>5. CASE MoveCurrent
  <2>1. /\ pc \in WithRecord /\ pc = "move_current" /\ UNCHANGED limits
        /\ recoveries \in Recoveries
    BY <1>5 DEF MoveCurrent, WithRecord, Places, ControlOK, Retaining
  <2>2. DiskOK'
    BY <1>0, <1>5, <2>1, EntryFacts, RenameType DEF MoveCurrent
  <2>3. CASE Restored(FALSE)
    BY <2>1, <2>2, <2>3, RestoredOK DEF limits
  <2>4. CASE Goto("verify_current") \/ Unsound("verify_current")
    BY <1>0, <2>1, <2>2, <2>4, StepOK DEF Places, limits
  <2> QED BY <1>5, <2>3, <2>4 DEF MoveCurrent, Outcomes
<1>6. CASE VerifyCurrent
  <2>1. pc \in WithRecord /\ pc = "verify_current" /\ UNCHANGED limits
    BY <1>6 DEF VerifyCurrent, WithRecord, Places
  <2>2. DiskOK' /\ recoveries \in Recoveries
    BY <1>6, QuietType DEF VerifyCurrent, Quiet, ReadFault, ControlOK, Retaining
  <2>3. CASE Restored(TRUE)
    BY <2>1, <2>2, <2>3, RestoredOK DEF limits
  <2>4. CASE Goto("unpark") \/ Unsound("return_current")
    BY <1>0, <2>1, <2>2, <2>4, StepOK DEF Places, limits
  <2>5. CASE Was # Absent /\ Goto("stage_image")
    <3>1. ControlOK'
      BY <1>0, <2>1, <2>5 DEF Goto, ControlOK, Places, Was, Retaining, limits
    <3> QED BY <2>1, <2>2, <3>1 DEF limits
  <2> QED BY <1>6, <2>3, <2>4, <2>5 DEF VerifyCurrent
<1>7. CASE ReturnCurrent
  <2>1. /\ pc \in WithRecord /\ pc = "return_current" /\ UNCHANGED limits
        /\ recoveries \in Recoveries /\ Restored(FALSE)
    BY <1>7 DEF ReturnCurrent, WithRecord, Places, ControlOK, Retaining
  <2>2. DiskOK'
    BY <1>0, <1>7, <2>1, EntryFacts, RenameType DEF ReturnCurrent
  <2> QED BY <2>1, <2>2, RestoredOK DEF limits
<1>8. CASE Unpark
  <2>1. pc \in WithRecord /\ pc = "unpark" /\ UNCHANGED limits
    BY <1>8 DEF Unpark, WithRecord, Places
  <2>2. DiskOK'
    BY <1>0, <1>8, <2>1, RecordFacts, EntryFacts, RenameType DEF Unpark
  <2>3. PICK ok \in BOOLEAN : Restored(ok)
    BY <1>8 DEF Unpark
  <2> QED BY <2>1, <2>2, <2>3, RestoredOK DEF limits
<1>9. CASE StageImage
  <2>1. pc \in WithRecord /\ pc = "stage_image"
    BY <1>9 DEF StageImage, WithRecord, Places
  <2>2. CASE Quiet /\ Restored(FALSE) /\ UNCHANGED limits
    BY <2>1, <2>2, QuietType, RestoredOK DEF limits, Quiet
  <2>3. ASSUME WithinBudget, recoveries' = recoveries + 1, UNCHANGED histories,
               NEW o \in Outcomes, Write(Recovered(recoveries + 1), Was, o),
               Goto("publish_image") \/ Restored(FALSE)
        PROVE  TypeInv'
    <3>1. recoveries + 1 \in Recoveries
      BY <2>3, UsedBound
    <3>2. Was \in Slot(Recovered(recoveries + 1))
      BY <1>0, <2>1, <3>1, RecordFacts, EntryFacts
    <3>3. DiskOK'
      BY <2>3, <3>2, WriteType
    <3>4. ControlOK'
      BY <1>0, <2>1, <2>3, <3>1, StepOK, RestoredOK DEF Places
    <3> QED BY <2>3, <3>1, <3>3, <3>4, QuotaAssumption DEF Recoveries
  <2> QED BY <1>9, <2>2, <2>3 DEF StageImage
<1>10. CASE PublishImage
  <2>1. /\ pc \in WithRecord /\ pc = "publish_image" /\ UNCHANGED limits
        /\ recoveries \in Recoveries
    BY <1>10 DEF PublishImage, WithRecord, Places, ControlOK, Retaining
  <2>2. DiskOK'
    BY <1>0, <1>10, <2>1, EntryFacts, RenameType DEF PublishImage
  <2>3. PICK ok \in BOOLEAN : Restored(ok)
    BY <1>10 DEF PublishImage
  <2> QED BY <2>1, <2>2, <2>3, RestoredOK DEF limits
<1>11. CASE Clear
  <2>1. pc = "clear" /\ UNCHANGED limits
    BY <1>11 DEF Clear
  <2>2. DiskOK'
    BY <1>11, EntryFacts, RemoveType DEF Clear
  <2>3. CASE Return(FALSE)
    BY <2>1, <2>2, <2>3, ReturnOK DEF limits
  <2>4. CASE /\ pc' = "clear_image" /\ UNCHANGED outcome
             /\ job' = [job EXCEPT !.role = "manifest"]
    <3>1. job' \in Job /\ job'.then = job.then /\ job'.rec = job.rec
          /\ job'.admitted = job.admitted /\ job'.want = job.want
      BY <2>4 DEF ControlOK, Job, Roles
    <3>2. ControlOK'
      BY <2>1, <2>4, <3>1 DEF ControlOK, Places, WithRecord, Retaining
    <3> QED BY <2>1, <2>2, <3>2 DEF limits
  <2> QED BY <1>11, <2>3, <2>4 DEF Clear
<1>12. CASE ClearImage
  <2>1. pc = "clear_image" /\ UNCHANGED limits /\ job.role \in Roles
    BY <1>12 DEF ClearImage, ControlOK, Job
  <2>2. DiskOK'
    BY <1>12, <2>1, EntryFacts, RemoveType DEF ClearImage
  <2>3. CASE Return(TRUE)
    BY <2>1, <2>2, <2>3, ReturnOK DEF limits
  <2>4. CASE /\ pc' = pc /\ UNCHANGED outcome
             /\ job' = [job EXCEPT !.role = "lock"]
    <3>1. job' \in Job /\ job'.then = job.then /\ job'.rec = job.rec
          /\ job'.admitted = job.admitted /\ job'.want = job.want
      BY <2>4 DEF ControlOK, Job, Roles
    <3>2. ControlOK'
      BY <2>1, <2>4, <3>1 DEF ControlOK, Places, WithRecord, Retaining
    <3> QED BY <2>1, <2>2, <3>2 DEF limits
  <2> QED BY <1>12, <2>3, <2>4 DEF ClearImage
<1> QED BY <1>1, <1>2, <1>3, <1>4, <1>5, <1>6, <1>7, <1>8, <1>9, <1>10, <1>11, <1>12
        DEF Recovery

\* The generation the project holds, when its manifest is there.
LEMMA ProjectType ==
  ASSUME DiskOK, disk[Project("manifest")] # Absent
  PROVE  ProjectOf(disk) \in Generation
<1>1. \A r \in Roles : disk[Project(r)] \in Bytes \cup {Absent}
  BY EntryFacts DEF DiskOK, Disk
<1> QED BY <1>1 DEF ProjectOf, Generation, Roles

LEMMA CommitmentType ==
  ASSUME TypeInv, Commitment
  PROVE  TypeInv'
<1> USE DEF TypeInv
<1>0. pc \in WithRecord => job.rec \in Record /\ job.role \in Roles /\ pc # "idle"
  BY DEF ControlOK, Job, WithRecord
<1>1. CASE Admit
  <2>1. DiskOK' /\ UNCHANGED limits
    BY <1>1, QuietType DEF Admit, Quiet
  <2>2. CASE Finish("refused")
    BY <2>1, <2>2, FinishOK DEF limits, Answers
  <2>3. ASSUME NEW m \in GraphBytes \cup {disk[Project("manifest")]},
               NEW l \in GraphBytes, disk[Project("manifest")] # Absent,
               job' = [NoJob EXCEPT !.then = "commit", !.admitted = ProjectOf(disk),
                         !.want = [r \in Roles |-> IF r = "lock" THEN l ELSE m]],
               pc' = "recover", UNCHANGED outcome
        PROVE  TypeInv'
    <3> DEFINE want == [r \in Roles |-> IF r = "lock" THEN l ELSE m]
    <3>1. m \in Bytes /\ l \in Bytes
      BY <2>3, EntryFacts DEF DiskOK, Disk, Bytes, Roles
    <3>2. want \in [Roles -> Bytes]
      BY <3>1
    <3>3. job' = [NoJob EXCEPT !.then = "commit", !.admitted = ProjectOf(disk),
                               !.want = want]
      BY <2>3
    <3> HIDE DEF want
    <3>4. ProjectOf(disk) \in Generation
      BY <2>3, ProjectType
    <3>5. /\ job' \in Job /\ job'.then = "commit" /\ job'.admitted = ProjectOf(disk)
          /\ job'.want = want
      BY <3>2, <3>3, <3>4, NoJobType DEF Job
    <3>6. ControlOK'
      BY <2>3, <3>2, <3>5 DEF ControlOK, Places, WithRecord, Retaining
    <3> QED BY <2>1, <3>6 DEF limits
  <2> QED BY <1>1, <2>1, <2>2, <2>3 DEF Admit
<1>2. CASE Commit
  <2> DEFINE before == ProjectOf(disk)
  <2>1. DiskOK' /\ pc = "commit"
    BY <1>2, QuietType DEF Commit, Quiet, ReadFault, Fault
  <2>2. CASE (Finish("refused") \/ Finish("unchanged")) /\ UNCHANGED limits
    BY <2>1, <2>2, FinishOK DEF limits, Answers
  <2>3. CASE /\ StillAdmitted(before) /\ Admissible
             /\ histories' = histories + 1 /\ UNCHANGED recoveries
             /\ job' = [job EXCEPT
                  !.rec = [before |-> before, after |-> job.want,
                           history |-> histories + 1],
                  !.role = IF job.want["manifest"] = before["manifest"]
                           THEN "lock" ELSE "manifest"]
             /\ pc' = "stage" /\ UNCHANGED outcome
    <3> DEFINE rec == [before |-> before, after |-> job.want,
                       history |-> histories + 1]
               role == IF job.want["manifest"] = before["manifest"]
                       THEN "lock" ELSE "manifest"
    <3>1. histories + 1 \in Histories
      BY <2>3, QuotaAssumption DEF Admissible, Histories
    <3>2. before \in Generation
      BY <2>3, ProjectType DEF StillAdmitted, ProjectOf, Roles
    <3>3. rec \in Record /\ role \in Roles
      BY <2>1, <3>1, <3>2 DEF Record, ControlOK, Roles
    <3>4. job' = [job EXCEPT !.rec = rec, !.role = role]
      BY <2>3
    <3> HIDE DEF rec, role
    <3>5. /\ job' \in Job /\ job'.then = job.then /\ job'.rec \in Record
          /\ job'.admitted = job.admitted /\ job'.want = job.want
      BY <3>3, <3>4 DEF ControlOK, Job
    <3>6. ControlOK'
      BY <2>1, <2>3, <3>5 DEF ControlOK, Places, WithRecord, Retaining
    <3> QED BY <2>1, <2>3, <3>1, <3>6 DEF Histories
  <2> QED BY <1>2, <2>2, <2>3 DEF Commit
<1>3. CASE Stage
  <2>1. pc \in WithRecord /\ pc = "stage" /\ UNCHANGED limits
    BY <1>3 DEF Stage, WithRecord, Places
  <2>2. DiskOK'
    BY <1>0, <1>3, <2>1, RecordFacts, WriteType DEF Stage
  <2>3. CASE Finish("refused")
    BY <2>1, <2>2, <2>3, FinishOK DEF limits, Answers
  <2>4. CASE StepTo("stage", "lock") \/ StepTo("save_image", "manifest")
    BY <1>0, <2>1, <2>2, <2>4, StepOK DEF limits, Places, Roles, Retaining
  <2> QED BY <1>0, <1>3, <2>1, <2>3, <2>4 DEF Stage, Roles
<1>4. CASE SaveImage
  <2>1. pc \in WithRecord /\ pc = "save_image" /\ UNCHANGED limits
    BY <1>4 DEF SaveImage, WithRecord, Places
  <2>2. DiskOK'
    BY <1>0, <1>4, <2>1, RecordFacts, EntryFacts, WriteType DEF SaveImage
  <2>3. CASE Finish("refused")
    BY <2>1, <2>2, <2>3, FinishOK DEF limits, Answers
  <2>4. CASE StepTo("save_image", "lock") \/ Goto("mark_pending")
    BY <1>0, <2>1, <2>2, <2>4, StepOK DEF limits, Places, Roles, Retaining
  <2> QED BY <1>0, <1>4, <2>1, <2>3, <2>4 DEF SaveImage, Roles
<1>5. CASE MarkPending
  <2>1. pc \in WithRecord /\ pc = "mark_pending" /\ UNCHANGED limits
    BY <1>5 DEF MarkPending, WithRecord, Places
  <2>2. DiskOK'
    BY <1>0, <1>5, <2>1, RecordFacts, EntryFacts, WriteType DEF MarkPending
  <2>3. CASE Finish("refused")
    BY <2>1, <2>2, <2>3, FinishOK DEF limits, Answers
  <2>4. CASE Goto("abort") \/ StepTo("park", "manifest") \/ LockStep
    BY <1>0, <2>1, <2>2, <2>4, StepOK DEF limits, Places, Roles, Retaining, LockStep
  <2> QED BY <1>5, <2>3, <2>4 DEF MarkPending, Outcomes
<1>6. CASE Park
  <2>1. pc \in WithRecord /\ pc = "park" /\ UNCHANGED limits
    BY <1>6 DEF Park, WithRecord, Places
  <2>2. DiskOK'
    BY <1>0, <1>6, <2>1, RecordFacts, EntryFacts, RenameType DEF Park
  <2>3. Goto("verify_parked") \/ Goto("abort")
    BY <1>6 DEF Park
  <2> QED BY <1>0, <2>1, <2>2, <2>3, StepOK DEF limits, Places, Retaining
<1>7. CASE VerifyParked
  <2>1. pc \in WithRecord /\ pc = "verify_parked" /\ UNCHANGED limits
    BY <1>7 DEF VerifyParked, WithRecord, Places
  <2>2. DiskOK'
    BY <1>7, QuietType DEF VerifyParked, Quiet, ReadFault
  <2>3. Goto("publish") \/ Goto("abort")
    BY <1>7 DEF VerifyParked
  <2> QED BY <1>0, <2>1, <2>2, <2>3, StepOK DEF limits, Places, Retaining
<1>8. CASE Publish
  <2>1. pc \in WithRecord /\ pc = "publish" /\ UNCHANGED limits
    BY <1>8 DEF Publish, WithRecord, Places
  <2>2. DiskOK'
    BY <1>0, <1>8, <2>1, RecordFacts, EntryFacts, RenameType DEF Publish
  <2>3. Goto("abort") \/ LockStep \/ Goto("verify_generation")
    BY <1>0, <1>8, <2>1 DEF Publish, Roles
  <2> QED BY <1>0, <2>1, <2>2, <2>3, StepOK
          DEF limits, Places, Roles, Retaining, LockStep
<1>9. CASE VerifyGeneration
  <2>1. pc \in WithRecord /\ pc = "verify_generation" /\ UNCHANGED limits
    BY <1>9 DEF VerifyGeneration, WithRecord, Places
  <2>2. DiskOK'
    BY <1>9, QuietType DEF VerifyGeneration, Quiet, ReadFault
  <2>3. Goto("mark_committed") \/ Goto("abort")
    BY <1>9 DEF VerifyGeneration
  <2> QED BY <1>0, <2>1, <2>2, <2>3, StepOK DEF limits, Places, Retaining
<1>10. CASE MarkCommitted
  <2>1. pc \in WithRecord /\ pc = "mark_committed" /\ UNCHANGED limits
    BY <1>10 DEF MarkCommitted, WithRecord, Places
  <2>2. DiskOK'
    BY <1>0, <1>10, <2>1, RecordFacts, EntryFacts, WriteType DEF MarkCommitted
  <2>3. CASE Goto("abort")
    BY <1>0, <2>1, <2>2, <2>3, StepOK DEF limits, Places, Retaining
  <2>4. CASE /\ pc' = "clear" /\ UNCHANGED outcome
             /\ job' = [job EXCEPT !.then = "acknowledge"]
    <3>1. job' \in Job /\ job'.then = "acknowledge"
      BY <2>4 DEF ControlOK, Job
    <3>2. ControlOK'
      BY <2>4, <3>1 DEF ControlOK, Places, WithRecord, Retaining
    <3> QED BY <2>1, <2>2, <3>2 DEF limits
  <2> QED BY <1>10, <2>3, <2>4 DEF MarkCommitted
<1>11. CASE Abort
  <2>1. pc \in WithRecord /\ pc = "abort" /\ UNCHANGED limits
    BY <1>11 DEF Abort, WithRecord, Places
  <2>2. DiskOK'
    BY <1>0, <1>11, <2>1, RecordFacts, EntryFacts, WriteType DEF Abort
  <2>3. /\ pc' = "recover" /\ UNCHANGED outcome
        /\ job' = [job EXCEPT !.then = "report"]
    BY <1>11 DEF Abort
  <2>4. job' \in Job /\ job'.then = "report"
    BY <2>3 DEF ControlOK, Job
  <2>5. ControlOK'
    BY <2>3, <2>4 DEF ControlOK, Places, WithRecord, Retaining
  <2> QED BY <2>1, <2>2, <2>5 DEF limits
<1> QED BY <1>1, <1>2, <1>3, <1>4, <1>5, <1>6, <1>7, <1>8, <1>9, <1>10, <1>11
        DEF Commitment

LEMMA EditType ==
  ASSUME TypeInv, NEW e \in Entry, NEW c \in Slot(e), Edit(e, c)
  PROVE  TypeInv'
<1> DEFINE w == [x \in {e} |-> c]
<1>1. \A x \in DOMAIN w : w[x] \in Slot(x)
  OBVIOUS
<1>2. /\ disk' = Apply(disk, w)
      /\ media' = IF OrderedMetadata THEN {disk'} ELSE {Apply(d, w) : d \in media}
      /\ UNCHANGED <<limits, pc, job, outcome>>
  BY DEF Edit
<1> HIDE DEF w
<1>3. \A d \in Disk : Apply(d, w) \in Disk
  BY <1>1, ApplyType
<1>4. DiskOK'
  BY <1>2, <1>3 DEF DiskOK, TypeInv
<1> QED BY <1>2, <1>4, ControlUnchanged DEF TypeInv, limits

LEMMA EnvironmentType ==
  ASSUME TypeInv, Begin \/ Crash \/ PowerLoss \/ Editor
  PROVE  TypeInv'
<1> USE DEF TypeInv
<1>1. CASE Begin
  <2>1. DiskOK' /\ UNCHANGED limits
    BY <1>1, QuietType DEF Begin, Quiet
  <2>2. ControlOK'
    BY <1>1, NoJobType DEF Begin, ControlOK, Job, Places, Answers, WithRecord, Retaining
  <2> QED BY <2>1, <2>2 DEF limits
<1>2. CASE Crash
  BY <1>2, QuietType, FinishOK DEF Crash, limits, Answers
<1>3. CASE PowerLoss
  <2>1. DiskOK'
    BY <1>3 DEF PowerLoss, DiskOK
  <2> QED BY <1>3, <2>1, FinishOK DEF PowerLoss, limits, Answers
<1>4. CASE EditorSaves
  BY <1>4, EntryFacts, EditType DEF EditorSaves, Bytes
<1>5. CASE EditorWritesOpenFile
  BY <1>5, EntryFacts, EditType DEF EditorWritesOpenFile, Parked, Removed, Bytes
<1>6. CASE EditorRemoves
  BY <1>6, EntryFacts, EditType DEF EditorRemoves
<1> QED BY <1>1, <1>2, <1>3, <1>4, <1>5, <1>6 DEF Editor

LEMMA TypeStep == TypeInv /\ [Next]_vars => TypeInv'
<1>1. ASSUME TypeInv, UNCHANGED vars PROVE TypeInv'
  BY <1>1, ControlUnchanged, QuietType DEF TypeInv, vars
<1> QED BY <1>1, RecoveryType, CommitmentType, EnvironmentType DEF Next, Holder

LEMMA TypeInvariant == Spec => []TypeInv
BY InitType, TypeStep, PTL DEF Spec

\* Type correctness, for all bytes, quotas and bounds.
THEOREM TypeCorrect == Spec => []TypeOK
<1>1. TypeInv => TypeOK
  BY DEF TypeInv, DiskOK, ControlOK, TypeOK
<1> QED BY <1>1, TypeInvariant, PTL
-----------------------------------------------------------------------------
(* Where the steps of recovery end *)

LEMMA ReturnPlace ==
  /\ Return(FALSE) => pc' = "idle"
  /\ Return(TRUE) => pc' \in {"idle", job.then}
BY DEF Return, Finish

LEMMA RestoredPlace ==
  ASSUME NEW ok \in BOOLEAN, Restored(ok)
  PROVE  pc' \in {"restore", "clear", "idle"}
BY ReturnPlace DEF Restored, Goto
-----------------------------------------------------------------------------
(* No step of the lock holder discards bytes of the generation: files are     *)
(* written only under names that were never used, and otherwise renamed.      *)

\* An entry of a directory that does not exist yet.
Future(e, h, n) == \/ e[1] \in {"original", "new"} /\ e[2] > h
                   \/ e[1] = "recovered" /\ e[2] > n

Fresh(d, h, n) == \A e \in Entry : Future(e, h, n) => d[e] = Absent
AllFresh == \A d \in media : Fresh(d, histories, recoveries)

\* What Stage is still going to write does not exist.
ToStage == pc = "stage" =>
  \A r \in Roles : r = job.role \/ job.role = "manifest"
                     => disk[New(job.rec.history, r)] = Absent

\* A commit uses the history it created.
Creating == {"stage", "save_image", "mark_pending", "park", "verify_parked", "publish",
             "verify_generation", "mark_committed", "abort"}
OwnHistory == pc \in Creating => job.rec.history <= histories

ContentsInv == TypeInv /\ AllFresh /\ ToStage /\ OwnHistory

Conserved == Contents(disk) \subseteq Contents(disk')

\* What every step must show of the disks.
DisksSafe == AllFresh' /\ Conserved
-----------------------------------------------------------------------------
(* The operations *)

LEMMA NameFacts ==
  /\ \A r \in Roles : \A h, n : Project(r) \in Files /\ ~Future(Project(r), h, n)
  /\ \A g \in Histories, r \in Roles : \A h, n :
       /\ Original(g, r) \in Files /\ New(g, r) \in Files
       /\ Future(Original(g, r), h, n) <=> g > h
       /\ Future(New(g, r), h, n) <=> g > h
  /\ \A k \in Recoveries : \A h, n :
       Recovered(k) \in Files /\ (Future(Recovered(k), h, n) <=> k > n)
  /\ \A r \in Roles : \A h, n : Before(r) \notin Files /\ ~Future(Before(r), h, n)
  /\ \A h, n : Marker \notin Files /\ ~Future(Marker, h, n)
  /\ \A r, h, g, q : Project(r) # Original(h, g) /\ Project(r) # New(h, g)
                     /\ Project(r) # Recovered(q)
<1> USE DEF Files, Parked, Staged, Removed, Project, Original, New, Recovered,
        Before, Marker, Future
<1>1. \A r \in Roles : \A h, n : Project(r) \in Files /\ ~Future(Project(r), h, n)
  OBVIOUS
<1>2. \A g \in Histories, r \in Roles : \A h, n :
       /\ Original(g, r) \in Files /\ New(g, r) \in Files
       /\ Future(Original(g, r), h, n) <=> g > h
       /\ Future(New(g, r), h, n) <=> g > h
  OBVIOUS
<1>3. \A k \in Recoveries : \A h, n :
       Recovered(k) \in Files /\ (Future(Recovered(k), h, n) <=> k > n)
  OBVIOUS
<1>4. \A r \in Roles : \A h, n : Before(r) \notin Files /\ ~Future(Before(r), h, n)
  OBVIOUS
<1>5. \A h, n : Marker \notin Files /\ ~Future(Marker, h, n)
  OBVIOUS
<1>6. \A r, h, g, q : Project(r) # Original(h, g) /\ Project(r) # New(h, g)
                     /\ Project(r) # Recovered(q)
  OBVIOUS
<1> QED BY <1>1, <1>2, <1>3, <1>4, <1>5, <1>6

\* Fewer entries lie in the future when a directory is created.
LEMMA FutureShrinks ==
  ASSUME TypeInv, TypeInv', histories <= histories', recoveries <= recoveries',
         NEW e \in Entry, Future(e, histories', recoveries')
  PROVE  Future(e, histories, recoveries)
<1>1. e[1] \in {"original", "new", "recovered"} => e[2] \in Int
  BY DEF Entry, Files, Parked, Staged, Removed, Images, Project, Original, New,
         Recovered, Before, Marker, Histories, Recoveries
<1> QED BY <1>1 DEF Future, TypeInv

LEMMA QuietSafe ==
  ASSUME ContentsInv, TypeInv', histories <= histories', recoveries <= recoveries',
         UNCHANGED <<disk, media>>
  PROVE  DisksSafe
BY FutureShrinks DEF ContentsInv, AllFresh, Fresh, DisksSafe, Conserved, Contents

\* An operation outside the future keeps the future empty.
LEMMA PerformFresh ==
  ASSUME ContentsInv, TypeInv', histories <= histories', recoveries <= recoveries',
         NEW w, NEW o, Perform(w, o),
         \A e \in DOMAIN w : ~Future(e, histories', recoveries')
  PROVE  AllFresh'
<1> DEFINE F(d) == Fresh(d, histories', recoveries')
<1>1. \A d \in media : F(d) /\ F(Apply(d, w))
  BY FutureShrinks DEF ContentsInv, AllFresh, Fresh, Apply
<1>2. CASE o = "fail"
  BY <1>1, <1>2 DEF Perform, AllFresh
<1>3. CASE o # "fail"
  <2>1. disk' = Apply(disk, w) /\ F(disk')
    BY <1>1, <1>3 DEF Perform, ContentsInv, TypeInv, DiskOK
  <2>2. \A d \in Exposed(w) : F(d)
    BY <1>1, <2>1 DEF Exposed
  <2>3. CASE o = "seen"
    BY <1>3, <2>1, <2>2, <2>3 DEF Perform, AllFresh
  <2>4. CASE o # "seen"
    <3>1. media' = Flushed(Exposed(w), disk', {Dir(e) : e \in DOMAIN w})
      BY <1>3, <2>1, <2>4 DEF Perform
    <3>2. \A d \in media' : F(d)
      BY <2>1, <2>2, <3>1 DEF Flushed, Fresh
    <3> QED BY <3>2 DEF AllFresh
  <2> QED BY <2>3, <2>4
<1> QED BY <1>2, <1>3

\* A write where nothing is lost: an absent file, or no file at all.
LEMMA WriteSafe ==
  ASSUME ContentsInv, TypeInv', histories <= histories', recoveries <= recoveries',
         NEW e, NEW c, NEW o, Write(e, c, o), ~Future(e, histories', recoveries'),
         e \notin Files \/ disk[e] = Absent
  PROVE  DisksSafe
<1> DEFINE w == [x \in {e} |-> c]
<1>1. Perform(w, o) /\ \A x \in DOMAIN w : ~Future(x, histories', recoveries')
  BY DEF Write
<1>2. disk' = disk \/ disk' = Apply(disk, w)
  BY <1>1 DEF Perform
<1>3. \A x \in Files : disk[x] # Absent => disk'[x] = disk[x]
  BY <1>2 DEF Apply, Entry
<1>4. Conserved
  BY <1>3 DEF Conserved, Contents
<1> HIDE DEF w
<1> QED BY <1>1, <1>4, PerformFresh DEF DisksSafe

\* A rename never loses a file: its target is absent.
LEMMA RenameSafe ==
  ASSUME ContentsInv, TypeInv', histories <= histories', recoveries <= recoveries',
         NEW from \in Files, NEW to \in Files, from # to,
         NEW o, Rename(from, to, o), ~Future(to, histories', recoveries')
  PROVE  DisksSafe
<1>1. CASE UNCHANGED <<disk, media, spent>>
  BY <1>1, QuietSafe
<1>2. CASE /\ disk[from] # Absent /\ disk[to] = Absent
           /\ Perform([x \in {from, to} |-> IF x = to THEN disk[from] ELSE Absent], o)
  <2> DEFINE w == [x \in {from, to} |-> IF x = to THEN disk[from] ELSE Absent]
  <2>1. Perform(w, o) /\ DOMAIN w = {from, to}
    BY <1>2
  <2>2. ~Future(from, histories', recoveries')
    BY <1>2, FutureShrinks
       DEF ContentsInv, AllFresh, Fresh, TypeInv, DiskOK, Entry
  <2>3. disk' = disk \/ disk' = Apply(disk, w)
    BY <2>1 DEF Perform
  <2>4. ASSUME NEW x \in Files, disk[x] # Absent
        PROVE  \E y \in Files : disk'[y] = disk[x]
    <3>1. CASE disk' = disk
      BY <3>1
    <3>2. CASE disk' = Apply(disk, w) /\ x = from
      BY <1>2, <3>2 DEF Apply, Entry
    <3>3. CASE disk' = Apply(disk, w) /\ x # from
      BY <1>2, <2>4, <3>3 DEF Apply, Entry
    <3> QED BY <2>3, <3>1, <3>2, <3>3
  <2>5. Conserved
    BY <2>4 DEF Conserved, Contents
  <2> HIDE DEF w
  <2> QED BY <2>1, <2>2, <2>5, PerformFresh DEF DisksSafe
<1> QED BY <1>1, <1>2 DEF Rename
-----------------------------------------------------------------------------
(* Every step *)

LEMMA RecoveryContents ==
  ASSUME ContentsInv, TypeInv', Recovery
  PROVE  ContentsInv' /\ Conserved
<1> USE DEF ContentsInv
<1>0. /\ DiskOK /\ ControlOK
      /\ pc \in WithRecord => /\ job.rec.history \in Histories /\ job.role \in Roles
      /\ pc \in Retaining => recoveries \in Recoveries
  BY DEF TypeInv, ControlOK, Job, Record
<1>1. histories' = histories /\ histories \in Int /\ recoveries \in Int
      /\ (recoveries' = recoveries \/ recoveries' = recoveries + 1)
  <2>1. Retain \/ StageImage
          => /\ histories' = histories
             /\ recoveries' = recoveries \/ recoveries' = recoveries + 1
    BY DEF Retain, StageImage, limits
  <2>2. Recover \/ Restore \/ PutBack \/ MoveCurrent \/ VerifyCurrent \/ ReturnCurrent
          \/ Unpark \/ PublishImage \/ Clear \/ ClearImage => UNCHANGED limits
    BY DEF Recover, Restore, PutBack, MoveCurrent, VerifyCurrent, ReturnCurrent, Unpark,
       PublishImage, Clear, ClearImage
  <2> QED BY <2>1, <2>2 DEF Recovery, limits, TypeInv
<1>2. histories <= histories' /\ recoveries <= recoveries'
  BY <1>1
<1>3. pc' \notin Creating
  <2>1. \A place : Goto(place) \/ Unsound(place) => pc' = place
    BY DEF Goto, Unsound
  <2>2. \A ok \in BOOLEAN : Restored(ok) => pc' \notin Creating
    BY RestoredPlace DEF Creating
  <2>3. Return(TRUE) \/ Return(FALSE) => pc' \notin Creating
    BY <1>0, ReturnPlace DEF Creating, ControlOK, Job
  <2>4. CASE Recover \/ Restore \/ PutBack \/ Retain \/ MoveCurrent \/ VerifyCurrent
    BY <2>1, <2>2, <2>3, <2>4 DEF Recover, Restore, PutBack, Retain, MoveCurrent,
       VerifyCurrent, RollBack, Outcomes, Creating
  <2>5. CASE ReturnCurrent \/ Unpark \/ StageImage \/ PublishImage \/ Clear \/ ClearImage
    BY <2>1, <2>2, <2>3, <2>5 DEF ReturnCurrent, Unpark, StageImage, PublishImage,
       Clear, ClearImage, Creating
  <2> QED BY <2>4, <2>5 DEF Recovery
<1>4. SUFFICES DisksSafe
  BY <1>3 DEF DisksSafe, ToStage, OwnHistory, Creating
<1>5. ASSUME NEW from, NEW to, NEW o, Rename(from, to, o), job.role \in Roles,
             \/ from = Project(job.role) /\ to \in Files /\ ~Future(to, histories', recoveries')
                /\ to # from
             \/ to = Project(job.role) /\ from \in Files /\ to # from
      PROVE  DisksSafe
  BY <1>2, <1>5, NameFacts, RenameSafe
<1>6. CASE Recover \/ Restore \/ Retain \/ VerifyCurrent
  BY <1>2, <1>6, QuietSafe DEF Recover, Restore, Retain, VerifyCurrent, Quiet, ReadFault,
     Fault
<1>7. CASE PutBack \/ Unpark
  <2>1. pc \in WithRecord
    BY <1>7 DEF PutBack, Unpark, WithRecord, Places
  <2>2. PICK o : Rename(OriginalEntry, Project(job.role), o)
    BY <1>7 DEF PutBack, Unpark
  <2>3. OriginalEntry \in Files /\ OriginalEntry # Project(job.role)
    BY <1>0, <2>1, NameFacts DEF OriginalEntry
  <2> QED BY <1>0, <1>5, <2>1, <2>2, <2>3
<1>8. CASE MoveCurrent
  <2>1. pc \in WithRecord /\ recoveries \in Recoveries /\ recoveries' = recoveries
    BY <1>0, <1>8 DEF MoveCurrent, WithRecord, Places, Retaining, limits
  <2>2. PICK o : Rename(Project(job.role), Recovered(recoveries), o)
    BY <1>8 DEF MoveCurrent
  <2>3. /\ Recovered(recoveries) \in Files
        /\ Recovered(recoveries) # Project(job.role)
        /\ ~Future(Recovered(recoveries), histories', recoveries')
    BY <1>1, <2>1, NameFacts
  <2> QED BY <1>0, <1>5, <2>1, <2>2, <2>3
<1>9. CASE ReturnCurrent \/ PublishImage
  <2>1. pc \in WithRecord /\ recoveries \in Recoveries
    BY <1>0, <1>9 DEF ReturnCurrent, PublishImage, WithRecord, Places, Retaining
  <2>2. PICK o : Rename(Recovered(recoveries), Project(job.role), o)
    BY <1>9 DEF ReturnCurrent, PublishImage
  <2>3. Recovered(recoveries) \in Files /\ Recovered(recoveries) # Project(job.role)
    BY <2>1, NameFacts
  <2> QED BY <1>0, <1>5, <2>1, <2>2, <2>3
<1>10. CASE StageImage
  <2>1. CASE Quiet
    BY <1>2, <2>1, QuietSafe DEF Quiet
  <2>2. ASSUME WithinBudget, recoveries' = recoveries + 1,
               NEW o, Write(Recovered(recoveries + 1), Was, o)
        PROVE  DisksSafe
    <3>1. recoveries + 1 \in Recoveries
      BY <2>2, UsedBound
    <3>2. ~Future(Recovered(recoveries + 1), histories', recoveries')
      BY <1>1, <2>2, <3>1, NameFacts
    <3>3. disk[Recovered(recoveries + 1)] = Absent
      <4>1. Future(Recovered(recoveries + 1), histories, recoveries)
        BY <1>1, <3>1, NameFacts
      <4> QED BY <1>0, <3>1, <4>1, EntryFacts DEF AllFresh, Fresh, DiskOK
    <3> QED BY <1>2, <2>2, <3>2, <3>3, WriteSafe
  <2> QED BY <1>10, <2>1, <2>2 DEF StageImage
<1>11. CASE Clear
  BY <1>2, <1>11, NameFacts, WriteSafe DEF Clear, Remove
<1>12. CASE ClearImage
  <2>1. job.role \in Roles
    BY <1>0 DEF ControlOK, Job
  <2> QED BY <1>2, <1>12, <2>1, NameFacts, WriteSafe DEF ClearImage, Remove
<1> QED BY <1>6, <1>7, <1>8, <1>9, <1>10, <1>11, <1>12 DEF Recovery

LEMMA CommitmentContents ==
  ASSUME ContentsInv, TypeInv', Commitment
  PROVE  ContentsInv' /\ Conserved
<1> USE DEF ContentsInv
<1>0. /\ DiskOK /\ ControlOK /\ histories \in Int /\ recoveries \in Int
      /\ pc \in WithRecord => /\ job.rec.history \in Histories /\ job.role \in Roles
  BY DEF TypeInv, ControlOK, Job, Record
<1>1. pc \in Creating => pc \in WithRecord /\ job.rec.history <= histories
  BY DEF Creating, WithRecord, Places, OwnHistory
<1>2. ASSUME DisksSafe, pc' \notin Creating
      PROVE  ContentsInv' /\ Conserved
  BY <1>2 DEF DisksSafe, ToStage, OwnHistory, Creating
<1>3. ASSUME DisksSafe, pc \in Creating, pc' # "stage", histories' = histories,
             job'.rec = job.rec
      PROVE  ContentsInv' /\ Conserved
  BY <1>1, <1>3 DEF DisksSafe, ToStage, OwnHistory
<1>4. \A place, role : StepTo(place, role) => pc' = place /\ job'.rec = job.rec
                                              /\ job'.role = role
  BY <1>0 DEF StepTo, ControlOK, Job
<1>5. \A place : Goto(place) => pc' = place /\ job' = job
  BY DEF Goto
<1>6. \A a : Finish(a) => pc' = "idle" /\ pc' \notin Creating
  BY DEF Finish, Creating
<1>7. CASE Admit
  <2>1. DisksSafe
    <3>1. UNCHANGED <<disk, media, histories, recoveries>>
      BY <1>7 DEF Admit, Quiet, limits
    <3>2. histories <= histories' /\ recoveries <= recoveries'
      BY <1>0, <3>1
    <3> QED BY <3>1, <3>2, QuietSafe
  <2>2. pc' \notin Creating
    BY <1>6, <1>7 DEF Admit, Creating
  <2> QED BY <1>2, <2>1, <2>2
<1>8. CASE Commit
  <2>1. /\ UNCHANGED <<disk, media, recoveries>>
        /\ histories' \in {histories, histories + 1}
    BY <1>8 DEF Commit, Quiet, ReadFault, Fault, limits
  <2>2. DisksSafe
    BY <1>0, <2>1, QuietSafe
  <2>3. CASE pc' = "idle"
    BY <1>2, <2>2, <2>3 DEF Creating
  <2>4. CASE /\ histories' = histories + 1 /\ pc' = "stage" /\ Admissible
             /\ job'.rec.history = histories + 1
    <3>1. histories + 1 \in Histories
      BY <1>0, <2>4, QuotaAssumption DEF TypeInv, Admissible, Histories
    <3>2. \A r \in Roles : disk[New(histories + 1, r)] = Absent
      <4>1. \A r \in Roles : Future(New(histories + 1, r), histories, recoveries)
        BY <1>0, <3>1, NameFacts
      <4> QED BY <1>0, <3>1, <4>1, EntryFacts DEF AllFresh, Fresh, DiskOK
    <3>3. ToStage' /\ OwnHistory'
      BY <1>0, <2>1, <2>4, <3>2 DEF ToStage, OwnHistory
    <3> QED BY <2>2, <3>3 DEF DisksSafe
  <2>5. \A rec, role : job' = [job EXCEPT !.rec = rec, !.role = role] => job'.rec = rec
    BY <1>0 DEF ControlOK, Job
  <2>6. \/ Finish("refused") \/ Finish("unchanged")
        \/ /\ histories' = histories + 1 /\ pc' = "stage" /\ Admissible
           /\ \E before, role :
                job' = [job EXCEPT !.rec = [before |-> before, after |-> job.want,
                                            history |-> histories + 1],
                                   !.role = role]
    BY <1>8 DEF Commit
  <2>7. ASSUME NEW before, NEW role,
               job' = [job EXCEPT !.rec = [before |-> before, after |-> job.want,
                                           history |-> histories + 1],
                                  !.role = role]
        PROVE  job'.rec.history = histories + 1
    <3> DEFINE rec == [before |-> before, after |-> job.want,
                       history |-> histories + 1]
    <3>1. rec.history = histories + 1
      OBVIOUS
    <3>2. job' = [job EXCEPT !.rec = rec, !.role = role]
      BY <2>7
    <3> HIDE DEF rec
    <3> QED BY <2>5, <3>1, <3>2
  <2> QED BY <1>6, <2>3, <2>4, <2>6, <2>7
<1>9. CASE Stage
  <2> DEFINE e == New(job.rec.history, job.role)
  <2>1. /\ pc = "stage" /\ pc \in Creating /\ histories' = histories
        /\ recoveries' = recoveries
    BY <1>9 DEF Stage, Creating, limits
  <2>2. PICK o \in Outcomes :
          /\ Write(e, Will, o)
          /\ \/ Finish("refused")
             \/ job.role = "manifest" /\ StepTo("stage", "lock")
             \/ StepTo("save_image", "manifest")
    BY <1>0, <1>1, <1>9, <2>1 DEF Stage, Roles
  <2>3. /\ e \in Entry /\ disk[e] = Absent
        /\ ~Future(e, histories', recoveries')
    BY <1>0, <1>1, <2>1, NameFacts, EntryFacts DEF ToStage, Histories
  <2>4. DisksSafe
    BY <1>0, <2>1, <2>2, <2>3, WriteSafe
  <2>5. CASE Finish("refused")
    BY <1>2, <1>6, <2>4, <2>5
  <2>6. CASE StepTo("save_image", "manifest")
    BY <1>3, <1>4, <2>1, <2>4, <2>6
  <2>7. CASE job.role = "manifest" /\ StepTo("stage", "lock")
    <3> DEFINE l == New(job.rec.history, "lock")
               w == [x \in {e} |-> Will]
    <3>1. disk[l] = Absent /\ l \in Entry /\ l # e
      BY <1>0, <1>1, <2>1, <2>7, EntryFacts DEF ToStage, Roles, New
    <3>2. Perform(w, o)
      BY <2>2 DEF Write
    <3>3. disk' = disk \/ disk' = Apply(disk, w)
      BY <3>2 DEF Perform
    <3>4. Apply(disk, w)[l] = Absent
      BY <3>1 DEF Apply
    <3>5. disk'[l] = Absent
      BY <3>1, <3>3, <3>4
    <3>6. pc' = "stage" /\ job'.rec = job.rec /\ job'.role = "lock"
      BY <1>4, <2>7
    <3>7. ToStage' /\ OwnHistory'
      BY <1>1, <2>1, <3>5, <3>6 DEF ToStage, OwnHistory
    <3> QED BY <2>4, <3>7 DEF DisksSafe
  <2> QED BY <2>2, <2>5, <2>6, <2>7
<1>10. ASSUME NEW e, NEW c, NEW o, Write(e, c, o), e \in Images \cup {Marker},
              UNCHANGED limits
       PROVE  DisksSafe
  BY <1>0, <1>10, NameFacts, WriteSafe DEF limits, Images
<1>11. CASE SaveImage
  <2>1. pc \in Creating /\ UNCHANGED limits /\ Before(job.role) \in Images
    BY <1>0, <1>1, <1>11 DEF SaveImage, Creating, Images
  <2>2. DisksSafe
    BY <1>10, <1>11, <2>1 DEF SaveImage
  <2>3. Finish("refused") \/ StepTo("save_image", "lock") \/ Goto("mark_pending")
    BY <1>0, <1>1, <1>11, <2>1 DEF SaveImage, Roles
  <2> QED BY <1>2, <1>3, <1>4, <1>5, <1>6, <2>1, <2>2, <2>3 DEF limits
<1>12. CASE MarkPending
  <2>1. pc \in Creating /\ UNCHANGED limits /\ DisksSafe
    BY <1>10, <1>12 DEF MarkPending, Creating
  <2>2. Finish("refused") \/ Goto("abort") \/ StepTo("park", "manifest") \/ LockStep
    BY <1>12 DEF MarkPending, Outcomes
  <2> QED BY <1>2, <1>3, <1>4, <1>5, <1>6, <2>1, <2>2 DEF limits, LockStep
<1>13. CASE Park
  <2>1. pc \in Creating /\ UNCHANGED limits
    BY <1>13 DEF Park, Creating
  <2>2. PICK o : /\ Rename(Project(job.role), OriginalEntry, o)
                 /\ Goto("verify_parked") \/ Goto("abort")
    BY <1>13 DEF Park
  <2>3. /\ OriginalEntry \in Files /\ Project(job.role) \in Files
        /\ Project(job.role) # OriginalEntry
        /\ ~Future(OriginalEntry, histories', recoveries')
    <3>1. job.rec.history \in Int /\ ~(job.rec.history > histories')
      BY <1>0, <1>1, <2>1 DEF limits, Histories
    <3> QED BY <1>0, <1>1, <2>1, <3>1, NameFacts DEF OriginalEntry
  <2>4. DisksSafe
    BY <1>0, <2>1, <2>2, <2>3, RenameSafe DEF limits
  <2> QED BY <1>3, <1>5, <2>1, <2>2, <2>4 DEF limits
<1>14. CASE Publish
  <2> DEFINE e == New(job.rec.history, job.role)
  <2>1. pc \in Creating /\ UNCHANGED limits
    BY <1>14 DEF Publish, Creating
  <2>2. PICK o : /\ Rename(e, Project(job.role), o)
                 /\ Goto("abort") \/ LockStep \/ Goto("verify_generation")
    BY <1>0, <1>1, <1>14, <2>1 DEF Publish, Roles
  <2>3. /\ e \in Files /\ Project(job.role) \in Files /\ e # Project(job.role)
        /\ ~Future(Project(job.role), histories', recoveries')
    BY <1>0, <1>1, <2>1, NameFacts
  <2>4. DisksSafe
    BY <1>0, <2>1, <2>2, <2>3, RenameSafe DEF limits
  <2> QED BY <1>3, <1>4, <1>5, <2>1, <2>2, <2>4 DEF limits, LockStep
<1>15. CASE VerifyParked \/ VerifyGeneration
  <2>1. pc \in Creating /\ UNCHANGED <<limits, disk, media>>
    BY <1>15 DEF VerifyParked, VerifyGeneration, Creating, Quiet, ReadFault
  <2>2. Goto("publish") \/ Goto("abort") \/ Goto("mark_committed")
    BY <1>15 DEF VerifyParked, VerifyGeneration
  <2>3. DisksSafe
    BY <1>0, <2>1, QuietSafe DEF limits
  <2> QED BY <1>3, <1>5, <2>1, <2>2, <2>3 DEF limits
<1>16. CASE MarkCommitted
  <2>1. pc \in Creating /\ UNCHANGED limits /\ DisksSafe
    BY <1>10, <1>16 DEF MarkCommitted, Creating
  <2>2. pc' = "clear" \/ Goto("abort")
    BY <1>16 DEF MarkCommitted
  <2> QED BY <1>2, <1>3, <1>5, <2>1, <2>2 DEF limits, Creating
<1>17. CASE Abort
  BY <1>2, <1>10, <1>17 DEF Abort, Creating
<1> QED BY <1>7, <1>8, <1>9, <1>11, <1>12, <1>13, <1>14, <1>15, <1>16, <1>17
        DEF Commitment

\* The environment may discard: an editor overwrites, a power loss undoes.
LEMMA EnvironmentContents ==
  ASSUME ContentsInv, TypeInv', Begin \/ Crash \/ PowerLoss \/ Editor
  PROVE  ContentsInv' /\ (Begin => Conserved)
<1> USE DEF ContentsInv
<1>0. DiskOK /\ histories \in Int /\ recoveries \in Int
  BY DEF TypeInv
<1>1. ASSUME UNCHANGED limits, AllFresh', pc' \notin Creating PROVE ContentsInv'
  BY <1>1 DEF ToStage, OwnHistory, Creating
<1>2. CASE Begin \/ Crash
  <2>1. /\ UNCHANGED <<disk, media, histories, recoveries>> /\ UNCHANGED limits
        /\ pc' \in {"idle", "recover"}
    BY <1>2 DEF Begin, Crash, Quiet, Finish, limits
  <2>2. histories <= histories' /\ recoveries <= recoveries'
    BY <1>0, <2>1
  <2>3. DisksSafe
    BY <2>1, <2>2, QuietSafe
  <2> QED BY <1>1, <2>1, <2>3 DEF DisksSafe, Creating
<1>3. CASE PowerLoss
  <2>1. pc' = "idle" /\ media' \subseteq media /\ UNCHANGED limits
    BY <1>3 DEF PowerLoss, Finish
  <2>2. AllFresh' /\ pc' \notin Creating
    BY <2>1 DEF AllFresh, limits, Creating
  <2> QED BY <1>1, <1>3, <2>1, <2>2 DEF PowerLoss, Begin, Finish
<1>4. CASE Editor
  <2>1. PICK e \in Entry, c \in Bytes \cup {Absent} :
          /\ Edit(e, c)
          /\ \/ \E r \in Roles : e = Project(r)
             \/ e \in Parked \cup Removed /\ disk[e] # Absent
    BY <1>4, EntryFacts DEF Editor, EditorSaves, EditorWritesOpenFile, EditorRemoves,
       Parked, Removed, Bytes
  <2> DEFINE w == [x \in {e} |-> c]
  <2>2. /\ disk' = Apply(disk, w)
        /\ media' = IF OrderedMetadata THEN {disk'} ELSE {Apply(d, w) : d \in media}
        /\ UNCHANGED <<limits, pc, job, outcome>>
    BY <2>1 DEF Edit
  <2>3. ~Future(e, histories, recoveries)
    BY <1>0, <2>1, NameFacts DEF AllFresh, Fresh, DiskOK
  <2>4. \A d \in media : Fresh(Apply(d, w), histories, recoveries)
    BY <2>3 DEF AllFresh, Fresh, Apply
  <2>5. AllFresh'
    <3> HIDE DEF w
    <3> QED BY <1>0, <2>2, <2>4 DEF AllFresh, limits, DiskOK
  <2>6. \A h, r : New(h, r) # e
    BY <2>1 DEF New, Project, Parked, Removed, Original, Recovered
  <2>7. \A h \in Histories, r \in Roles : disk'[New(h, r)] = disk[New(h, r)]
    BY <2>2, <2>6, EntryFacts DEF Apply
  <2>8. pc = "stage" => job.rec.history \in Histories
    BY DEF TypeInv, ControlOK, WithRecord, Places, Record
  <2>9. ToStage' /\ OwnHistory'
    BY <2>2, <2>7, <2>8 DEF ToStage, OwnHistory, limits
  <2> QED BY <1>4, <2>1, <2>5, <2>9 DEF Begin, Edit
<1> QED BY <1>2, <1>3, <1>4

LEMMA ContentsInit == Init => ContentsInv
<1> SUFFICES ASSUME Init PROVE ContentsInv
  OBVIOUS
<1>1. TypeInv
  BY InitType
<1>2. \A e \in Entry : \A h, n : Future(e, h, n) => disk[e] = Absent
  BY DEF Init, Future
<1> QED BY <1>1, <1>2 DEF Init, ContentsInv, AllFresh, Fresh, ToStage, OwnHistory, Creating

LEMMA ContentsStep ==
  ContentsInv /\ [Next]_vars => ContentsInv' /\ (Holder => Conserved)
<1> SUFFICES ASSUME ContentsInv, [Next]_vars
             PROVE  ContentsInv' /\ (Holder => Conserved)
  OBVIOUS
<1>1. TypeInv'
  BY TypeStep DEF ContentsInv
<1>2. CASE UNCHANGED vars
  BY <1>1, <1>2 DEF ContentsInv, AllFresh, Fresh, ToStage, OwnHistory, vars, Conserved,
     Contents
<1>3. Holder => ContentsInv' /\ Conserved
  BY <1>1, RecoveryContents, CommitmentContents, EnvironmentContents DEF Holder
<1> QED BY <1>1, <1>2, <1>3, EnvironmentContents DEF Next

\* Whichever operations fail, whatever an editor writes between a check and a
\* rename, and whatever a power loss undid before: no step of a command makes
\* bytes of the project, a history or a recovery directory disappear.
THEOREM NothingIsDiscarded == Spec => NothingDiscarded
<1>1. ContentsInv /\ [Next]_vars => [Holder => Contents(disk) \subseteq Contents(disk')]_vars
  BY ContentsStep DEF Conserved
<1> QED BY <1>1, ContentsInit, ContentsStep, PTL DEF Spec, NothingDiscarded

-----------------------------------------------------------------------------
(* The journal *)

Private == Images \cup {Marker}

\* A disk whose marker can be acted on when histories 1..n exist.
Whole(d, n) == d[Marker] # Absent => Verified(d) /\ d[Marker].history <= n

SameJournal(d, c) == \A e \in Private : d[e] = c[e]

\* The step leaves the journal as it is, on every disk.
JournalKept == /\ SameJournal(disk', disk)
               /\ \A d \in media' : \E c \in media : SameJournal(d, c)

Unmarked == {"clear_image", "admit", "commit", "stage", "save_image", "mark_pending"}
Imaged == {"mark_pending", "park", "verify_parked", "publish", "verify_generation",
           "mark_committed", "abort"}
Recorded == Imaged \cup {"stage", "save_image"}

\* What the lock holder knows of the journal: it is absent while a commit
\* prepares it, and complete from the moment the marker may be written.
HolderKnows ==
  /\ pc \in Unmarked => disk[Marker] = Absent
  /\ pc \in Recorded => job.rec.history <= histories
  /\ (pc = "save_image" /\ job.role = "lock")
       => disk[Before("manifest")] = Image(job.rec.before["manifest"])
  /\ pc \in Imaged => \A r \in Roles : disk[Before(r)] = Image(job.rec.before[r])

JournalInv == /\ TypeInv /\ HolderKnows
              /\ \A d \in media : Whole(d, histories)
-----------------------------------------------------------------------------
(* What the operations do to the journal *)

LEMMA PrivateFacts ==
  /\ Private \subseteq Entry /\ Marker \in Private
  /\ \A r \in Roles : Before(r) \in Private /\ Before(r) # Marker
  /\ Before("manifest") # Before("lock")
  /\ \A r \in Roles : Project(r) \notin Private
  /\ \A r \in Roles, h \in Histories :
       Original(h, r) \notin Private /\ New(h, r) \notin Private
  /\ \A n \in Recoveries : Recovered(n) \notin Private
  /\ Parked \cap Private = {} /\ Removed \cap Private = {}
BY DEF Private, Images, Entry, Marker, Before, Project, Original, New, Recovered, Roles,
       Parked, Removed

\* Changes become durable in the order in which they were made, or none is
\* outstanding.
InOrder == OrderedMetadata \/ media = {disk}

\* Then an operation exposes only the new disk.
LEMMA PerformMedia ==
  ASSUME InOrder, NEW w, NEW o, Perform(w, o)
  PROVE  /\ disk' \in {disk, Apply(disk, w)}
         /\ o # "fail" => disk' = Apply(disk, w)
         /\ \A d \in media' : d \in media \/ d = Apply(disk, w)
         /\ o = "ok" => media' = {disk'}
<1>1. CASE OrderedMetadata
  BY <1>1 DEF Perform, Exposed, Flushed
<1>2. CASE ~OrderedMetadata
  <2> DEFINE new == Apply(disk, w)
             dirs == {Dir(e) : e \in DOMAIN w}
  <2>1. Exposed(w) = {disk, new}
    BY <1>2 DEF InOrder, Exposed
  <2>2. ASSUME NEW d \in {disk, new}
        PROVE  [e \in Entry |-> IF Dir(e) \in dirs THEN new[e] ELSE d[e]] = new
    BY <2>2 DEF Apply
  <2>3. Flushed({disk, new}, new, dirs) = {new}
    BY <1>2, <2>2 DEF Flushed
  <2> QED BY <1>2, <2>1, <2>3 DEF InOrder, Perform
<1> QED BY <1>1, <1>2

LEMMA PerformKeeps ==
  ASSUME InOrder, DiskOK, NEW w, NEW o, Perform(w, o),
         DOMAIN w \cap Private = {}
  PROVE  JournalKept
<1>1. SameJournal(Apply(disk, w), disk)
  BY PrivateFacts DEF SameJournal, Apply
<1>2. \A d : SameJournal(d, d)
  BY DEF SameJournal
<1> QED BY <1>1, <1>2, PerformMedia DEF JournalKept, DiskOK

LEMMA WriteKeeps ==
  ASSUME InOrder, DiskOK, NEW e, e \notin Private, NEW c, NEW o, Write(e, c, o)
  PROVE  JournalKept
<1> DEFINE w == [x \in {e} |-> c]
<1>1. Perform(w, o) /\ DOMAIN w \cap Private = {}
  BY DEF Write
<1> HIDE DEF w
<1> QED BY <1>1, PerformKeeps

LEMMA QuietKeeps ==
  ASSUME UNCHANGED <<disk, media>> PROVE JournalKept
BY DEF JournalKept, SameJournal

LEMMA RenameKeeps ==
  ASSUME InOrder, DiskOK, NEW from, from \notin Private, NEW to, to \notin Private,
         NEW o, Rename(from, to, o)
  PROVE  JournalKept
<1>1. CASE UNCHANGED <<disk, media, spent>>
  BY <1>1, QuietKeeps
<1>2. CASE Perform([x \in {from, to} |-> IF x = to THEN disk[from] ELSE Absent], o)
  <2> DEFINE w == [x \in {from, to} |-> IF x = to THEN disk[from] ELSE Absent]
  <2>1. Perform(w, o) /\ DOMAIN w \cap Private = {}
    BY <1>2
  <2> HIDE DEF w
  <2> QED BY <2>1, PerformKeeps
<1> QED BY <1>1, <1>2 DEF Rename

LEMMA EditKeeps ==
  ASSUME InOrder, DiskOK, NEW e, e \notin Private, NEW c, Edit(e, c)
  PROVE  JournalKept
<1> DEFINE w == [x \in {e} |-> c]
<1>1. disk' = Apply(disk, w) /\ media' = {disk'}
  BY DEF Edit, InOrder
<1>2. SameJournal(Apply(disk, w), disk)
  BY PrivateFacts DEF SameJournal, Apply
<1> QED BY <1>1, <1>2 DEF JournalKept, DiskOK

\* A kept journal stays whole.
LEMMA WholeKept ==
  ASSUME JournalInv, TypeInv', JournalKept, histories <= histories'
  PROVE  \A d \in media' : Whole(d, histories')
<1> SUFFICES ASSUME NEW d \in media', d[Marker] # Absent
             PROVE  Verified(d) /\ d[Marker].history <= histories'
  BY DEF Whole
<1>1. PICK c \in media : SameJournal(d, c)
  BY DEF JournalKept
<1>2. c[Marker] = d[Marker] /\ \A r \in Roles : c[Before(r)] = d[Before(r)]
  BY <1>1, PrivateFacts DEF SameJournal
<1>3. Verified(c) /\ c[Marker].history <= histories
  BY <1>2 DEF JournalInv, Whole
<1>4. c[Marker] \in MarkerRecord
  BY <1>2, EntryFacts DEF JournalInv, TypeInv, DiskOK, Disk
<1>5. c[Marker].history \in Int /\ histories \in Int /\ histories' \in Int
  BY <1>4 DEF MarkerRecord, Histories, TypeInv, JournalInv
<1> QED BY <1>2, <1>3, <1>5 DEF Verified
-----------------------------------------------------------------------------
(* Every step keeps the journal recoverable *)

\* A place at which nothing is claimed of the journal.
LEMMA NothingClaimed ==
  ASSUME pc' \notin Unmarked \cup Recorded PROVE HolderKnows'
BY DEF HolderKnows, Unmarked, Recorded, Imaged

LEMMA RecoveryJournal ==
  ASSUME InOrder, JournalInv, TypeInv', Recovery
  PROVE  JournalInv'
<1> USE DEF JournalInv
<1>0. /\ DiskOK /\ ControlOK
      /\ pc \in WithRecord => job.rec \in Record /\ job.role \in Roles
      /\ pc \in Retaining => recoveries \in Recoveries
  BY DEF TypeInv, ControlOK, Job
<1>1. histories' = histories
  BY DEF Recovery, Recover, Restore, PutBack, Retain, MoveCurrent, VerifyCurrent,
         ReturnCurrent, Unpark, StageImage, PublishImage, Clear, ClearImage, limits
<1>2. histories \in Int
  BY DEF TypeInv
<1>3. ASSUME JournalKept, pc' \notin Unmarked \cup Recorded
      PROVE  JournalInv'
  BY <1>1, <1>2, <1>3, WholeKept, NothingClaimed
<1>4. \A place : Goto(place) \/ Unsound(place) => pc' = place
  BY DEF Goto, Unsound
<1>5. \A place \in {"restore", "put_back", "retain", "move_current", "verify_current",
                    "return_current", "unpark", "stage_image", "publish_image",
                    "clear", "idle"} : place \notin Unmarked \cup Recorded
  BY DEF Unmarked, Recorded, Imaged
<1>6. CASE Recover
  <2>1. JournalKept /\ UNCHANGED <<disk, media>>
    BY <1>6, QuietKeeps DEF Recover, Quiet, ReadFault
  <2>2. CASE disk[Marker] = Absent /\ Return(TRUE)
    <3>1. pc' \in {"idle", "admit", "commit", "report", "acknowledge", "stop"}
      BY <1>0, <2>2, ReturnPlace DEF ControlOK, Job
    <3>2. HolderKnows'
      BY <2>1, <2>2, <3>1 DEF HolderKnows, Unmarked, Recorded, Imaged
    <3> QED BY <1>1, <1>2, <2>1, <3>2, WholeKept
  <2>3. CASE pc' \in {"idle", "clear", "restore"}
    BY <1>3, <1>5, <2>1, <2>3
  <2> QED BY <1>4, <1>6, <2>2, <2>3, ReturnPlace DEF Recover, RollBack
<1>7. CASE Restore
  <2>1. JournalKept
    BY <1>7, QuietKeeps DEF Restore, Quiet, ReadFault
  <2>2. pc' \in {"restore", "clear", "idle", "put_back", "retain", "unpark"}
    BY <1>4, <1>7, RestoredPlace DEF Restore
  <2> QED BY <1>3, <1>5, <2>1, <2>2
<1>8. CASE PutBack
  <2>1. pc \in WithRecord /\ OriginalEntry \notin Private
    BY <1>0, <1>8, PrivateFacts DEF PutBack, WithRecord, Places, OriginalEntry, Record
  <2>2. JournalKept
    <3>1. PICK o \in Outcomes \cup {"fail"} : Rename(OriginalEntry, Project(job.role), o)
      BY <1>8 DEF PutBack
    <3>2. OriginalEntry \notin Private /\ Project(job.role) \notin Private
      BY <1>0, <2>1, PrivateFacts
    <3> QED BY <1>0, <3>1, <3>2, RenameKeeps
  <2> QED BY <1>3, <1>5, <1>8, <2>2, RestoredPlace DEF PutBack
<1>9. CASE Retain
  <2>1. JournalKept
    BY <1>9, QuietKeeps DEF Retain, Quiet, Fault
  <2> QED BY <1>3, <1>4, <1>5, <1>9, <2>1, RestoredPlace DEF Retain
<1>10. CASE MoveCurrent
  <2>1. pc \in WithRecord /\ recoveries \in Recoveries
    BY <1>0, <1>10 DEF MoveCurrent, WithRecord, Places, Retaining
  <2>2. JournalKept
    <3>1. PICK o \in Outcomes \cup {"fail"} : Rename(Project(job.role), Recovered(recoveries), o)
      BY <1>10 DEF MoveCurrent
    <3>2. Project(job.role) \notin Private /\ Recovered(recoveries) \notin Private
      BY <1>0, <2>1, PrivateFacts
    <3> QED BY <1>0, <3>1, <3>2, RenameKeeps
  <2> QED BY <1>3, <1>4, <1>5, <1>10, <2>2, RestoredPlace DEF MoveCurrent, Outcomes
<1>11. CASE VerifyCurrent
  <2>1. JournalKept
    BY <1>11, QuietKeeps DEF VerifyCurrent, Quiet, ReadFault
  <2> QED BY <1>3, <1>4, <1>5, <1>11, <2>1, RestoredPlace DEF VerifyCurrent
<1>12. CASE ReturnCurrent
  <2>1. pc \in WithRecord /\ recoveries \in Recoveries
    BY <1>0, <1>12 DEF ReturnCurrent, WithRecord, Places, Retaining
  <2>2. JournalKept
    <3>1. PICK o \in Outcomes \cup {"fail"} : Rename(Recovered(recoveries), Project(job.role), o)
      BY <1>12 DEF ReturnCurrent
    <3>2. Recovered(recoveries) \notin Private /\ Project(job.role) \notin Private
      BY <1>0, <2>1, PrivateFacts
    <3> QED BY <1>0, <3>1, <3>2, RenameKeeps
  <2> QED BY <1>3, <1>5, <1>12, <2>2, RestoredPlace DEF ReturnCurrent
<1>13. CASE Unpark
  <2>1. pc \in WithRecord /\ OriginalEntry \notin Private
    BY <1>0, <1>13, PrivateFacts DEF Unpark, WithRecord, Places, OriginalEntry, Record
  <2>2. JournalKept
    <3>1. PICK o \in Outcomes \cup {"fail"} : Rename(OriginalEntry, Project(job.role), o)
      BY <1>13 DEF Unpark
    <3>2. OriginalEntry \notin Private /\ Project(job.role) \notin Private
      BY <1>0, <2>1, PrivateFacts
    <3> QED BY <1>0, <3>1, <3>2, RenameKeeps
  <2>3. PICK ok \in BOOLEAN : Restored(ok)
    BY <1>13 DEF Unpark
  <2> QED BY <1>3, <1>5, <2>2, <2>3, RestoredPlace
<1>14. CASE StageImage
  <2>1. JournalKept
    <3>1. CASE UNCHANGED <<disk, media>>
      BY <3>1, QuietKeeps
    <3>2. CASE /\ WithinBudget
               /\ \E o \in Outcomes : Write(Recovered(recoveries + 1), Was, o)
      <4>1. recoveries + 1 \in Recoveries
        BY <3>2, UsedBound
      <4> QED BY <1>0, <3>2, <4>1, PrivateFacts, WriteKeeps
    <3> QED BY <1>14, <3>1, <3>2 DEF StageImage, Quiet
  <2> QED BY <1>3, <1>4, <1>5, <1>14, <2>1, RestoredPlace DEF StageImage
<1>15. CASE PublishImage
  <2>1. pc \in WithRecord /\ recoveries \in Recoveries
    BY <1>0, <1>15 DEF PublishImage, WithRecord, Places, Retaining
  <2>2. JournalKept
    <3>1. PICK o \in Outcomes \cup {"fail"} : Rename(Recovered(recoveries), Project(job.role), o)
      BY <1>15 DEF PublishImage
    <3>2. Recovered(recoveries) \notin Private /\ Project(job.role) \notin Private
      BY <1>0, <2>1, PrivateFacts
    <3> QED BY <1>0, <3>1, <3>2, RenameKeeps
  <2>3. PICK ok \in BOOLEAN : Restored(ok)
    BY <1>15 DEF PublishImage
  <2> QED BY <1>3, <1>5, <2>2, <2>3, RestoredPlace
<1>16. CASE Clear
  <2> DEFINE w == [x \in {Marker} |-> Absent]
  <2>1. PICK o \in Outcomes : Perform(w, o) /\ (o # "ok" => Return(FALSE))
                              /\ (o = "ok" => pc' = "clear_image")
    BY <1>16 DEF Clear, Remove, Write
  <2>2. Apply(disk, w)[Marker] = Absent
    BY PrivateFacts DEF Apply
  <2> HIDE DEF w
  <2>3. \A d \in media' : Whole(d, histories')
    BY <1>1, <2>1, <2>2, PerformMedia DEF Whole
  <2>4. HolderKnows'
    BY <1>5, <2>1, <2>2, PerformMedia, ReturnPlace, NothingClaimed
       DEF HolderKnows, Unmarked, Recorded, Imaged
  <2> QED BY <2>3, <2>4
<1>17. CASE ClearImage
  <2> DEFINE w == [x \in {Before(job.role)} |-> Absent]
  <2>1. pc = "clear_image" /\ job.role \in Roles /\ disk[Marker] = Absent
    BY <1>0, <1>17 DEF ClearImage, ControlOK, Job, HolderKnows, Unmarked
  <2>2. PICK o \in Outcomes : Perform(w, o)
    BY <1>17 DEF ClearImage, Remove, Write
  <2>3. Apply(disk, w)[Marker] = Absent
    BY <2>1, PrivateFacts DEF Apply
  <2> HIDE DEF w
  <2>4. \A d \in media' : Whole(d, histories')
    BY <1>1, <2>2, <2>3, PerformMedia DEF Whole
  <2>5. disk'[Marker] = Absent
    BY <2>1, <2>2, <2>3, PerformMedia
  <2>6. pc' \in {"clear_image", "idle", "admit", "commit", "report", "acknowledge", "stop"}
    BY <1>0, <1>17, <2>1, ReturnPlace DEF ClearImage, ControlOK, Job
  <2> QED BY <2>4, <2>5, <2>6 DEF HolderKnows, Unmarked, Recorded, Imaged
<1> QED BY <1>6, <1>7, <1>8, <1>9, <1>10, <1>11, <1>12, <1>13, <1>14, <1>15, <1>16,
           <1>17 DEF Recovery

\* A complete journal stays complete while the holder keeps its record.
LEMMA ImagedStep ==
  ASSUME HolderKnows, pc \in Imaged, histories' = histories,
         \A r \in Roles : disk'[Before(r)] = disk[Before(r)],
         job'.rec = job.rec, pc' \notin Unmarked
  PROVE  HolderKnows'
BY DEF HolderKnows, Unmarked, Recorded, Imaged

LEMMA MarkerWritten ==
  ASSUME InOrder, JournalInv, pc \in Imaged, histories' = histories,
         NEW phase, NEW o, Write(Marker, MarkerOf(phase), o)
  PROVE  /\ \A d \in media' : Whole(d, histories')
         /\ \A r \in Roles : disk'[Before(r)] = disk[Before(r)]
<1> DEFINE w == [x \in {Marker} |-> MarkerOf(phase)]
           new == Apply(disk, w)
<1>1. Perform(w, o)
  BY DEF Write
<1>2. new[Marker] = MarkerOf(phase) /\ \A r \in Roles : new[Before(r)] = disk[Before(r)]
  BY PrivateFacts DEF Apply
<1> HIDE DEF w
<1>3. /\ \A r \in Roles : disk[Before(r)] = Image(job.rec.before[r])
      /\ job.rec.history <= histories
  BY DEF JournalInv, HolderKnows, Recorded
<1>4. Whole(new, histories)
  BY <1>2, <1>3 DEF Whole, Verified, MarkerOf
<1>5. disk' \in {disk, new} /\ \A d \in media' : d \in media \/ d = new
  BY <1>1, PerformMedia
<1> QED BY <1>2, <1>4, <1>5 DEF JournalInv

LEMMA CommitmentJournal ==
  ASSUME InOrder, JournalInv, TypeInv', Commitment
  PROVE  JournalInv'
<1> USE DEF JournalInv
<1>0. /\ DiskOK /\ ControlOK
      /\ pc \in WithRecord => job.rec \in Record /\ job.role \in Roles
  BY DEF TypeInv, ControlOK, Job
<1>1. histories \in Int /\ histories' \in Int
  BY DEF TypeInv
<1>2. ASSUME JournalKept, pc \in Imaged, histories' = histories, job'.rec = job.rec,
             pc' \notin Unmarked
      PROVE  JournalInv'
  BY <1>1, <1>2, WholeKept, ImagedStep, PrivateFacts DEF JournalKept, SameJournal
<1>3. ASSUME NEW place, NEW role, Goto(place) \/ StepTo(place, role)
      PROVE  pc' = place /\ job'.rec = job.rec
             /\ (StepTo(place, role) => job'.role = role)
  BY <1>0, <1>3 DEF Goto, StepTo, ControlOK, Job
<1>4. pc \in Imaged => pc \in WithRecord /\ OriginalEntry \notin Private
                       /\ Project(job.role) \notin Private
                       /\ New(job.rec.history, job.role) \notin Private
  BY <1>0, PrivateFacts DEF Imaged, WithRecord, Places, OriginalEntry, Record
<1>5. \A a : Finish(a) => pc' = "idle"
  BY DEF Finish
<1>6. CASE Admit
  <2>1. JournalKept /\ UNCHANGED histories
    BY <1>6, QuietKeeps DEF Admit, Quiet, limits
  <2>2. pc' \in {"idle", "recover"}
    BY <1>5, <1>6 DEF Admit
  <2> QED BY <1>1, <2>1, <2>2, WholeKept, NothingClaimed DEF Unmarked, Recorded, Imaged
<1>7. CASE Commit
  <2>1. JournalKept /\ UNCHANGED <<disk, media>>
    BY <1>7, QuietKeeps DEF Commit, Quiet, ReadFault, Fault
  <2>2. CASE pc' = "idle" /\ UNCHANGED limits
    BY <1>1, <2>1, <2>2, WholeKept, NothingClaimed DEF Unmarked, Recorded, Imaged, limits
  <2>3. CASE /\ histories' = histories + 1 /\ pc' = "stage"
             /\ job'.rec.history = histories + 1
    <3>1. disk'[Marker] = Absent
      BY <1>7, <2>1 DEF Commit, HolderKnows, Unmarked
    <3>2. HolderKnows'
      BY <1>1, <2>3, <3>1 DEF HolderKnows, Unmarked, Recorded, Imaged
    <3> QED BY <1>1, <2>1, <2>3, <3>2, WholeKept
  <2>4. \A rec, role : job' = [job EXCEPT !.rec = rec, !.role = role] => job'.rec = rec
    BY <1>0 DEF ControlOK, Job
  <2>5. \/ (Finish("refused") \/ Finish("unchanged")) /\ UNCHANGED limits
        \/ /\ histories' = histories + 1 /\ pc' = "stage"
           /\ \E before, role :
                job' = [job EXCEPT !.rec = [before |-> before, after |-> job.want,
                                            history |-> histories + 1],
                                   !.role = role]
    BY <1>7 DEF Commit
  <2>6. CASE (Finish("refused") \/ Finish("unchanged")) /\ UNCHANGED limits
    BY <1>5, <2>2, <2>6
  <2>7. ASSUME NEW before, NEW role,
               job' = [job EXCEPT !.rec = [before |-> before, after |-> job.want,
                                           history |-> histories + 1],
                                  !.role = role]
        PROVE  job'.rec.history = histories + 1
    <3> DEFINE rec == [before |-> before, after |-> job.want,
                       history |-> histories + 1]
    <3>1. rec.history = histories + 1
      OBVIOUS
    <3>2. job' = [job EXCEPT !.rec = rec, !.role = role]
      BY <2>7
    <3> HIDE DEF rec
    <3> QED BY <2>4, <3>1, <3>2
  <2> QED BY <2>3, <2>5, <2>6, <2>7
<1>8. CASE Stage
  <2>1. pc = "stage" /\ pc \in WithRecord /\ UNCHANGED limits
    BY <1>8 DEF Stage, WithRecord, Places
  <2>2. PICK o \in Outcomes :
          /\ Write(New(job.rec.history, job.role), Will, o)
          /\ \/ Finish("refused")
             \/ StepTo("stage", "lock")
             \/ StepTo("save_image", "manifest")
    BY <1>0, <1>8, <2>1 DEF Stage, Roles
  <2>3. New(job.rec.history, job.role) \notin Private
    BY <1>0, <2>1, PrivateFacts DEF Record
  <2>4. JournalKept
    BY <1>0, <2>2, <2>3, WriteKeeps
  <2>5. disk'[Marker] = Absent /\ job.rec.history <= histories
    BY <2>1, <2>4, PrivateFacts
       DEF HolderKnows, Unmarked, Recorded, JournalKept, SameJournal
  <2>6. HolderKnows'
    BY <1>3, <1>5, <2>1, <2>2, <2>5 DEF HolderKnows, Unmarked, Recorded, Imaged, limits
  <2> QED BY <1>1, <2>1, <2>4, <2>6, WholeKept DEF limits
<1>9. CASE SaveImage
  <2> DEFINE e == Before(job.role)
             w == [x \in {e} |-> Image(Was)]
             new == Apply(disk, w)
  <2>1. /\ pc = "save_image" /\ pc \in WithRecord /\ histories' = histories
        /\ job.role \in Roles
    BY <1>0, <1>9 DEF SaveImage, WithRecord, Places, limits
  <2>2. PICK o \in Outcomes :
          /\ Perform(w, o)
          /\ \/ Finish("refused")
             \/ o = "ok" /\ job.role = "manifest" /\ StepTo("save_image", "lock")
             \/ o = "ok" /\ job.role = "lock" /\ Goto("mark_pending")
    BY <1>9, <2>1 DEF SaveImage, Write, Roles
  <2>3. disk[Marker] = Absent /\ job.rec.history <= histories
    BY <2>1 DEF HolderKnows, Unmarked, Recorded
  <2>4. /\ new[Marker] = Absent /\ new[e] = Image(Was)
        /\ \A r \in Roles : Before(r) # e => new[Before(r)] = disk[Before(r)]
    BY <2>1, <2>3, PrivateFacts DEF Apply
  <2> HIDE DEF w
  <2>5. /\ disk' \in {disk, new} /\ (o = "ok" => disk' = new)
        /\ \A d \in media' : d \in media \/ d = new
    BY <2>2, PerformMedia DEF Outcomes
  <2>6. \A d \in media' : Whole(d, histories')
    BY <2>1, <2>4, <2>5 DEF Whole
  <2>7. CASE Finish("refused")
    BY <1>5, <2>6, <2>7, NothingClaimed DEF Unmarked, Recorded, Imaged
  <2>8. CASE o = "ok" /\ job.role = "manifest" /\ StepTo("save_image", "lock")
    <3>1. /\ pc' = "save_image" /\ job'.rec = job.rec /\ disk'[Marker] = Absent
          /\ disk'[Before("manifest")] = Image(job.rec.before["manifest"])
      BY <1>3, <2>4, <2>5, <2>8 DEF Was
    <3> QED BY <2>1, <2>3, <2>6, <3>1 DEF HolderKnows, Unmarked, Recorded, Imaged
  <2>9. CASE o = "ok" /\ job.role = "lock" /\ Goto("mark_pending")
    <3>1. /\ pc' = "mark_pending" /\ job'.rec = job.rec /\ disk'[Marker] = Absent
          /\ disk'[Before("lock")] = Image(job.rec.before["lock"])
      BY <2>4, <2>5, <2>9 DEF Was, Goto
    <3>2. disk'[Before("manifest")] = Image(job.rec.before["manifest"])
      BY <2>1, <2>4, <2>5, <2>9, PrivateFacts DEF HolderKnows, Roles
    <3> QED BY <2>1, <2>3, <2>6, <3>1, <3>2
            DEF HolderKnows, Unmarked, Recorded, Imaged, Roles
  <2> QED BY <2>2, <2>7, <2>8, <2>9
<1>10. CASE MarkPending
  <2>1. pc \in Imaged /\ histories' = histories
    BY <1>10 DEF MarkPending, Imaged, limits
  <2>2. /\ \A d \in media' : Whole(d, histories')
        /\ \A r \in Roles : disk'[Before(r)] = disk[Before(r)]
    BY <1>10, <2>1, MarkerWritten DEF MarkPending
  <2>3. \/ pc' = "idle"
        \/ pc' \in {"abort", "park", "publish"} /\ job'.rec = job.rec
    BY <1>3, <1>5, <1>10 DEF MarkPending, LockStep, Outcomes
  <2> QED BY <2>1, <2>2, <2>3, ImagedStep, NothingClaimed DEF Unmarked, Recorded, Imaged
<1>11. CASE Park
  <2>1. pc \in Imaged /\ histories' = histories
    BY <1>11 DEF Park, Imaged, limits
  <2>2. PICK o \in Outcomes \cup {"fail"} :
          /\ Rename(Project(job.role), OriginalEntry, o)
          /\ Goto("verify_parked") \/ Goto("abort")
    BY <1>11 DEF Park
  <2>3. JournalKept
    <3>1. OriginalEntry \notin Private /\ Project(job.role) \notin Private
      BY <1>4, <2>1
    <3> QED BY <1>0, <2>2, <3>1, RenameKeeps
  <2> QED BY <1>2, <2>1, <2>2, <2>3 DEF Unmarked, Goto
<1>12. CASE VerifyParked
  <2>1. pc \in Imaged /\ histories' = histories
    BY <1>12 DEF VerifyParked, Imaged, limits
  <2>2. JournalKept /\ (Goto("publish") \/ Goto("abort"))
    BY <1>12, QuietKeeps DEF VerifyParked, Quiet, ReadFault
  <2>3. pc' \in {"publish", "abort"} /\ job'.rec = job.rec
    BY <1>3, <2>2
  <2> QED BY <1>2, <2>1, <2>2, <2>3 DEF Unmarked
<1>13. CASE Publish
  <2>1. pc \in Imaged /\ histories' = histories
    BY <1>13 DEF Publish, Imaged, limits
  <2>2. PICK o \in Outcomes \cup {"fail"} :
          /\ Rename(New(job.rec.history, job.role), Project(job.role), o)
          /\ Goto("abort") \/ LockStep \/ Goto("verify_generation")
    BY <1>0, <1>4, <1>13, <2>1 DEF Publish, Roles
  <2>3. JournalKept
    BY <1>0, <1>4, <2>1, <2>2, RenameKeeps
  <2> QED BY <1>2, <1>3, <2>1, <2>2, <2>3 DEF Unmarked, LockStep
<1>14. CASE VerifyGeneration
  <2>1. pc \in Imaged /\ histories' = histories
    BY <1>14 DEF VerifyGeneration, Imaged, limits
  <2>2. JournalKept /\ (Goto("mark_committed") \/ Goto("abort"))
    BY <1>14, QuietKeeps DEF VerifyGeneration, Quiet, ReadFault
  <2> QED BY <1>2, <1>3, <2>1, <2>2 DEF Unmarked
<1>15. CASE MarkCommitted
  <2>1. pc \in Imaged /\ histories' = histories
    BY <1>15 DEF MarkCommitted, Imaged, limits
  <2>2. /\ \A d \in media' : Whole(d, histories')
        /\ \A r \in Roles : disk'[Before(r)] = disk[Before(r)]
    BY <1>15, <2>1, MarkerWritten DEF MarkCommitted
  <2>3. pc' \in {"clear", "abort"} /\ job'.rec = job.rec
    BY <1>0, <1>3, <1>15 DEF MarkCommitted, ControlOK, Job
  <2> QED BY <2>1, <2>2, <2>3, ImagedStep DEF Unmarked
<1>16. CASE Abort
  <2>1. pc \in Imaged /\ histories' = histories
    BY <1>16 DEF Abort, Imaged, limits
  <2>2. /\ \A d \in media' : Whole(d, histories')
        /\ \A r \in Roles : disk'[Before(r)] = disk[Before(r)]
    BY <1>16, <2>1, MarkerWritten DEF Abort
  <2>3. pc' = "recover"
    BY <1>16 DEF Abort
  <2> QED BY <2>2, <2>3, NothingClaimed DEF Unmarked, Recorded, Imaged
<1> QED BY <1>6, <1>7, <1>8, <1>9, <1>10, <1>11, <1>12, <1>13, <1>14, <1>15, <1>16
        DEF Commitment

LEMMA EnvironmentJournal ==
  ASSUME InOrder, JournalInv, TypeInv', Begin \/ Crash \/ PowerLoss \/ Editor
  PROVE  JournalInv'
<1> USE DEF JournalInv
<1>1. histories' = histories /\ histories \in Int
  <2>1. ASSUME NEW e, NEW c, Edit(e, c) PROVE histories' = histories
    BY <2>1 DEF Edit, limits
  <2>2. Editor => histories' = histories
    BY <2>1 DEF Editor, EditorSaves, EditorWritesOpenFile, EditorRemoves
  <2> QED BY <2>2 DEF TypeInv, Begin, Crash, PowerLoss, limits
<1>2. CASE Begin \/ Crash
  <2>1. JournalKept /\ pc' \in {"recover", "idle"}
    BY <1>2, QuietKeeps DEF Begin, Crash, Quiet, Finish
  <2> QED BY <1>1, <2>1, WholeKept, NothingClaimed DEF Unmarked, Recorded, Imaged
<1>3. CASE PowerLoss
  <2>1. pc' = "idle" /\ media' \subseteq media
    BY <1>3 DEF PowerLoss, Finish
  <2> QED BY <1>1, <2>1, NothingClaimed DEF Unmarked, Recorded, Imaged
<1>4. CASE Editor
  <2>1. \E e, c : Edit(e, c) /\ e \notin Private
    BY <1>4, PrivateFacts DEF Editor, EditorSaves, EditorWritesOpenFile, EditorRemoves
  <2>2. JournalKept
    BY <2>1, EditKeeps DEF TypeInv
  <2>3. UNCHANGED <<pc, job>>
    BY <2>1 DEF Edit
  <2>4. HolderKnows'
    BY <1>1, <2>2, <2>3, PrivateFacts
       DEF HolderKnows, JournalKept, SameJournal, Roles
  <2> QED BY <1>1, <2>2, <2>4, WholeKept
<1> QED BY <1>2, <1>3, <1>4

LEMMA JournalInit == Init => JournalInv
<1> SUFFICES ASSUME Init PROVE JournalInv
  OBVIOUS
<1>1. disk[Marker] = Absent
  <2>1. Marker[1] # "project" /\ Marker \in Entry
    BY PrivateFacts DEF Marker
  <2> QED BY <2>1 DEF Init
<1>2. TypeInv
  BY InitType
<1> QED BY <1>1, <1>2 DEF Init, JournalInv, HolderKnows, Whole, Unmarked, Recorded, Imaged

LEMMA JournalStep ==
  ASSUME InOrder PROVE JournalInv /\ [Next]_vars => JournalInv'
<1> SUFFICES ASSUME JournalInv, [Next]_vars PROVE JournalInv'
  OBVIOUS
<1>1. TypeInv'
  BY TypeStep DEF JournalInv
<1>2. CASE UNCHANGED vars
  BY <1>1, <1>2 DEF JournalInv, HolderKnows, Whole, Verified, vars
<1> QED BY <1>1, <1>2, RecoveryJournal, CommitmentJournal, EnvironmentJournal
        DEF Next, Holder

\* A marker that can reappear after a crash or a power loss names before images
\* that are there and a history that exists, for all bytes, quotas and bounds,
\* whatever an editor does and whichever operations fail.
THEOREM JournalIsRecoverable ==
  ASSUME OrderedMetadata PROVE Spec => []JournalRecoverable
<1>1. JournalInv => JournalRecoverable
  BY DEF JournalInv, JournalRecoverable, Whole
<1>2. JournalInv /\ [Next]_vars => JournalInv'
  BY JournalStep DEF InOrder
<1> QED BY <1>1, <1>2, JournalInit, PTL DEF Spec
-----------------------------------------------------------------------------
(* The journal promises to bring back what was admitted *)

\* Whatever the metadata order, a commit knows its marker to be absent until it
\* writes one, and writes only one that names the admitted generation.
AdmittedInv ==
  /\ pc \in Unmarked => disk[Marker] = Absent
  /\ pc \in Recorded => job.then = "commit" /\ job.rec.before = job.admitted
  /\ job.then = "commit" => \/ pc \in {"recover", "commit"} /\ disk[Marker] = Absent
                            \/ pc \in Recorded
  /\ job.then = "acknowledge" => pc \in {"clear", "clear_image"}
  /\ ReplacesWhatWasAdmitted

LEMMA PerformDisk ==
  ASSUME NEW w, NEW o, Perform(w, o)
  PROVE  /\ disk' \in {disk, Apply(disk, w)}
         /\ o # "fail" => disk' = Apply(disk, w)
BY DEF Perform

LEMMA WriteElsewhere ==
  ASSUME NEW e, e # Marker, NEW c, NEW o, Write(e, c, o)
  PROVE  disk'[Marker] = disk[Marker]
<1> DEFINE w == [x \in {e} |-> c]
<1>1. Perform(w, o) /\ Marker \notin DOMAIN w
  BY DEF Write
<1> HIDE DEF w
<1> QED BY <1>1, PerformDisk, PrivateFacts DEF Apply

LEMMA RenameElsewhere ==
  ASSUME NEW from, from # Marker, NEW to, to # Marker, NEW o, Rename(from, to, o)
  PROVE  disk'[Marker] = disk[Marker]
<1> DEFINE w == [x \in {from, to} |-> IF x = to THEN disk[from] ELSE Absent]
<1>1. UNCHANGED disk \/ (Perform(w, o) /\ Marker \notin DOMAIN w)
  BY DEF Rename
<1> HIDE DEF w
<1> QED BY <1>1, PerformDisk, PrivateFacts DEF Apply

LEMMA MarkerWrite ==
  ASSUME NEW c, NEW o, Write(Marker, c, o)
  PROVE  disk'[Marker] \in {disk[Marker], c} /\ (o # "fail" => disk'[Marker] = c)
<1> DEFINE w == [x \in {Marker} |-> c]
<1>1. Perform(w, o) /\ Apply(disk, w)[Marker] = c
  BY PrivateFacts DEF Write, Apply
<1> HIDE DEF w
<1> QED BY <1>1, PerformDisk

LEMMA NotMarker ==
  /\ \A h, r : Original(h, r) # Marker /\ New(h, r) # Marker
  /\ \A n : Recovered(n) # Marker
  /\ \A r \in Roles : Project(r) # Marker /\ Before(r) # Marker
  /\ \A e \in Parked \cup Removed : e # Marker
BY DEF Project, Before, Original, New, Recovered, Marker, Roles, Parked, Removed

\* Only the steps that write the marker, and a power loss, change it.
LEMMA MarkerStays ==
  ASSUME job.role \in Roles,
         \/ Recover \/ Restore \/ PutBack \/ Retain \/ MoveCurrent \/ VerifyCurrent
         \/ ReturnCurrent \/ Unpark \/ StageImage \/ PublishImage \/ ClearImage
         \/ Admit \/ Commit \/ Stage \/ SaveImage \/ Park \/ VerifyParked \/ Publish
         \/ VerifyGeneration \/ Begin \/ Crash \/ Editor
  PROVE  disk'[Marker] = disk[Marker]
<1>1. CASE \/ Recover \/ Restore \/ Retain \/ VerifyCurrent \/ Admit \/ Commit
           \/ VerifyParked \/ VerifyGeneration \/ Begin \/ Crash
  BY <1>1 DEF Recover, Restore, Retain, VerifyCurrent, Admit, Commit, VerifyParked,
              VerifyGeneration, Begin, Crash, Quiet, Fault, ReadFault
<1>2. CASE PutBack \/ MoveCurrent \/ ReturnCurrent \/ Unpark \/ PublishImage \/ Park
           \/ Publish
  <2>1. \E from, to, o : from # Marker /\ to # Marker /\ Rename(from, to, o)
    BY <1>2, NotMarker DEF PutBack, MoveCurrent, ReturnCurrent, Unpark, PublishImage,
                           Park, Publish, OriginalEntry
  <2> QED BY <2>1, RenameElsewhere
<1>3. CASE StageImage
  BY <1>3, NotMarker, WriteElsewhere DEF StageImage, Quiet
<1>4. CASE ClearImage \/ Stage \/ SaveImage
  <2>1. \E e, c, o : e # Marker /\ Write(e, c, o)
    BY <1>4, NotMarker DEF ClearImage, Stage, SaveImage, Remove
  <2> QED BY <2>1, WriteElsewhere
<1>5. CASE Editor
  <2>1. PICK e, c : e # Marker /\ Edit(e, c)
    BY <1>5, NotMarker DEF Editor, EditorSaves, EditorWritesOpenFile, EditorRemoves
  <2> DEFINE w == [x \in {e} |-> c]
  <2>2. disk' = Apply(disk, w) /\ Marker \notin DOMAIN w
    BY <2>1 DEF Edit
  <2> HIDE DEF w
  <2> QED BY <2>2, PrivateFacts DEF Apply
<1> QED BY <1>1, <1>2, <1>3, <1>4, <1>5

\* Where a step of the restoration of an entry leaves the command.
LEMMA RestoredJob ==
  ASSUME job \in Job, NEW ok \in BOOLEAN, Restored(ok)
  PROVE  \/ pc' = "idle" /\ job' = NoJob
         \/ pc' \in {"restore", "clear"} /\ job'.then = job.then /\ job'.rec = job.rec
            /\ job'.admitted = job.admitted /\ job'.want = job.want
BY DEF Restored, Return, Finish, Goto, Job

LEMMA ReturnJob ==
  ASSUME job \in Job
  PROVE  /\ Return(FALSE) => pc' = "idle" /\ job' = NoJob
         /\ Return(TRUE) => \/ pc' = "idle" /\ job' = NoJob
                            \/ pc' = job.then /\ job'.then = job.then
BY DEF Return, Finish, Job, NoJob

LEMMA NothingAdmitted ==
  ASSUME job'.then \notin {"commit", "acknowledge"}, pc' \notin Unmarked \cup Recorded
  PROVE  AdmittedInv'
BY DEF AdmittedInv, ReplacesWhatWasAdmitted

LEMMA RecoveryAdmitted ==
  ASSUME TypeInv, AdmittedInv, Recovery PROVE AdmittedInv'
<1> USE DEF AdmittedInv
<1>0. job \in Job /\ job.role \in Roles /\ (pc # "idle" => job.then # "stop")
      /\ job.then \in {"stop", "admit", "commit", "report", "acknowledge"}
  BY DEF TypeInv, ControlOK, Job
<1>1. NoJob.then = "stop"
  BY DEF NoJob
<1>2. \A place : Goto(place) \/ Unsound(place) => pc' = place /\ job'.then = job.then
  BY <1>0 DEF Goto, Unsound, Job
<1>3. ASSUME pc' = "idle", job' = NoJob PROVE AdmittedInv'
  BY <1>1, <1>3, NothingAdmitted DEF Unmarked, Recorded, Imaged
<1>4. CASE Recover
  <2>0. pc = "recover" /\ disk'[Marker] = disk[Marker]
    BY <1>0, <1>4, MarkerStays DEF Recover
  <2>1. job.then # "acknowledge" /\ (disk[Marker] # Absent => job.then # "commit")
    BY <2>0 DEF Recorded, Imaged
  <2>2. CASE disk[Marker] = Absent /\ Return(TRUE)
    <3>1. CASE pc' = job.then /\ job'.then = job.then
      BY <1>0, <2>0, <2>1, <2>2, <3>1 DEF ReplacesWhatWasAdmitted, Unmarked, Recorded, Imaged
    <3> QED BY <1>0, <1>3, <2>2, <3>1, ReturnJob
  <2>3. CASE disk[Marker] # Absent /\ pc' \in {"clear", "restore"} /\ job'.then = job.then
    BY <2>1, <2>3, NothingAdmitted DEF Unmarked, Recorded, Imaged
  <2>4. \A role, sound : RollBack(role, sound) => pc' = "restore" /\ job'.then = job.then
    BY <1>0 DEF RollBack, Job
  <2>5. \/ Return(FALSE)
        \/ disk[Marker] = Absent /\ Return(TRUE)
        \/ disk[Marker] # Absent /\ Goto("clear")
        \/ disk[Marker] # Absent /\ \E role, sound : RollBack(role, sound)
    BY <1>4 DEF Recover
  <2> QED BY <1>0, <1>2, <1>3, <2>2, <2>3, <2>4, <2>5, ReturnJob
<1>5. ASSUME pc \notin {"recover", "commit", "clear", "clear_image"} \cup Recorded,
             \/ pc' = "idle" /\ job' = NoJob
             \/ pc' \notin Unmarked \cup Recorded /\ job'.then = job.then
      PROVE  AdmittedInv'
  BY <1>3, <1>5, NothingAdmitted
<1>6. CASE \/ Restore \/ PutBack \/ Retain \/ MoveCurrent \/ VerifyCurrent
           \/ ReturnCurrent \/ Unpark \/ StageImage \/ PublishImage
  <2>1. pc \in {"restore", "put_back", "retain", "move_current", "verify_current",
                "return_current", "unpark", "stage_image", "publish_image"}
    BY <1>6 DEF Restore, PutBack, Retain, MoveCurrent, VerifyCurrent, ReturnCurrent,
                Unpark, StageImage, PublishImage
  <2>2. \/ \E ok \in BOOLEAN : Restored(ok)
        \/ \E place \in {"put_back", "retain", "move_current", "verify_current",
                         "return_current", "unpark", "stage_image", "publish_image"} :
             Goto(place) \/ Unsound(place)
        \/ pc' = "retain" /\ job'.then = job.then
    <3>1. Restore => \/ \E ok \in BOOLEAN : Restored(ok)
                     \/ Unsound("put_back") \/ Goto("unpark")
                     \/ pc' = "retain" /\ job'.then = job.then
      BY <1>0 DEF Restore, Job
    <3>2. PutBack \/ ReturnCurrent \/ Unpark \/ PublishImage
            => \E ok \in BOOLEAN : Restored(ok)
      BY DEF PutBack, ReturnCurrent, Unpark, PublishImage
    <3>3. Retain => Restored(FALSE) \/ Goto("move_current")
      BY DEF Retain
    <3>4. MoveCurrent => Restored(FALSE) \/ Goto("verify_current")
                                         \/ Unsound("verify_current")
      BY DEF MoveCurrent, Outcomes
    <3>5. VerifyCurrent => \/ \E ok \in BOOLEAN : Restored(ok)
                           \/ Unsound("return_current") \/ Goto("unpark")
                           \/ Goto("stage_image")
      BY DEF VerifyCurrent
    <3>6. StageImage => Restored(FALSE) \/ Goto("publish_image")
      BY DEF StageImage
    <3> QED BY <1>6, <3>1, <3>2, <3>3, <3>4, <3>5, <3>6
  <2>3. \/ pc' = "idle" /\ job' = NoJob
        \/ /\ pc' \in {"restore", "clear", "put_back", "retain", "move_current",
                       "verify_current", "return_current", "unpark", "stage_image",
                       "publish_image"}
           /\ job'.then = job.then
    BY <1>0, <1>2, <2>2, RestoredJob
  <2> QED BY <1>5, <2>1, <2>3 DEF Unmarked, Recorded, Imaged
<1>7. CASE Clear
  <2>1. pc = "clear" /\ job.then # "commit"
    BY <1>7 DEF Clear, Recorded, Imaged
  <2>2. \/ Return(FALSE)
        \/ disk'[Marker] = Absent /\ pc' = "clear_image" /\ job'.then = job.then
    <3>1. PICK o \in Outcomes :
            /\ Write(Marker, Absent, o)
            /\ \/ Return(FALSE)
               \/ o = "ok" /\ pc' = "clear_image"
                           /\ job' = [job EXCEPT !.role = "manifest"]
      BY <1>7 DEF Clear, Remove
    <3> QED BY <1>0, <3>1, MarkerWrite DEF Job
  <2> QED BY <1>0, <1>3, <2>1, <2>2, ReturnJob
          DEF ReplacesWhatWasAdmitted, Unmarked, Recorded, Imaged
<1>8. CASE ClearImage
  <2>1. pc = "clear_image" /\ job.then # "commit" /\ disk'[Marker] = Absent
    BY <1>0, <1>8, MarkerStays DEF ClearImage, Unmarked, Recorded, Imaged
  <2>2. \/ pc' = pc /\ job'.then = job.then
        \/ Return(TRUE)
    BY <1>0, <1>8 DEF ClearImage, Job
  <2>3. Return(TRUE) => \/ pc' = "idle" /\ job' = NoJob
                        \/ pc' = "admit" /\ job'.then = "admit"
    BY <1>0, <2>1 DEF Return, Finish, Job, NoJob
  <2> QED BY <1>3, <2>1, <2>2, <2>3 DEF ReplacesWhatWasAdmitted, Unmarked, Recorded, Imaged
<1> QED BY <1>4, <1>6, <1>7, <1>8 DEF Recovery

LEMMA CommitmentAdmitted ==
  ASSUME TypeInv, AdmittedInv, Commitment PROVE AdmittedInv'
<1> USE DEF AdmittedInv
<1>0. job \in Job /\ job.role \in Roles
  BY DEF TypeInv, ControlOK, Job
<1>1. ASSUME NEW a, Finish(a) PROVE AdmittedInv'
  <2>1. pc' = "idle" /\ job'.then = "stop"
    BY <1>1 DEF Finish, NoJob
  <2> QED BY <2>1, NothingAdmitted DEF Unmarked, Recorded, Imaged
<1>2. ASSUME NEW place, NEW role, Goto(place) \/ StepTo(place, role)
      PROVE  pc' = place /\ job'.rec = job.rec /\ job'.then = job.then
             /\ job'.admitted = job.admitted
  BY <1>0, <1>2 DEF Goto, StepTo, Job
<1>3. ASSUME NEW place \in Recorded, NEW role, Goto(place) \/ StepTo(place, role),
             pc \in Recorded, place \in Unmarked => disk'[Marker] = Absent,
             disk'[Marker] # Absent => disk'[Marker].before = job.admitted
      PROVE  AdmittedInv'
  BY <1>2, <1>3 DEF ReplacesWhatWasAdmitted
<1>4. CASE Admit
  <2>1. disk'[Marker] = Absent
    BY <1>0, <1>4, MarkerStays DEF Admit, Unmarked
  <2>2. CASE Finish("refused")
    BY <1>1, <2>2
  <2>3. CASE ~Finish("refused")
    <3>1. PICK m \in GraphBytes \cup {disk[Project("manifest")]}, l \in GraphBytes :
            job' = [NoJob EXCEPT !.then = "commit", !.admitted = ProjectOf(disk),
                      !.want = [r \in Roles |-> IF r = "lock" THEN l ELSE m]]
      BY <1>4, <2>3 DEF Admit
    <3>2. job'.then = "commit" /\ pc' = "recover"
      BY <1>4, <2>3, <3>1 DEF Admit, NoJob
    <3> QED BY <2>1, <3>2 DEF ReplacesWhatWasAdmitted, Unmarked, Recorded, Imaged
  <2> QED BY <2>2, <2>3
<1>5. CASE Commit
  <2>1. disk'[Marker] = Absent /\ job.then = "commit"
    BY <1>0, <1>5, MarkerStays DEF Commit, Unmarked, TypeInv, ControlOK
  <2>2. ASSUME pc' = "stage", NEW rec, NEW role, rec.before = job.admitted,
               job' = [job EXCEPT !.rec = rec, !.role = role]
        PROVE  AdmittedInv'
    <3>1. job'.rec = rec /\ job'.then = job.then /\ job'.admitted = job.admitted
      BY <1>0, <2>2 DEF Job
    <3> QED BY <2>1, <2>2, <3>1 DEF ReplacesWhatWasAdmitted, Unmarked, Recorded, Imaged
  <2>3. \/ Finish("refused") \/ Finish("unchanged")
        \/ /\ pc' = "stage"
           /\ \E role, rec : /\ rec = [before |-> ProjectOf(disk), after |-> job.want,
                                       history |-> histories + 1]
                             /\ ProjectOf(disk) = job.admitted
                             /\ job' = [job EXCEPT !.rec = rec, !.role = role]
    BY <1>5 DEF Commit, StillAdmitted
  <2>4. CASE Finish("refused") \/ Finish("unchanged")
    BY <1>1, <2>4
  <2>5. CASE ~(Finish("refused") \/ Finish("unchanged"))
    <3>1. PICK role, rec :
            /\ rec = [before |-> ProjectOf(disk), after |-> job.want,
                      history |-> histories + 1]
            /\ ProjectOf(disk) = job.admitted
            /\ job' = [job EXCEPT !.rec = rec, !.role = role]
      BY <2>3, <2>5
    <3>2. rec.before = job.admitted
      BY <3>1
    <3> QED BY <2>2, <2>3, <2>5, <3>1, <3>2
  <2> QED BY <2>4, <2>5
<1>6. CASE Stage
  <2>1. disk'[Marker] = Absent
    BY <1>0, <1>6, MarkerStays DEF Stage, Unmarked
  <2>2. Finish("refused") \/ StepTo("stage", "lock") \/ StepTo("save_image", "manifest")
    BY <1>0, <1>6 DEF Stage, Roles
  <2> QED BY <1>1, <1>3, <1>6, <2>1, <2>2 DEF Stage, Recorded
<1>7. CASE SaveImage
  <2>1. disk'[Marker] = Absent
    BY <1>0, <1>7, MarkerStays DEF SaveImage, Unmarked
  <2>2. Finish("refused") \/ StepTo("save_image", "lock") \/ Goto("mark_pending")
    BY <1>0, <1>7 DEF SaveImage, Roles
  <2> QED BY <1>1, <1>3, <1>7, <2>1, <2>2 DEF SaveImage, Recorded, Imaged
<1>8. ASSUME pc \in Recorded, NEW phase, NEW o, Write(Marker, MarkerOf(phase), o)
      PROVE  disk'[Marker] # Absent => disk'[Marker].before = job.admitted
  <2>1. MarkerOf(phase).before = job.admitted
    BY <1>8 DEF MarkerOf
  <2>2. disk[Marker] # Absent => disk[Marker].before = job.admitted
    BY <1>8 DEF ReplacesWhatWasAdmitted
  <2> QED BY <1>8, <2>1, <2>2, MarkerWrite
<1>9. CASE MarkPending
  <2>1. \/ Finish("refused") \/ Goto("abort")
        \/ \E role : \E place \in {"park", "publish"} : StepTo(place, role)
    BY <1>9 DEF MarkPending, LockStep, Outcomes
  <2> QED BY <1>1, <1>3, <1>8, <1>9, <2>1 DEF MarkPending, Unmarked, Recorded, Imaged
<1>10. CASE Park \/ VerifyParked \/ Publish \/ VerifyGeneration
  <2>1. pc \in Recorded /\ disk'[Marker] = disk[Marker]
    BY <1>0, <1>10, MarkerStays
       DEF Park, VerifyParked, Publish, VerifyGeneration, Recorded, Imaged
  <2>2. \E role : \E place \in {"park", "verify_parked", "publish", "verify_generation",
                                "mark_committed", "abort"} :
           Goto(place) \/ StepTo(place, role)
    BY <1>0, <1>10 DEF Park, VerifyParked, Publish, VerifyGeneration, LockStep, Roles
  <2> QED BY <1>3, <2>1, <2>2
          DEF ReplacesWhatWasAdmitted, Unmarked, Recorded, Imaged
<1>11. CASE MarkCommitted
  <2>1. \/ Goto("abort")
        \/ /\ pc' = "clear" /\ job' = [job EXCEPT !.then = "acknowledge"]
    BY <1>11 DEF MarkCommitted
  <2>2. job' = [job EXCEPT !.then = "acknowledge"]
          => job'.then = "acknowledge" /\ job'.admitted = job.admitted
    BY <1>0 DEF Job
  <2> QED BY <1>3, <1>8, <1>11, <2>1, <2>2
          DEF MarkCommitted, ReplacesWhatWasAdmitted, Unmarked, Recorded, Imaged
<1>12. CASE Abort
  <2>1. pc' = "recover" /\ job'.then = "report"
    BY <1>0, <1>12 DEF Abort, Job
  <2> QED BY <2>1, NothingAdmitted DEF Unmarked, Recorded, Imaged
<1> QED BY <1>4, <1>5, <1>6, <1>7, <1>9, <1>10, <1>11, <1>12 DEF Commitment

LEMMA AdmittedStep == TypeInv /\ AdmittedInv /\ [Next]_vars => AdmittedInv'
<1> SUFFICES ASSUME TypeInv, AdmittedInv, [Next]_vars PROVE AdmittedInv'
  OBVIOUS
<1>1. CASE Begin
  <2>1. pc' = "recover" /\ job'.then = "admit"
    BY <1>1 DEF Begin, NoJob
  <2> QED BY <2>1, NothingAdmitted DEF Unmarked, Recorded, Imaged
<1>2. CASE Crash \/ PowerLoss
  <2>1. pc' = "idle" /\ job'.then = "stop"
    BY <1>2 DEF Crash, PowerLoss, Finish, NoJob
  <2> QED BY <2>1, NothingAdmitted DEF Unmarked, Recorded, Imaged
<1>3. CASE Editor
  <2>1. UNCHANGED <<pc, job>> /\ disk'[Marker] = disk[Marker]
    <3>1. job.role \in Roles
      BY DEF TypeInv, ControlOK, Job
    <3> QED BY <1>3, <3>1, MarkerStays
            DEF Editor, EditorSaves, EditorWritesOpenFile, EditorRemoves, Edit
  <2> QED BY <2>1 DEF AdmittedInv, ReplacesWhatWasAdmitted
<1>4. CASE UNCHANGED vars
  BY <1>4 DEF AdmittedInv, ReplacesWhatWasAdmitted, vars
<1> QED BY <1>1, <1>2, <1>3, <1>4, RecoveryAdmitted, CommitmentAdmitted
        DEF Next, Holder

\* A generation that an editor or another command changed between its admission
\* and the transaction is never replaced, for all bytes, quotas and bounds,
\* whatever fails and in whatever order changes become durable.
THEOREM ReplacesTheAdmitted == Spec => []ReplacesWhatWasAdmitted
<1>1. Init => AdmittedInv
  BY DEF Init, AdmittedInv, ReplacesWhatWasAdmitted, NoJob, Unmarked, Recorded, Imaged
<1>2. AdmittedInv => ReplacesWhatWasAdmitted
  BY DEF AdmittedInv
<1> QED BY <1>1, <1>2, TypeInvariant, AdmittedStep, PTL DEF Spec
-----------------------------------------------------------------------------
(* On an ordered file system, and in a project that nobody else edits, a     *)
(* journal can be taken back from whatever a power loss leaves.               *)
\* Nothing but the holder of graph.lock writes into the project.
NoEditor == EditorBytes = {} /\ EditorDeletes = {}

\* The entry r of disk d while the replacement rec of it is under way or taken
\* back: not moved, replaced, or moved away with nothing in its place.
Untouched(d, rec, r) == /\ d[Project(r)] = rec.before[r]
                        /\ d[Original(rec.history, r)] = Absent
Replaced(d, rec, r)  == /\ d[Project(r)] = rec.after[r]
                        /\ d[Original(rec.history, r)] = rec.before[r]
MovedAway(d, rec, r) == /\ d[Project(r)] = Absent
                        /\ d[Original(rec.history, r)] = rec.before[r]
Reversible(d, rec, r) ==
  Untouched(d, rec, r) \/ Replaced(d, rec, r) \/ MovedAway(d, rec, r)

\* A disk whose journal can be taken back when histories 1..n exist.
Sound(d, n) ==
  /\ d[Marker] # Absent => \A r \in Roles : Reversible(d, d[Marker], r)
  /\ \A h \in Histories, r \in Roles : h > n => d[Original(h, r)] = Absent

\* Places at which the holder prepares, writes or takes back a generation.
Restoring == {"restore", "retain", "move_current", "verify_current",
              "return_current", "unpark"}
Preparing == {"stage", "save_image", "mark_pending"}
Replacing == {"park", "verify_parked", "publish"}
Journaled == Restoring \cup Replacing
               \cup {"verify_generation", "mark_committed", "abort"}

\* The holder's record is the one of the visible marker.
JournalAtHand ==
  pc \in Journaled => /\ disk[Marker] # Absent
                      /\ job.rec.before = disk[Marker].before
                      /\ job.rec.after = disk[Marker].after
                      /\ job.rec.history = disk[Marker].history

\* Restoration finds what it moves where it has left it.
RestoreKnown ==
  /\ pc \notin {"put_back", "stage_image", "publish_image"}
  /\ pc \in {"retain", "move_current", "verify_current", "return_current"}
       => job.parked = Was
  /\ pc \in {"retain", "move_current"} => Replaced(disk, job.rec, job.role)
  /\ pc \in {"verify_current", "return_current", "unpark"}
       => MovedAway(disk, job.rec, job.role)
  /\ pc \in {"verify_current", "return_current"} => disk[Recovered(recoveries)] = Will

\* The new bytes of the entry r are staged.
IsStaged(r) == disk[New(job.rec.history, r)] = job.rec.after[r]

\* A commit prepares the journal of a generation it has not yet touched.
PrepareKnown ==
  /\ pc \in Preparing => \A r \in Roles : Untouched(disk, job.rec, r)
  /\ (pc \in Preparing /\ (pc = "stage" => job.role = "lock") /\ ManifestChanges)
       => IsStaged("manifest")
  /\ pc \in {"save_image", "mark_pending"} => IsStaged("lock")

\* It replaces an entry at a time, the lock last.
ReplaceKnown ==
  /\ pc = "park" => Untouched(disk, job.rec, job.role)
  /\ pc \in {"verify_parked", "publish"} => MovedAway(disk, job.rec, job.role)
  /\ pc \in Replacing => IsStaged(job.role)
  /\ (pc \in Replacing /\ job.role = "manifest")
       => Untouched(disk, job.rec, "lock") /\ IsStaged("lock")

Known == JournalAtHand /\ RestoreKnown /\ PrepareKnown /\ ReplaceKnown

RollbackInv == JournalInv /\ Known /\ \A d \in media : Sound(d, histories)

-----------------------------------------------------------------------------
(* What one operation does to the disk *)

\* Entry e gets contents c; every other entry stays.
Put(e, c) == disk'[e] = c /\ \A x \in Entry \ {e} : disk'[x] = disk[x]

\* The contents of one entry go to another, absent one.
Moved(from, to) == /\ disk[from] # Absent /\ disk[to] = Absent
                   /\ disk'[to] = disk[from] /\ disk'[from] = Absent
                   /\ \A x \in Entry \ {from, to} : disk'[x] = disk[x]

LEMMA WritePut ==
  ASSUME InOrder, NEW e \in Entry, NEW c, NEW o, Write(e, c, o)
  PROVE  /\ \/ o = "fail" /\ UNCHANGED <<disk, media>>
            \/ o # "fail" /\ Put(e, c)
         /\ media' \subseteq media \cup {disk'}
         /\ o = "ok" => media' = {disk'}
<1> DEFINE w == [x \in {e} |-> c]
<1>1. Perform(w, o) /\ DOMAIN w = {e} /\ w[e] = c
  BY DEF Write
<1> HIDE DEF w
<1>2. o # "fail" => disk' = Apply(disk, w) /\ Put(e, c)
  BY <1>1 DEF Perform, Apply, Put
<1>3. /\ o = "fail" => UNCHANGED <<disk, media>>
      /\ media' \subseteq media \cup {Apply(disk, w)}
      /\ o = "ok" => media' = {disk'}
  <2>1. /\ \A d \in media' : d \in media \/ d = Apply(disk, w)
        /\ o = "ok" => media' = {disk'}
    BY <1>1, PerformMedia
  <2>2. o = "fail" => UNCHANGED <<disk, media>>
    BY <1>1 DEF Perform
  <2> QED BY <2>1, <2>2
<1> QED BY <1>2, <1>3

LEMMA RenameMoved ==
  ASSUME InOrder, NEW from \in Entry, NEW to \in Entry, from # to, NEW o,
         Rename(from, to, o)
  PROVE  /\ \/ o = "fail" /\ UNCHANGED <<disk, media>>
            \/ o # "fail" /\ Moved(from, to)
         /\ media' \subseteq media \cup {disk'}
         /\ o = "ok" => media' = {disk'}
<1>1. CASE UNCHANGED <<disk, media, spent>> /\ o = "fail"
  BY <1>1
<1>2. CASE /\ disk[from] # Absent /\ disk[to] = Absent
           /\ Perform([x \in {from, to} |-> IF x = to THEN disk[from] ELSE Absent], o)
  <2> DEFINE w == [x \in {from, to} |-> IF x = to THEN disk[from] ELSE Absent]
  <2>1. /\ Perform(w, o) /\ DOMAIN w = {from, to}
        /\ w[to] = disk[from] /\ w[from] = Absent
    BY <1>2
  <2> HIDE DEF w
  <2>2. o # "fail" => disk' = Apply(disk, w) /\ Moved(from, to)
    BY <1>2, <2>1 DEF Perform, Apply, Moved
  <2>3. \A d \in media' : d \in media \/ d = Apply(disk, w)
    BY <2>1, PerformMedia
  <2>4. o = "fail" => UNCHANGED <<disk, media>>
    BY <2>1 DEF Perform
  <2>5. o = "ok" => media' = {disk'}
    BY <2>1, PerformMedia
  <2> QED BY <2>2, <2>3, <2>4, <2>5
<1> QED BY <1>1, <1>2 DEF Rename

LEMMA Distinct ==
  /\ \A r, s \in Roles : r # s => Project(r) # Project(s) /\ Before(r) # Before(s)
  /\ \A h, g \in Histories, r, s \in Roles :
       h # g \/ r # s => Original(h, r) # Original(g, s) /\ New(h, r) # New(g, s)
  /\ \A h, g \in Histories, r, s \in Roles :
       /\ Original(h, r) # New(g, s)
       /\ Original(h, r) \notin {Project(s), Before(s), Marker}
       /\ New(h, r) \notin {Project(s), Before(s), Marker}
  /\ \A n \in Recoveries, h \in Histories, r \in Roles :
       Recovered(n) \notin {Project(r), Before(r), Original(h, r), New(h, r), Marker}
  /\ \A r, s \in Roles : Project(r) \notin {Before(s), Marker} /\ Before(r) # Marker
BY DEF Roles, Project, Before, Original, New, Recovered, Marker

\* The entries a replacement of role in history h moves.
Moving(h, role) == {Project(role), Original(h, role), New(h, role)} \cup Removed

\* A move within them leaves the journal, the other role and later histories.
LEMMA MoveFrame ==
  ASSUME NEW role \in Roles, NEW h \in Histories,
         NEW from \in Moving(h, role), NEW to \in Moving(h, role), Moved(from, to)
  PROVE  /\ disk'[Marker] = disk[Marker]
         /\ \A r \in Roles \ {role} :
              /\ disk'[Project(r)] = disk[Project(r)]
              /\ \A g \in Histories : /\ disk'[Original(g, r)] = disk[Original(g, r)]
                                      /\ disk'[New(g, r)] = disk[New(g, r)]
         /\ \A g \in Histories \ {h}, r \in Roles :
              disk'[Original(g, r)] = disk[Original(g, r)]
<1>1. \A x \in Entry : x \notin Moving(h, role) => disk'[x] = disk[x]
  BY DEF Moved
<1>2. Marker \in Entry \ Moving(h, role)
  BY EntryFacts, Distinct DEF Moving, Removed
<1>3. ASSUME NEW r \in Roles, r # role
      PROVE  /\ Project(r) \in Entry \ Moving(h, role)
             /\ \A g \in Histories : /\ Original(g, r) \in Entry \ Moving(h, role)
                                     /\ New(g, r) \in Entry \ Moving(h, role)
  BY <1>3, EntryFacts, Distinct DEF Moving, Removed
<1>4. ASSUME NEW g \in Histories, NEW r \in Roles, g # h
      PROVE  Original(g, r) \in Entry \ Moving(h, role)
  BY <1>4, EntryFacts, Distinct DEF Moving, Removed
<1> QED BY <1>1, <1>2, <1>3, <1>4

\* What a power loss may leave is sound when the visible disk is.
LEMMA MediaSound ==
  ASSUME \A d \in media : Sound(d, histories), TypeInv, TypeInv',
         media' \subseteq media \cup {disk'}, histories <= histories',
         Sound(disk', histories')
  PROVE  \A d \in media' : Sound(d, histories')
<1>1. \A h \in Histories : h > histories' => h > histories
  BY DEF TypeInv, Histories
<1>2. \A d \in media : Sound(d, histories')
  BY <1>1 DEF Sound
<1> QED BY <1>2

\* A move of one entry of the journal's generation.
LEMMA MoveSound ==
  ASSUME JournalInv, Sound(disk, histories), JournalAtHand, pc \in Journaled,
         job.rec \in Record, job.role \in Roles,
         NEW from \in Moving(job.rec.history, job.role),
         NEW to \in Moving(job.rec.history, job.role), Moved(from, to),
         Reversible(disk', job.rec, job.role)
  PROVE  Sound(disk', histories)
<1> DEFINE h == job.rec.history
<1>1. h \in Histories /\ h <= histories /\ histories \in Int
  BY DEF Record, JournalInv, TypeInv, DiskOK, JournalAtHand, Whole
<1>2. /\ disk'[Marker] = disk[Marker]
      /\ \A r \in Roles \ {job.role} : /\ disk'[Project(r)] = disk[Project(r)]
                                       /\ disk'[Original(h, r)] = disk[Original(h, r)]
      /\ \A g \in Histories \ {h}, r \in Roles :
           disk'[Original(g, r)] = disk[Original(g, r)]
  BY <1>1, MoveFrame
<1>3. \A r \in Roles : Reversible(disk, job.rec, r)
  BY DEF Sound, JournalAtHand, Reversible, Untouched, Replaced, MovedAway
<1>4. \A r \in Roles : Reversible(disk', job.rec, r)
  BY <1>2, <1>3 DEF Reversible, Untouched, Replaced, MovedAway
<1>5. \A r \in Roles : Reversible(disk', disk'[Marker], r)
  BY <1>2, <1>4 DEF JournalAtHand, Reversible, Untouched, Replaced, MovedAway
<1>6. \A g \in Histories, r \in Roles : g > histories => disk'[Original(g, r)] = Absent
  BY <1>1, <1>2 DEF Sound, Histories
<1> QED BY <1>5, <1>6 DEF Sound
-----------------------------------------------------------------------------
(* Recovery keeps every disk reversible *)

\* What the places of recovery leave to show of the rest.
LEMMA NotPreparing ==
  ASSUME pc' \notin Preparing \cup Replacing PROVE PrepareKnown' /\ ReplaceKnown'
BY DEF PrepareKnown, ReplaceKnown, Preparing, Replacing

\* A place at which nothing is known of the entries.
LEMMA NothingKnown ==
  ASSUME pc' \notin Journaled \cup Preparing \cup {"put_back", "stage_image", "publish_image"}
  PROVE  Known'
BY DEF Known, JournalAtHand, RestoreKnown, PrepareKnown, ReplaceKnown, Journaled,
       Restoring, Replacing, Preparing

\* The journal and the holder's record of it stay.
LEMMA StillAtHand ==
  ASSUME JournalAtHand, pc \in Journaled, disk'[Marker] = disk[Marker], job'.rec = job.rec
  PROVE  JournalAtHand'
BY DEF JournalAtHand

LEMMA RestoreLeads ==
  ASSUME job \in Job, JournalAtHand, pc \in Restoring, disk'[Marker] = disk[Marker],
         NEW ok \in BOOLEAN, Restored(ok)
  PROVE  Known'
<1>1. CASE pc' = "restore" /\ job'.rec = job.rec
  <2>1. JournalAtHand'
    BY <1>1, StillAtHand DEF Journaled
  <2>2. RestoreKnown'
    BY <1>1 DEF RestoreKnown
  <2> QED BY <1>1, <2>1, <2>2, NotPreparing DEF Known, Preparing, Replacing
<1>2. CASE pc' \in {"idle", "clear"}
  BY <1>2, NothingKnown DEF Journaled, Restoring, Replacing, Preparing
<1> QED BY <1>1, <1>2, RestoredJob

LEMMA GotoLeads ==
  ASSUME job \in Job, NEW place, Goto(place) \/ Unsound(place)
  PROVE  /\ pc' = place /\ job'.rec = job.rec /\ job'.role = job.role
         /\ job'.parked = job.parked /\ job'.then = job.then
         /\ job'.admitted = job.admitted /\ job'.want = job.want
BY DEF Goto, Unsound, Job

\* The shape of the entry that restoration looks at.
LEMMA EntryReversible ==
  ASSUME RollbackInv, pc \in Restoring
  PROVE  Reversible(disk, job.rec, job.role)
<1>1. job.role \in Roles
  BY DEF RollbackInv, JournalInv, TypeInv, ControlOK, Job
<1>2. Sound(disk, histories) /\ JournalAtHand
  BY DEF RollbackInv, Known, JournalInv, TypeInv, DiskOK
<1> QED BY <1>1, <1>2
        DEF Sound, JournalAtHand, Journaled, Reversible, Untouched, Replaced, MovedAway

LEMMA RecoveryRollback ==
  ASSUME InOrder, RollbackInv, JournalInv', Recovery
  PROVE  RollbackInv'
<1>0. /\ JournalInv /\ TypeInv /\ TypeInv' /\ job \in Job /\ job.role \in Roles
      /\ JournalAtHand /\ RestoreKnown /\ disk \in media
      /\ Sound(disk, histories)
      /\ pc \in WithRecord => job.rec \in Record /\ job.rec.history \in Histories
      /\ pc \in Retaining => recoveries \in Recoveries
      /\ \A r \in Roles : Project(r) \in Entry
  BY EntryFacts DEF RollbackInv, JournalInv, TypeInv, DiskOK, ControlOK, Job, Known, Record
<1>1. histories' = histories /\ histories \in Int
  <2>1. histories \in Int
    BY <1>0 DEF TypeInv
  <2> QED BY <2>1 DEF Recovery, Recover, Restore, PutBack, Retain, MoveCurrent, VerifyCurrent,
          ReturnCurrent, Unpark, StageImage, PublishImage, Clear, ClearImage, limits
<1>2. ASSUME media' \subseteq media \cup {disk'}, Sound(disk', histories), Known'
      PROVE  RollbackInv'
  BY <1>0, <1>1, <1>2, MediaSound DEF RollbackInv
<1>3. ASSUME UNCHANGED <<disk, media>>, Known' PROVE RollbackInv'
  BY <1>0, <1>2, <1>3
<1>4. ASSUME pc \in Restoring, UNCHANGED <<disk, media>>, NEW ok \in BOOLEAN, Restored(ok)
      PROVE  RollbackInv'
  BY <1>0, <1>3, <1>4, RestoreLeads
<1>5. ASSUME pc \in Restoring, NEW from \in Moving(job.rec.history, job.role),
             NEW to \in Moving(job.rec.history, job.role), Moved(from, to),
             Reversible(disk', job.rec, job.role), media' \subseteq media \cup {disk'},
             disk'[Marker] = disk[Marker] => Known'
      PROVE  RollbackInv'
  <2>1. job.rec \in Record /\ pc \in Journaled
    BY <1>0, <1>5 DEF Restoring, Journaled, WithRecord, Places
  <2>2. Sound(disk', histories)
    BY <1>0, <1>5, <2>1, MoveSound
  <2>3. disk'[Marker] = disk[Marker]
    BY <1>0, <1>5, <2>1, MoveFrame DEF Record
  <2> QED BY <1>2, <1>5, <2>2, <2>3
<1>6. CASE Recover
  <2>1. UNCHANGED <<disk, media>>
    BY <1>6 DEF Recover, Quiet, ReadFault
  <2>2. CASE pc' \in {"idle", "admit", "commit", "report", "acknowledge", "stop", "clear"}
    BY <1>3, <2>1, <2>2, NothingKnown DEF Journaled, Restoring, Replacing, Preparing
  <2>3. ASSUME disk[Marker] # Absent, NEW role, NEW sound, RollBack(role, sound)
        PROVE  RollbackInv'
    <3>1. /\ pc' = "restore" /\ job'.rec.before = disk[Marker].before
          /\ job'.rec.after = disk[Marker].after
          /\ job'.rec.history = disk[Marker].history
      <4> DEFINE rec == [before |-> disk[Marker].before, after |-> disk[Marker].after,
                         history |-> disk[Marker].history]
      <4>1. job' = [job EXCEPT !.role = role, !.sound = sound, !.rec = rec]
        BY <2>3 DEF RollBack
      <4>2. /\ rec.before = disk[Marker].before /\ rec.after = disk[Marker].after
            /\ rec.history = disk[Marker].history
        OBVIOUS
      <4> HIDE DEF rec
      <4>3. job'.rec = rec
        BY <1>0, <4>1 DEF Job
      <4> QED BY <2>3, <4>2, <4>3 DEF RollBack
    <3>2. JournalAtHand' /\ RestoreKnown'
      BY <2>1, <2>3, <3>1 DEF JournalAtHand, RestoreKnown
    <3> QED BY <1>3, <2>1, <3>1, <3>2, NotPreparing DEF Known, Preparing, Replacing
  <2>4. \/ Return(FALSE) \/ Return(TRUE) \/ Goto("clear")
        \/ disk[Marker] # Absent /\ \E role, sound : RollBack(role, sound)
    BY <1>6 DEF Recover
  <2> QED BY <1>0, <2>2, <2>3, <2>4, ReturnPlace, GotoLeads DEF Job
<1>7. CASE Restore
  <2>1. pc \in Restoring /\ UNCHANGED <<disk, media>> /\ pc = "restore"
    BY <1>7 DEF Restore, Restoring, Quiet, ReadFault
  <2>2. Reversible(disk, job.rec, job.role)
    BY <2>1, EntryReversible
  <2>3. Will # Absent
    BY <1>0, <2>1, RecordFacts, BytesAssumption DEF WithRecord, Places, TypeInv
  <2>4. \/ \E ok \in BOOLEAN : Restored(ok)
        \/ /\ Current # Was /\ Current = Will /\ pc' = "retain"
           /\ job' = [job EXCEPT !.parked = disk[OriginalEntry]]
        \/ Current = Absent /\ disk[OriginalEntry] = Was /\ Goto("unpark")
    <3>1. disk[OriginalEntry] \in {Absent, Was}
      BY <2>2 DEF Reversible, Untouched, Replaced, MovedAway, OriginalEntry, Was
    <3> QED BY <1>7, <3>1 DEF Restore
  <2>5. CASE /\ Current # Was /\ Current = Will /\ pc' = "retain"
             /\ job' = [job EXCEPT !.parked = disk[OriginalEntry]]
    <3>1. Replaced(disk, job.rec, job.role)
      BY <2>2, <2>3, <2>5 DEF Reversible, Untouched, Replaced, MovedAway, Current, Was, Will
    <3>2. /\ job'.rec = job.rec /\ job'.role = job.role
          /\ job'.parked = disk[OriginalEntry]
      BY <1>0, <2>5 DEF Job
    <3>3. JournalAtHand'
      BY <1>0, <2>1, <3>2, StillAtHand DEF Journaled
    <3>4. RestoreKnown'
      BY <2>1, <2>5, <3>1, <3>2 DEF RestoreKnown, Replaced, Was, OriginalEntry
    <3> QED BY <1>3, <2>1, <2>5, <3>3, <3>4, NotPreparing DEF Known, Preparing, Replacing
  <2>6. CASE Current = Absent /\ disk[OriginalEntry] = Was /\ Goto("unpark")
    <3>1. pc' = "unpark" /\ job' = job
      BY <2>6 DEF Goto
    <3>2. JournalAtHand'
      BY <1>0, <2>1, <3>1, StillAtHand DEF Journaled
    <3>3. RestoreKnown'
      BY <2>1, <2>6, <3>1 DEF RestoreKnown, MovedAway, Current, OriginalEntry, Was
    <3> QED BY <1>3, <2>1, <3>1, <3>2, <3>3, NotPreparing DEF Known, Preparing, Replacing
  <2> QED BY <1>4, <2>1, <2>4, <2>5, <2>6
<1>8. CASE PutBack \/ StageImage \/ PublishImage
  BY <1>0, <1>8 DEF RestoreKnown, PutBack, StageImage, PublishImage
<1>9. CASE Retain
  <2>1. pc \in Restoring /\ UNCHANGED <<disk, media>> /\ pc = "retain"
    BY <1>9 DEF Retain, Restoring, Quiet, Fault
  <2>2. CASE Goto("move_current")
    <3>1. pc' = "move_current" /\ job' = job
      BY <2>2 DEF Goto
    <3>2. JournalAtHand'
      BY <1>0, <2>1, <3>1, StillAtHand DEF Journaled
    <3>3. RestoreKnown'
      BY <1>0, <2>1, <3>1 DEF RestoreKnown, Replaced, Was
    <3> QED BY <1>3, <2>1, <3>1, <3>2, <3>3, NotPreparing DEF Known, Preparing, Replacing
  <2> QED BY <1>4, <1>9, <2>1, <2>2 DEF Retain
<1>10. CASE MoveCurrent
  <2> DEFINE from == Project(job.role)
             to == Recovered(recoveries)
  <2>1. /\ pc \in Restoring /\ pc \in Journaled /\ pc = "move_current" /\ recoveries' = recoveries
        /\ job.rec.history \in Histories /\ to \in Removed /\ to \in Entry /\ from # to
    BY <1>0, <1>10, EntryFacts, Distinct
       DEF MoveCurrent, Journaled, Restoring, WithRecord, Retaining, Places, Removed, limits
  <2>2. PICK o \in Outcomes \cup {"fail"} :
          /\ Rename(from, to, o)
          /\ \/ o # "fail" /\ (Goto("verify_current") \/ Unsound("verify_current"))
             \/ o = "fail" /\ Restored(FALSE)
    BY <1>10 DEF MoveCurrent, Outcomes
  <2>3. Replaced(disk, job.rec, job.role) /\ job.parked = Was
    BY <1>0, <2>1 DEF RestoreKnown
  <2>4. CASE o = "fail" /\ UNCHANGED <<disk, media>>
    BY <1>4, <2>1, <2>2, <2>4
  <2>5. CASE o # "fail" /\ Moved(from, to) /\ media' \subseteq media \cup {disk'}
    <3>1. from \in Moving(job.rec.history, job.role) /\ to \in Moving(job.rec.history, job.role)
      BY <2>1 DEF Moving
    <3>2. MovedAway(disk', job.rec, job.role) /\ disk'[to] = Will
      <4>1. OriginalEntry \in Entry \ {from, to}
        BY <1>0, <2>1, EntryFacts, Distinct DEF OriginalEntry, Removed
      <4> QED BY <2>3, <2>5, <4>1 DEF Moved, Replaced, MovedAway, OriginalEntry, Will
    <3>3. ASSUME disk'[Marker] = disk[Marker] PROVE Known'
      <4>1. /\ pc' = "verify_current" /\ job'.rec = job.rec /\ job'.role = job.role
            /\ job'.parked = job.parked
        BY <1>0, <2>2, <2>5, GotoLeads
      <4>2. JournalAtHand'
        BY <1>0, <2>1, <3>3, <4>1, StillAtHand
      <4>3. RestoreKnown'
        BY <2>1, <2>3, <3>2, <4>1 DEF RestoreKnown, MovedAway, Was, Will
      <4> QED BY <4>1, <4>2, <4>3, NotPreparing DEF Known, Preparing, Replacing
    <3> QED BY <1>5, <2>1, <2>5, <3>1, <3>2, <3>3 DEF Reversible
  <2> QED BY <1>0, <2>1, <2>2, <2>4, <2>5, RenameMoved
<1>11. CASE VerifyCurrent
  <2>1. /\ pc \in Restoring /\ UNCHANGED <<disk, media>> /\ pc = "verify_current"
        /\ recoveries' = recoveries
    BY <1>11 DEF VerifyCurrent, Restoring, Quiet, ReadFault, limits
  <2>2. \/ Unsound("return_current") \/ Restored(TRUE) \/ Goto("unpark")
    BY <1>0, <1>11 DEF VerifyCurrent, RestoreKnown
  <2>3. ASSUME NEW place \in {"return_current", "unpark"}, Goto(place) \/ Unsound(place)
        PROVE  RollbackInv'
    <3>1. /\ pc' = place /\ job'.rec = job.rec /\ job'.role = job.role
          /\ job'.parked = job.parked
      BY <1>0, <2>3, GotoLeads
    <3>2. JournalAtHand'
      BY <1>0, <2>1, <3>1, StillAtHand DEF Journaled
    <3>3. RestoreKnown'
      BY <1>0, <2>1, <3>1 DEF RestoreKnown, MovedAway, Was, Will
    <3> QED BY <1>3, <2>1, <3>1, <3>2, <3>3, NotPreparing DEF Known, Preparing, Replacing
  <2> QED BY <1>4, <2>1, <2>2, <2>3
<1>12. CASE ReturnCurrent
  <2> DEFINE from == Recovered(recoveries)
             to == Project(job.role)
  <2>1. /\ pc \in Restoring /\ pc \in Journaled /\ pc = "return_current"
        /\ job.rec.history \in Histories /\ from \in Removed /\ from \in Entry /\ from # to
    BY <1>0, <1>12, EntryFacts, Distinct
       DEF ReturnCurrent, Journaled, Restoring, WithRecord, Retaining, Places, Removed
  <2>2. PICK o \in Outcomes \cup {"fail"} : Rename(from, to, o)
    BY <1>12 DEF ReturnCurrent
  <2>3. Restored(FALSE)
    BY <1>12 DEF ReturnCurrent
  <2>4. MovedAway(disk, job.rec, job.role) /\ disk[from] = Will
    BY <1>0, <2>1 DEF RestoreKnown
  <2>5. CASE UNCHANGED <<disk, media>>
    BY <1>4, <2>1, <2>3, <2>5
  <2>6. CASE Moved(from, to) /\ media' \subseteq media \cup {disk'}
    <3>1. from \in Moving(job.rec.history, job.role) /\ to \in Moving(job.rec.history, job.role)
      BY <2>1 DEF Moving
    <3>2. Replaced(disk', job.rec, job.role)
      <4>1. OriginalEntry \in Entry \ {from, to}
        BY <1>0, <2>1, EntryFacts, Distinct DEF OriginalEntry, Removed
      <4> QED BY <2>4, <2>6, <4>1 DEF Moved, Replaced, MovedAway, OriginalEntry, Will
    <3> QED BY <1>0, <1>5, <2>1, <2>3, <2>6, <3>1, <3>2, RestoreLeads DEF Reversible
  <2> QED BY <1>0, <2>1, <2>2, <2>5, <2>6, RenameMoved
<1>13. CASE Unpark
  <2> DEFINE from == OriginalEntry
             to == Project(job.role)
  <2>1. /\ pc \in Restoring /\ pc \in Journaled /\ pc = "unpark"
        /\ job.rec.history \in Histories /\ from \in Entry /\ from # to
    BY <1>0, <1>13, EntryFacts, Distinct
       DEF Unpark, Journaled, Restoring, WithRecord, Places, OriginalEntry
  <2>2. PICK o \in Outcomes \cup {"fail"} : Rename(from, to, o)
    BY <1>13 DEF Unpark
  <2>3. PICK ok \in BOOLEAN : Restored(ok)
    BY <1>13 DEF Unpark
  <2>4. MovedAway(disk, job.rec, job.role)
    BY <1>0, <2>1 DEF RestoreKnown
  <2>5. CASE UNCHANGED <<disk, media>>
    BY <1>4, <2>1, <2>3, <2>5
  <2>6. CASE Moved(from, to) /\ media' \subseteq media \cup {disk'}
    <3>1. from \in Moving(job.rec.history, job.role) /\ to \in Moving(job.rec.history, job.role)
      BY <2>1 DEF Moving, OriginalEntry
    <3>2. Untouched(disk', job.rec, job.role)
      BY <2>4, <2>6 DEF Moved, Untouched, MovedAway, OriginalEntry
    <3> QED BY <1>0, <1>5, <2>1, <2>3, <2>6, <3>1, <3>2, RestoreLeads DEF Reversible
  <2> QED BY <1>0, <2>1, <2>2, <2>5, <2>6, RenameMoved
<1>14. CASE Clear
  <2>1. PICK o \in Outcomes :
          /\ Write(Marker, Absent, o)
          /\ pc' = "clear_image" \/ Return(FALSE)
    BY <1>14 DEF Clear, Remove
  <2>2. pc' \in {"clear_image", "idle"}
    BY <2>1, ReturnPlace
  <2>3. Known'
    BY <2>2, NothingKnown DEF Journaled, Restoring, Replacing, Preparing
  <2>4. CASE UNCHANGED <<disk, media>>
    BY <1>3, <2>3, <2>4
  <2>5. CASE Put(Marker, Absent) /\ media' \subseteq media \cup {disk'}
    <3>1. Sound(disk', histories)
      BY <1>0, <2>5, EntryFacts, Distinct DEF Sound, Put
    <3> QED BY <1>2, <2>3, <2>5, <3>1
  <2> QED BY <2>1, <2>4, <2>5, WritePut, EntryFacts
<1>15. CASE ClearImage
  <2>1. PICK o \in Outcomes : Write(Before(job.role), Absent, o)
    BY <1>15 DEF ClearImage, Remove
  <2>2. pc' \in {"clear_image", "idle", "admit", "commit", "report", "acknowledge", "stop"}
    BY <1>0, <1>15, ReturnPlace DEF ClearImage, Job
  <2>3. Known'
    BY <2>2, NothingKnown DEF Journaled, Restoring, Replacing, Preparing
  <2>4. CASE UNCHANGED <<disk, media>>
    BY <1>3, <2>3, <2>4
  <2>5. CASE Put(Before(job.role), Absent) /\ media' \subseteq media \cup {disk'}
    <3>1. disk'[Marker] = Absent
      BY <1>0, <1>15, <2>5, EntryFacts, Distinct
         DEF Put, ClearImage, JournalInv, HolderKnows, Unmarked
    <3>2. Sound(disk', histories)
      BY <1>0, <2>5, <3>1, EntryFacts, Distinct DEF Sound, Put
    <3> QED BY <1>2, <2>3, <2>5, <3>2
  <2> QED BY <1>0, <2>1, <2>4, <2>5, WritePut, EntryFacts
<1> QED BY <1>6, <1>7, <1>8, <1>9, <1>10, <1>11, <1>12, <1>13, <1>14, <1>15 DEF Recovery
-----------------------------------------------------------------------------
(* A commit keeps every disk reversible *)

LEMMA PreparedLeads ==
  ASSUME pc' \in Preparing, PrepareKnown' PROVE Known'
BY DEF Known, JournalAtHand, RestoreKnown, ReplaceKnown, Journaled, Restoring,
       Replacing, Preparing

LEMMA ReplacingLeads ==
  ASSUME pc' \in Replacing \cup {"verify_generation", "mark_committed", "abort"},
         JournalAtHand', ReplaceKnown'
  PROVE  Known'
BY DEF Known, RestoreKnown, PrepareKnown, Preparing, Replacing

\* From the lock's turn on, nothing is known of the entries but of this one.
LEMMA TailLeads ==
  ASSUME pc' \in {"verify_generation", "mark_committed", "abort"}, JournalAtHand'
  PROVE  Known'
BY ReplacingLeads DEF ReplaceKnown, Replacing

LEMMA StepToLeads ==
  ASSUME job \in Job, NEW place, NEW role, StepTo(place, role)
  PROVE  /\ pc' = place /\ job'.rec = job.rec /\ job'.role = role
         /\ job'.then = job.then /\ job'.admitted = job.admitted /\ job'.want = job.want
BY DEF StepTo, Job

\* A marker with the holder's record is written over one, or none.
LEMMA MarkerSound ==
  ASSUME Sound(disk, histories), \A r \in Roles : Reversible(disk, job.rec, r),
         NEW phase, Put(Marker, MarkerOf(phase)),
         \A r \in Roles : Original(job.rec.history, r) \in Entry \ {Marker}
  PROVE  /\ Sound(disk', histories)
         /\ disk'[Marker] # Absent => /\ job.rec.before = disk'[Marker].before
                                      /\ job.rec.after = disk'[Marker].after
                                      /\ job.rec.history = disk'[Marker].history
<1>1. /\ \A r \in Roles : /\ Project(r) \in Entry \ {Marker}
                          /\ \A h \in Histories : Original(h, r) \in Entry \ {Marker}
  BY EntryFacts, Distinct
<1>2. disk'[Marker] = MarkerOf(phase) /\ \A x \in Entry \ {Marker} : disk'[x] = disk[x]
  BY DEF Put
<1>3. /\ MarkerOf(phase).before = job.rec.before /\ MarkerOf(phase).after = job.rec.after
      /\ MarkerOf(phase).history = job.rec.history
  BY DEF MarkerOf
<1>4. \A r \in Roles : Reversible(disk', disk'[Marker], r)
  BY <1>1, <1>2, <1>3 DEF Reversible, Untouched, Replaced, MovedAway
<1>5. \A h \in Histories, r \in Roles : h > histories => disk'[Original(h, r)] = Absent
  BY <1>1, <1>2 DEF Sound
<1> QED BY <1>2, <1>3, <1>4, <1>5 DEF Sound

LEMMA CommitmentRollback ==
  ASSUME InOrder, RollbackInv, JournalInv', Commitment
  PROVE  RollbackInv'
<1>0. /\ JournalInv /\ TypeInv /\ TypeInv' /\ job \in Job /\ job.role \in Roles
      /\ JournalAtHand /\ PrepareKnown /\ ReplaceKnown /\ disk \in media
      /\ Sound(disk, histories)
      /\ pc \in WithRecord => job.rec \in Record /\ job.rec.history \in Histories
      /\ "manifest" \in Roles /\ "lock" \in Roles
  BY DEF RollbackInv, JournalInv, TypeInv, DiskOK, ControlOK, Job, Known, Record, Roles
<1>1. histories \in Int
  BY <1>0 DEF TypeInv
<1>2. ASSUME media' \subseteq media \cup {disk'}, Sound(disk', histories'), Known',
             histories <= histories'
      PROVE  RollbackInv'
  BY <1>0, <1>2, MediaSound DEF RollbackInv
<1>3. ASSUME UNCHANGED <<disk, media, histories>>, Known' PROVE RollbackInv'
  BY <1>0, <1>1, <1>2, <1>3
<1>4. ASSUME UNCHANGED histories, media' \subseteq media \cup {disk'},
             Sound(disk', histories), NEW a, Finish(a)
      PROVE  RollbackInv'
  <2>1. pc' = "idle"
    BY <1>4 DEF Finish
  <2>2. Known'
    BY <2>1, NothingKnown DEF Journaled, Restoring, Replacing, Preparing
  <2> QED BY <1>1, <1>2, <1>4, <2>2
<1>5. CASE Admit
  <2>1. pc' \in {"idle", "recover"} /\ UNCHANGED <<disk, media, histories>>
    BY <1>5 DEF Admit, Quiet, limits, Finish
  <2> QED BY <1>3, <2>1, NothingKnown DEF Journaled, Restoring, Replacing, Preparing
<1>6. CASE Commit
  <2>1. UNCHANGED <<disk, media>>
    BY <1>6 DEF Commit, Quiet, ReadFault, Fault
  <2>2. \/ (Finish("refused") \/ Finish("unchanged")) /\ UNCHANGED histories
        \/ /\ histories' = histories + 1 /\ pc' = "stage"
           /\ job' = [job EXCEPT
                !.rec = [before |-> ProjectOf(disk), after |-> job.want,
                         history |-> histories + 1],
                !.role = IF job.want["manifest"] = ProjectOf(disk)["manifest"]
                         THEN "lock" ELSE "manifest"]
    BY <1>6 DEF Commit, limits
  <2>3. CASE (Finish("refused") \/ Finish("unchanged")) /\ UNCHANGED histories
    BY <1>0, <1>4, <2>1, <2>3
  <2>4. CASE ~((Finish("refused") \/ Finish("unchanged")) /\ UNCHANGED histories)
    <3> DEFINE before == ProjectOf(disk)
               rec == [before |-> before, after |-> job.want, history |-> histories + 1]
               role == IF job.want["manifest"] = before["manifest"]
                       THEN "lock" ELSE "manifest"
    <3>1. /\ histories' = histories + 1 /\ pc' = "stage"
          /\ job' = [job EXCEPT !.rec = rec, !.role = role]
      BY <2>2, <2>4
    <3>a. rec.before = before /\ rec.after = job.want /\ rec.history = histories + 1
      OBVIOUS
    <3>b. role = "lock" => job.want["manifest"] = before["manifest"]
      OBVIOUS
    <3> HIDE DEF rec, role
    <3>2. job'.rec = rec /\ job'.role = role
      BY <1>0, <3>1 DEF Job
    <3>3. histories + 1 \in Histories
      BY <1>0, <1>1, <3>1, QuotaAssumption DEF TypeInv, Histories
    <3>4. \A r \in Roles : Untouched(disk', job'.rec, r)
      BY <1>0, <1>1, <2>1, <3>2, <3>3, <3>a DEF Untouched, ProjectOf, Sound
    <3>5. job'.role = "lock" => ~ManifestChanges'
      BY <3>2, <3>a, <3>b DEF ManifestChanges
    <3>6. Known'
      BY <3>1, <3>4, <3>5, PreparedLeads DEF PrepareKnown, Preparing
    <3>7. Sound(disk', histories')
      BY <1>0, <1>1, <2>1, <3>1 DEF Sound, Histories
    <3> QED BY <1>1, <1>2, <2>1, <3>1, <3>6, <3>7
  <2> QED BY <2>3, <2>4
<1>7. CASE Stage
  <2> DEFINE e == New(job.rec.history, job.role)
  <2>1. /\ pc = "stage" /\ job.rec.history \in Histories /\ histories' = histories
        /\ e \in Entry
    BY <1>0, <1>7, EntryFacts DEF Stage, WithRecord, Places, limits
  <2>2. PICK o \in Outcomes :
          /\ Write(e, Will, o)
          /\ \/ Finish("refused")
             \/ o # "fail" /\ job.role = "manifest" /\ StepTo("stage", "lock")
             \/ o # "fail" /\ job.role = "lock" /\ StepTo("save_image", "manifest")
    BY <1>0, <1>7, <2>1 DEF Stage, Roles
  <2>3. CASE o = "fail" /\ UNCHANGED <<disk, media>>
    BY <1>0, <1>4, <2>1, <2>2, <2>3
  <2>4. CASE o # "fail" /\ Put(e, Will) /\ media' \subseteq media \cup {disk'}
    <3>1. /\ disk'[Marker] = disk[Marker] /\ disk'[e] = Will
          /\ \A r \in Roles : disk'[Project(r)] = disk[Project(r)]
          /\ \A h \in Histories, r \in Roles : disk'[Original(h, r)] = disk[Original(h, r)]
          /\ \A r \in Roles \ {job.role} :
               disk'[New(job.rec.history, r)] = disk[New(job.rec.history, r)]
      BY <1>0, <2>1, <2>4, EntryFacts, Distinct DEF Put
    <3>2. Sound(disk', histories)
      <4>1. disk[Marker] = Absent
        BY <1>0, <2>1 DEF JournalInv, HolderKnows, Unmarked
      <4> QED BY <1>0, <3>1, <4>1 DEF Sound
    <3>3. \A r \in Roles : Untouched(disk', job.rec, r)
      BY <1>0, <2>1, <3>1 DEF PrepareKnown, Preparing, Untouched
    <3>4. CASE job.role = "manifest" /\ StepTo("stage", "lock")
      <4>1. pc' = "stage" /\ job'.rec = job.rec /\ job'.role = "lock"
        BY <1>0, <3>4, StepToLeads
      <4>2. IsStaged("manifest")'
        BY <3>1, <3>4, <4>1 DEF IsStaged, Will
      <4>3. Known'
        BY <3>3, <4>1, <4>2, PreparedLeads DEF PrepareKnown, Preparing
      <4> QED BY <1>1, <1>2, <2>1, <2>4, <3>2, <4>3
    <3>5. CASE job.role = "lock" /\ StepTo("save_image", "manifest")
      <4>1. pc' = "save_image" /\ job'.rec = job.rec
        BY <1>0, <3>5, StepToLeads
      <4>2. IsStaged("lock")'
        BY <3>1, <3>5, <4>1 DEF IsStaged, Will
      <4>3. ManifestChanges' => IsStaged("manifest")'
        BY <1>0, <2>1, <3>1, <3>5, <4>1
           DEF IsStaged, PrepareKnown, Preparing, ManifestChanges
      <4>4. Known'
        BY <3>3, <4>1, <4>2, <4>3, PreparedLeads DEF PrepareKnown, Preparing
      <4> QED BY <1>1, <1>2, <2>1, <2>4, <3>2, <4>4
    <3> QED BY <1>4, <2>1, <2>2, <2>4, <3>2, <3>4, <3>5
  <2> QED BY <2>1, <2>2, <2>3, <2>4, WritePut
<1>8. CASE SaveImage
  <2> DEFINE e == Before(job.role)
  <2>1. /\ pc = "save_image" /\ job.rec.history \in Histories /\ histories' = histories
        /\ e \in Entry
    BY <1>0, <1>8, EntryFacts DEF SaveImage, WithRecord, Places, limits
  <2>2. PICK o \in Outcomes :
          /\ Write(e, Image(Was), o)
          /\ \/ Finish("refused")
             \/ o # "fail" /\ (StepTo("save_image", "lock") \/ Goto("mark_pending"))
    BY <1>0, <1>8, <2>1 DEF SaveImage, Roles
  <2>3. CASE o = "fail" /\ UNCHANGED <<disk, media>>
    BY <1>0, <1>4, <2>1, <2>2, <2>3
  <2>4. CASE o # "fail" /\ Put(e, Image(Was)) /\ media' \subseteq media \cup {disk'}
    <3>1. /\ disk'[Marker] = disk[Marker]
          /\ \A r \in Roles : disk'[Project(r)] = disk[Project(r)]
          /\ \A h \in Histories, r \in Roles : /\ disk'[Original(h, r)] = disk[Original(h, r)]
                                               /\ disk'[New(h, r)] = disk[New(h, r)]
      BY <1>0, <2>1, <2>4, EntryFacts, Distinct DEF Put
    <3>2. Sound(disk', histories)
      <4>1. disk[Marker] = Absent
        BY <1>0, <2>1 DEF JournalInv, HolderKnows, Unmarked
      <4> QED BY <1>0, <3>1, <4>1 DEF Sound
    <3>3. CASE StepTo("save_image", "lock") \/ Goto("mark_pending")
      <4>1. pc' \in {"save_image", "mark_pending"} /\ job'.rec = job.rec
        BY <1>0, <3>3, StepToLeads, GotoLeads
      <4>2. /\ \A r \in Roles : Untouched(disk', job.rec, r)
            /\ IsStaged("lock")' /\ (ManifestChanges' => IsStaged("manifest")')
        BY <1>0, <2>1, <3>1, <4>1
           DEF PrepareKnown, Preparing, Untouched, IsStaged, ManifestChanges
      <4>3. Known'
        BY <4>1, <4>2, PreparedLeads DEF PrepareKnown, Preparing
      <4> QED BY <1>1, <1>2, <2>1, <2>4, <3>2, <4>3
    <3> QED BY <1>4, <2>1, <2>2, <2>4, <3>2, <3>3
  <2> QED BY <2>1, <2>2, <2>3, <2>4, WritePut
<1>9. ASSUME JournalAtHand, pc \in Journaled, job.rec.history \in Histories
      PROVE  \A r \in Roles : Reversible(disk, job.rec, r)
  BY <1>0, <1>9 DEF Sound, JournalAtHand, Reversible, Untouched, Replaced, MovedAway
<1>10. ASSUME pc \in WithRecord, NEW phase \in {"pending", "committed"},
              \A r \in Roles : Reversible(disk, job.rec, r), NEW o,
              Write(Marker, MarkerOf(phase), o)
       PROVE  /\ media' \subseteq media \cup {disk'} /\ Sound(disk', histories)
              /\ \/ o = "fail" /\ UNCHANGED disk
                 \/ o # "fail" /\ Put(Marker, MarkerOf(phase))
              /\ o # "fail" \/ (JournalAtHand /\ pc \in Journaled)
                   => /\ disk'[Marker] # Absent /\ job.rec.before = disk'[Marker].before
                      /\ job.rec.after = disk'[Marker].after
                      /\ job.rec.history = disk'[Marker].history
  <2>1. MarkerOf(phase) # Absent
    BY <1>0, <1>10, RecordFacts, AbsentAssumption DEF TypeInv
  <2>2. \A r \in Roles : Original(job.rec.history, r) \in Entry \ {Marker}
    BY <1>0, <1>10, EntryFacts, Distinct
  <2>3. CASE o = "fail" /\ UNCHANGED <<disk, media>>
    <3>1. Sound(disk', histories) /\ media' \subseteq media \cup {disk'}
      BY <1>0, <2>3
    <3>2. JournalAtHand /\ pc \in Journaled
            => /\ disk'[Marker] # Absent /\ job.rec.before = disk'[Marker].before
               /\ job.rec.after = disk'[Marker].after
               /\ job.rec.history = disk'[Marker].history
      BY <2>3 DEF JournalAtHand
    <3> QED BY <2>3, <3>1, <3>2
  <2>4. CASE o # "fail" /\ Put(Marker, MarkerOf(phase)) /\ media' \subseteq media \cup {disk'}
    <3>1. disk'[Marker] # Absent
      BY <2>1, <2>4 DEF Put
    <3> QED BY <1>0, <1>10, <2>2, <2>4, <3>1, MarkerSound
  <2> QED BY <1>10, <2>3, <2>4, WritePut, EntryFacts
<1>11. CASE MarkPending
  <2>1. /\ pc = "mark_pending" /\ pc \in WithRecord /\ job.rec.history \in Histories
        /\ histories' = histories
    BY <1>0, <1>11 DEF MarkPending, WithRecord, Places, limits
  <2>2. PICK o \in Outcomes :
          /\ Write(Marker, MarkerOf("pending"), o)
          /\ \/ Finish("refused")
             \/ o # "fail" /\ Goto("abort")
             \/ o # "fail" /\ ManifestChanges /\ StepTo("park", "manifest")
             \/ o # "fail" /\ LockStep
    BY <1>11 DEF MarkPending, Outcomes
  <2>3. /\ \A r \in Roles : Untouched(disk, job.rec, r)
        /\ IsStaged("lock") /\ (ManifestChanges => IsStaged("manifest"))
    BY <1>0, <2>1 DEF PrepareKnown, Preparing
  <2>4. /\ media' \subseteq media \cup {disk'} /\ Sound(disk', histories)
        /\ \/ o = "fail" /\ UNCHANGED disk
           \/ o # "fail" /\ Put(Marker, MarkerOf("pending"))
        /\ o # "fail" => /\ disk'[Marker] # Absent /\ job.rec.before = disk'[Marker].before
                         /\ job.rec.after = disk'[Marker].after
                         /\ job.rec.history = disk'[Marker].history
    <3>1. \A r \in Roles : Reversible(disk, job.rec, r)
      BY <2>3 DEF Reversible
    <3> QED BY <1>10, <2>1, <2>2, <3>1
  <2>5. /\ \A r \in Roles : Untouched(disk', job.rec, r)
        /\ \A r \in Roles : disk'[New(job.rec.history, r)] = disk[New(job.rec.history, r)]
    BY <1>0, <2>1, <2>3, <2>4, EntryFacts, Distinct DEF Put, Untouched
  <2>6. ASSUME o # "fail", NEW place \in {"park", "publish"}, NEW role \in Roles,
               StepTo(place, role), role = "manifest" => ManifestChanges,
               place = "publish" => job.rec.before[role] = Absent
        PROVE  RollbackInv'
    <3>1. pc' = place /\ job'.rec = job.rec /\ job'.role = role
      BY <1>0, <2>6, StepToLeads
    <3>2. JournalAtHand'
      BY <2>4, <2>6, <3>1 DEF JournalAtHand
    <3>3. \A r \in Roles : r = "lock" \/ ManifestChanges => IsStaged(r)'
      BY <2>3, <2>5, <3>1 DEF IsStaged, Roles
    <3>4. place = "publish" => MovedAway(disk', job.rec, role)
      BY <2>5, <2>6 DEF Untouched, MovedAway
    <3>5. ReplaceKnown'
      BY <1>0, <2>5, <2>6, <3>1, <3>3, <3>4 DEF ReplaceKnown, Replacing, Roles
    <3>6. Known'
      BY <2>6, <3>1, <3>2, <3>5, ReplacingLeads DEF Replacing
    <3> QED BY <1>1, <1>2, <2>1, <2>4, <3>6
  <2>7. ASSUME o # "fail", Goto("abort") PROVE RollbackInv'
    <3>1. pc' = "abort" /\ job'.rec = job.rec
      BY <1>0, <2>7, GotoLeads
    <3>2. Known'
      BY <2>4, <2>7, <3>1, TailLeads DEF JournalAtHand
    <3> QED BY <1>1, <1>2, <2>1, <2>4, <3>2
  <2>8. LockStep => \/ StepTo("park", "lock")
                    \/ StepTo("publish", "lock") /\ job.rec.before["lock"] = Absent
    BY DEF LockStep
  <2> QED BY <1>0, <1>4, <2>1, <2>2, <2>4, <2>6, <2>7, <2>8
<1>12. CASE Park
  <2> DEFINE from == Project(job.role)
             to == OriginalEntry
  <2>1. /\ pc = "park" /\ pc \in Replacing /\ pc \in Journaled /\ pc \in WithRecord
        /\ job.rec.history \in Histories /\ job.rec \in Record /\ histories' = histories
        /\ from \in Entry /\ to \in Entry /\ from # to
        /\ from \in Moving(job.rec.history, job.role) /\ to \in Moving(job.rec.history, job.role)
    BY <1>0, <1>12, EntryFacts, Distinct
       DEF Park, Replacing, Journaled, WithRecord, Places, OriginalEntry, limits, Moving
  <2>2. PICK o \in Outcomes \cup {"fail"} :
          /\ Rename(from, to, o)
          /\ Goto("abort") \/ (o = "ok" /\ Goto("verify_parked"))
    <3>1. PICK o \in Outcomes \cup {"fail"} :
            Rename(from, to, o) /\ Goto(IF o = "ok" THEN "verify_parked" ELSE "abort")
      BY <1>12 DEF Park
    <3>2. CASE o = "ok"
      BY <3>1, <3>2
    <3>3. CASE o # "ok"
      BY <3>1, <3>3
    <3> QED BY <3>2, <3>3
  <2>3. Untouched(disk, job.rec, job.role)
    BY <1>0, <2>1 DEF ReplaceKnown
  <2>4. CASE o = "fail" /\ UNCHANGED <<disk, media>>
    <3>1. pc' = "abort" /\ job'.rec = job.rec
      BY <1>0, <2>2, <2>4, GotoLeads
    <3>2. Known'
      BY <1>0, <2>1, <2>4, <3>1, StillAtHand, TailLeads
    <3> QED BY <1>3, <2>1, <2>4, <3>2
  <2>5. CASE Moved(from, to) /\ media' \subseteq media \cup {disk'}
    <3>1. MovedAway(disk', job.rec, job.role)
      BY <2>3, <2>5 DEF Moved, Untouched, MovedAway, OriginalEntry
    <3>2. Sound(disk', histories)
      BY <1>0, <2>1, <2>5, <3>1, MoveSound DEF Reversible
    <3>3. /\ disk'[Marker] = disk[Marker]
          /\ \A r \in Roles \ {job.role} :
               /\ disk'[Project(r)] = disk[Project(r)]
               /\ disk'[Original(job.rec.history, r)] = disk[Original(job.rec.history, r)]
          /\ \A r \in Roles : disk'[New(job.rec.history, r)] = disk[New(job.rec.history, r)]
      <4>1. \A r \in Roles : New(job.rec.history, r) \in Entry \ {from, to}
        BY <1>0, <2>1, EntryFacts, Distinct DEF OriginalEntry
      <4> QED BY <1>0, <2>1, <2>5, <4>1, MoveFrame DEF Moved
    <3>4. /\ pc' \in {"abort", "verify_parked"} /\ job'.rec = job.rec
          /\ job'.role = job.role
      BY <1>0, <2>2, GotoLeads
    <3>5. JournalAtHand'
      BY <1>0, <2>1, <3>3, <3>4, StillAtHand
    <3>6. ReplaceKnown'
      BY <1>0, <2>1, <3>1, <3>3, <3>4
         DEF ReplaceKnown, Replacing, IsStaged, Untouched
    <3>7. Known'
      BY <3>4, <3>5, <3>6, ReplacingLeads DEF Replacing
    <3> QED BY <1>1, <1>2, <2>1, <2>5, <3>2, <3>7
  <2> QED BY <2>1, <2>2, <2>4, <2>5, RenameMoved
<1>13. CASE VerifyParked
  <2>1. /\ pc = "verify_parked" /\ pc \in Replacing /\ pc \in Journaled
        /\ UNCHANGED <<disk, media, histories>>
    BY <1>13 DEF VerifyParked, Replacing, Journaled, Quiet, ReadFault, limits
  <2>2. /\ pc' \in {"publish", "abort"} /\ job'.rec = job.rec /\ job'.role = job.role
    BY <1>0, <1>13, GotoLeads DEF VerifyParked
  <2>3. JournalAtHand'
    BY <1>0, <2>1, <2>2, StillAtHand
  <2>4. ReplaceKnown'
    BY <1>0, <2>1, <2>2 DEF ReplaceKnown, Replacing, IsStaged, Untouched, MovedAway
  <2>5. Known'
    BY <2>2, <2>3, <2>4, ReplacingLeads DEF Replacing
  <2> QED BY <1>3, <2>1, <2>5
<1>14. CASE Publish
  <2> DEFINE from == New(job.rec.history, job.role)
             to == Project(job.role)
  <2>1. /\ pc = "publish" /\ pc \in Replacing /\ pc \in Journaled /\ pc \in WithRecord
        /\ job.rec.history \in Histories /\ job.rec \in Record /\ histories' = histories
        /\ from \in Entry /\ to \in Entry /\ from # to
        /\ from \in Moving(job.rec.history, job.role) /\ to \in Moving(job.rec.history, job.role)
    BY <1>0, <1>14, EntryFacts, Distinct
       DEF Publish, Replacing, Journaled, WithRecord, Places, limits, Moving
  <2>2. PICK o \in Outcomes \cup {"fail"} :
          /\ Rename(from, to, o)
          /\ \/ Goto("abort")
             \/ o = "ok" /\ job.role = "manifest" /\ LockStep
             \/ o = "ok" /\ job.role = "lock" /\ Goto("verify_generation")
    BY <1>0, <1>14 DEF Publish, Roles
  <2>3. MovedAway(disk, job.rec, job.role) /\ IsStaged(job.role)
        /\ (job.role = "manifest" => Untouched(disk, job.rec, "lock") /\ IsStaged("lock"))
    BY <1>0, <2>1 DEF ReplaceKnown
  <2>4. CASE o = "fail" /\ UNCHANGED <<disk, media>>
    <3>1. pc' = "abort" /\ job'.rec = job.rec
      BY <1>0, <2>2, <2>4, GotoLeads
    <3>2. Known'
      BY <1>0, <2>1, <2>4, <3>1, StillAtHand, TailLeads
    <3> QED BY <1>3, <2>1, <2>4, <3>2
  <2>5. CASE Moved(from, to) /\ media' \subseteq media \cup {disk'}
    <3>1. Replaced(disk', job.rec, job.role)
      <4>1. Original(job.rec.history, job.role) \in Entry \ {from, to}
        BY <1>0, <2>1, EntryFacts, Distinct
      <4> QED BY <2>3, <2>5, <4>1 DEF Moved, Replaced, MovedAway, IsStaged
    <3>2. Sound(disk', histories)
      BY <1>0, <2>1, <2>5, <3>1, MoveSound DEF Reversible
    <3>3. /\ disk'[Marker] = disk[Marker]
          /\ \A r \in Roles \ {job.role} :
               /\ disk'[Project(r)] = disk[Project(r)]
               /\ disk'[Original(job.rec.history, r)] = disk[Original(job.rec.history, r)]
               /\ disk'[New(job.rec.history, r)] = disk[New(job.rec.history, r)]
      BY <1>0, <2>1, <2>5, MoveFrame
    <3>4. CASE Goto("abort") \/ Goto("verify_generation")
      <4>1. pc' \in {"abort", "verify_generation"} /\ job'.rec = job.rec
        BY <1>0, <3>4, GotoLeads
      <4>2. Known'
        BY <1>0, <2>1, <3>3, <4>1, StillAtHand, TailLeads
      <4> QED BY <1>1, <1>2, <2>1, <2>5, <3>2, <4>2
    <3>5. CASE job.role = "manifest" /\ LockStep
      <4>1. PICK place \in {"park", "publish"} :
              StepTo(place, "lock") /\ (place = "publish" => job.rec.before["lock"] = Absent)
        BY <3>5 DEF LockStep
      <4>2. pc' = place /\ job'.rec = job.rec /\ job'.role = "lock"
        BY <1>0, <4>1, StepToLeads
      <4>3. Untouched(disk', job.rec, "lock") /\ IsStaged("lock")'
        BY <1>0, <2>3, <3>3, <3>5, <4>2 DEF Untouched, IsStaged
      <4>4. place = "publish" => MovedAway(disk', job.rec, "lock")
        BY <4>1, <4>3 DEF Untouched, MovedAway
      <4>5. ReplaceKnown'
        BY <4>2, <4>3, <4>4 DEF ReplaceKnown, Replacing
      <4>6. Known'
        BY <1>0, <2>1, <3>3, <4>2, <4>5, StillAtHand, ReplacingLeads DEF Replacing
      <4> QED BY <1>1, <1>2, <2>1, <2>5, <3>2, <4>6
    <3> QED BY <2>2, <3>4, <3>5
  <2> QED BY <2>1, <2>2, <2>4, <2>5, RenameMoved
<1>15. CASE VerifyGeneration
  <2>1. pc \in Journaled /\ UNCHANGED <<disk, media, histories>>
    BY <1>15 DEF VerifyGeneration, Journaled, Quiet, ReadFault, limits
  <2>2. pc' \in {"mark_committed", "abort"} /\ job'.rec = job.rec
    BY <1>0, <1>15, GotoLeads DEF VerifyGeneration
  <2>3. Known'
    BY <1>0, <2>1, <2>2, StillAtHand, TailLeads
  <2> QED BY <1>3, <2>1, <2>3
<1>16. CASE MarkCommitted \/ Abort
  <2>1. /\ pc \in Journaled /\ pc \in WithRecord /\ histories' = histories
        /\ job.rec.history \in Histories
    BY <1>0, <1>16 DEF MarkCommitted, Abort, Journaled, WithRecord, Places, limits
  <2>2. PICK phase \in {"pending", "committed"}, o \in Outcomes :
          Write(Marker, MarkerOf(phase), o)
    BY <1>16 DEF MarkCommitted, Abort
  <2>3. \A r \in Roles : Reversible(disk, job.rec, r)
    BY <1>0, <1>9, <2>1
  <2>4. /\ media' \subseteq media \cup {disk'} /\ Sound(disk', histories)
        /\ disk'[Marker] # Absent /\ job.rec.before = disk'[Marker].before
        /\ job.rec.after = disk'[Marker].after
        /\ job.rec.history = disk'[Marker].history
    BY <1>0, <1>10, <2>1, <2>2, <2>3 DEF JournalAtHand
  <2>5. \/ pc' \in {"clear", "recover"}
        \/ pc' = "abort" /\ job'.rec = job.rec
    BY <1>0, <1>16, GotoLeads DEF MarkCommitted, Abort
  <2>6. Known'
    BY <2>4, <2>5, NothingKnown, TailLeads
       DEF JournalAtHand, Journaled, Restoring, Replacing, Preparing
  <2> QED BY <1>1, <1>2, <2>1, <2>4, <2>6
<1> QED BY <1>5, <1>6, <1>7, <1>8, <1>11, <1>12, <1>13, <1>14, <1>15, <1>16 DEF Commitment
LEMMA EnvironmentRollback ==
  ASSUME NoEditor, RollbackInv, JournalInv', Begin \/ Crash \/ PowerLoss \/ Editor
  PROVE  RollbackInv'
<1>1. ~Editor
  BY DEF NoEditor, Editor, EditorSaves, EditorWritesOpenFile, EditorRemoves
<1>2. /\ pc' \in {"recover", "idle"} /\ histories' = histories
      /\ \/ UNCHANGED <<disk, media>>
         \/ disk' \in media /\ media' = {disk'}
  BY <1>1 DEF Begin, Crash, PowerLoss, Quiet, Finish, limits
<1>3. Known'
  BY <1>2, NothingKnown DEF Journaled, Restoring, Replacing, Preparing
<1> QED BY <1>2, <1>3 DEF RollbackInv

LEMMA RollbackStep ==
  ASSUME OrderedMetadata, NoEditor PROVE RollbackInv /\ [Next]_vars => RollbackInv'
<1> SUFFICES ASSUME RollbackInv, [Next]_vars PROVE RollbackInv'
  OBVIOUS
<1>o. InOrder
  BY DEF InOrder
<1> USE <1>o
<1>1. JournalInv'
  BY JournalStep DEF RollbackInv
<1>2. CASE UNCHANGED vars
  BY <1>1, <1>2 DEF RollbackInv, Known, JournalAtHand, RestoreKnown, PrepareKnown,
     ReplaceKnown, Was, Will, OriginalEntry, IsStaged, ManifestChanges, vars
<1> QED BY <1>1, <1>2, RecoveryRollback, CommitmentRollback, EnvironmentRollback
        DEF Next, Holder

LEMMA RollbackInit == Init => RollbackInv
<1> SUFFICES ASSUME Init PROVE RollbackInv
  OBVIOUS
<1>1. /\ disk[Marker] = Absent
      /\ \A h \in Histories, r \in Roles : disk[Original(h, r)] = Absent
  <2>1. Marker[1] # "project" /\ Marker \in Entry
    BY PrivateFacts DEF Marker
  <2>2. \A h \in Histories, r \in Roles :
          Original(h, r)[1] # "project" /\ Original(h, r) \in Entry
    BY EntryFacts DEF Original
  <2> QED BY <2>1, <2>2 DEF Init
<1>2. Known
  BY DEF Init, Known, JournalAtHand, RestoreKnown, PrepareKnown, ReplaceKnown, Journaled,
         Restoring, Replacing, Preparing
<1> QED BY <1>1, <1>2, JournalInit DEF Init, RollbackInv, Sound

LEMMA RollbackInvariant ==
  ASSUME OrderedMetadata, NoEditor PROVE Spec => []RollbackInv
BY RollbackInit, RollbackStep, PTL DEF Spec

\* Whatever a power loss leaves while a journal exists, each entry is restored
\* or in a form that recovery takes back: no step of a commit or of a recovery,
\* whichever operation of it fails, passes through a state that recovery refuses.
THEOREM RollbackIsReady ==
  ASSUME OrderedMetadata, NoEditor PROVE Spec => []RollbackReady
<1>1. RollbackInv => RollbackReady
  BY DEF RollbackInv, Sound, Reversible, Untouched, Replaced, MovedAway, RollbackReady
<1> QED BY <1>1, RollbackInvariant, PTL

-----------------------------------------------------------------------------
(* A manifest survives, whatever an editor writes into it and wherever a      *)
(* command is killed, as long as no operation fails.                          *)

\* The editor neither deletes the manifest nor brings bytes of a command back
\* into it.
ManifestLeft == "manifest" \notin EditorDeletes \cup EditorReverts

\* No operation has failed yet.
Untroubled == spent.faults = 0 /\ spent.reads = 0
SpentOK == spent \in [faults : Nat, reads : Nat, crashes : Nat, losses : Nat, edits : Nat]

Manifest == Project("manifest")

\* The replacement rec changes the manifest; where it puts the original.
Changes(rec) == rec.before["manifest"] # rec.after["manifest"]
Aside(d, rec) == d[Original(rec.history, "manifest")]

\* A manifest that is not in the project is the original of the replacement rec,
\* and one that has the new bytes was put there after the original had gone.
KeptBy(d, rec) ==
  /\ d[Manifest] = Absent => Aside(d, rec) # Absent
  /\ Changes(rec) => /\ rec.after["manifest"] \in GraphBytes
                     /\ d[Manifest] = rec.after["manifest"] => Aside(d, rec) # Absent
                     /\ Aside(d, rec) # rec.after["manifest"]
Kept(d) == IF d[Marker] = Absent THEN d[Manifest] # Absent ELSE KeptBy(d, d[Marker])

\* Places at which the holder completes a journal or takes it back.
Handling == {"restore", "put_back", "retain", "move_current", "verify_current",
             "return_current", "unpark", "stage_image", "publish_image", "park",
             "verify_parked", "publish", "verify_generation", "mark_committed", "abort"}
MarkerAtHand ==
  pc \in Handling => /\ disk[Marker] # Absent
                     /\ job.rec.before = disk[Marker].before
                     /\ job.rec.after = disk[Marker].after
                     /\ job.rec.history = disk[Marker].history

\* Places at which the manifest may be away.
MayBeAway ==
  \/ pc \in {"recover", "abort"}
  \/ pc = "idle" /\ outcome = "none"
  \/ /\ job.role = "manifest"
     /\ pc \in {"restore", "put_back", "verify_current", "return_current", "unpark",
                "verify_parked", "publish"}

\* Places at which the new manifest is taken away for the original.
Exchanging == {"retain", "move_current", "verify_current", "return_current"}

\* What the holder knows of the manifest.
ManifestKnown ==
  /\ disk[Manifest] = Absent => MayBeAway
  /\ job.then = "commit" /\ pc \in {"recover", "commit"}
       => job.want["manifest"] \in GraphBytes \cup {job.admitted["manifest"]}
  /\ pc \in Preparing =>
       /\ Aside(disk, job.rec) = Absent
       /\ Changes(job.rec) => /\ job.rec.after["manifest"] \in GraphBytes
                              /\ disk[Manifest] # job.rec.after["manifest"]
  /\ job.role = "manifest" /\ pc \in Exchanging
       => job.parked = Was /\ Aside(disk, job.rec) # Absent
  /\ job.role = "manifest" /\ pc \in {"verify_current", "return_current"}
       => disk[Recovered(recoveries)] # Absent
  /\ pc \in {"stage_image", "publish_image"} => job.role = "lock"

ManifestInv == Kept(disk) /\ MarkerAtHand /\ ManifestKnown

-----------------------------------------------------------------------------
(* The operations, as long as none fails *)

\* What was spent stays a record of counters, which only grow.
LEMMA SpentStep == SpentOK /\ [Next]_vars => SpentOK' /\ (Untroubled' => Untroubled)
<1> DEFINE Counted == SpentOK' /\ (Untroubled' => Untroubled)
<1> SUFFICES ASSUME SpentOK, [Next]_vars PROVE Counted
  OBVIOUS
<1>1. ASSUME UNCHANGED spent PROVE Counted
  BY <1>1 DEF SpentOK, Untroubled
<1>2. Fault \/ ReadFault \/ Quiet => Counted
  BY DEF SpentOK, Untroubled, Fault, ReadFault, Quiet
<1>3. ASSUME NEW w, NEW o, Perform(w, o) PROVE Counted
  BY <1>3 DEF Perform, SpentOK, Untroubled
<1>4. /\ \A e, c, o : Write(e, c, o) \/ Remove(e, o) => Counted
      /\ \A from, to, o : Rename(from, to, o) => Counted
  BY <1>1, <1>3 DEF Write, Remove, Rename
<1>5. CASE Crash \/ PowerLoss \/ Editor
  <2>1. \A e, c : Edit(e, c) => Counted
    BY DEF Edit, SpentOK, Untroubled
  <2>2. Crash \/ PowerLoss => Counted
    BY DEF Crash, PowerLoss, SpentOK, Untroubled
  <2> QED BY <1>5, <2>1, <2>2 DEF Editor, EditorSaves, EditorWritesOpenFile, EditorRemoves
<1> HIDE DEF Counted
<1>6. CASE Begin \/ Recover \/ Restore \/ Retain \/ VerifyCurrent
  BY <1>2, <1>6 DEF Begin, Recover, Restore, Retain, VerifyCurrent
<1>7. CASE PutBack \/ MoveCurrent \/ ReturnCurrent \/ Unpark \/ PublishImage
  BY <1>4, <1>7 DEF PutBack, MoveCurrent, ReturnCurrent, Unpark, PublishImage
<1>8. CASE StageImage \/ Clear \/ ClearImage
  BY <1>2, <1>4, <1>8 DEF StageImage, Clear, ClearImage
<1>9. CASE Admit \/ Commit \/ VerifyParked \/ VerifyGeneration
  BY <1>2, <1>9 DEF Admit, Commit, VerifyParked, VerifyGeneration
<1>10. CASE Stage \/ SaveImage \/ MarkPending \/ Park \/ Publish \/ MarkCommitted \/ Abort
  BY <1>4, <1>10 DEF Stage, SaveImage, MarkPending, Park, Publish, MarkCommitted, Abort
<1>11. CASE UNCHANGED vars
  BY <1>1, <1>11 DEF vars
<1> QED BY <1>5, <1>6, <1>7, <1>8, <1>9, <1>10, <1>11 DEF Next, Holder, Recovery, Commitment

LEMMA NoFault == ASSUME SpentOK, Untroubled' PROVE ~Fault /\ ~ReadFault
BY DEF SpentOK, Untroubled, Fault, ReadFault

LEMMA UntroubledPerform ==
  ASSUME SpentOK, Untroubled', NEW w, NEW o, Perform(w, o) PROVE o = "ok"
BY DEF SpentOK, Untroubled, Perform

\* A write is then durable.
LEMMA UntroubledWrite ==
  ASSUME SpentOK, Untroubled', InOrder, NEW e \in Entry, NEW c, NEW o, Write(e, c, o)
  PROVE  o = "ok" /\ Put(e, c) /\ media' = {disk'}
<1> DEFINE w == [x \in {e} |-> c]
<1>1. Perform(w, o)
  BY DEF Write
<1> HIDE DEF w
<1>2. o = "ok"
  BY <1>1, UntroubledPerform
<1> QED BY <1>2, WritePut

\* A rename is durable, or refused for what it finds.
LEMMA UntroubledRename ==
  ASSUME SpentOK, Untroubled', media = {disk}, NEW from \in Entry, NEW to \in Entry,
         from # to, NEW o, Rename(from, to, o)
  PROVE  /\ media' = {disk'}
         /\ \/ o = "ok" /\ Moved(from, to)
            \/ o = "fail" /\ disk' = disk /\ (disk[from] = Absent \/ disk[to] # Absent)
<1>1. CASE ~(disk[from] # Absent /\ disk[to] = Absent)
  BY <1>1 DEF Rename
<1>2. CASE disk[from] # Absent /\ disk[to] = Absent
  <2> DEFINE w == [x \in {from, to} |-> IF x = to THEN disk[from] ELSE Absent]
  <2>1. Perform(w, o)
    BY <1>2 DEF Rename
  <2> HIDE DEF w
  <2>2. o = "ok"
    BY <2>1, UntroubledPerform
  <2> QED BY <2>2, RenameMoved DEF InOrder
<1> QED BY <1>1, <1>2
-----------------------------------------------------------------------------
(* What leaves the manifest alone *)

\* Neither the marker nor the manifest, here or moved away, changes.
Frame == /\ disk'[Marker] = disk[Marker] /\ disk'[Manifest] = disk[Manifest]
         /\ \A h \in Histories :
              disk'[Original(h, "manifest")] = disk[Original(h, "manifest")]

LEMMA QuietFrame == ASSUME disk' = disk PROVE Frame
BY DEF Frame

LEMMA PutFrame ==
  ASSUME NEW e \in Entry, NEW c, Put(e, c), e # Marker, e # Manifest,
         \A h \in Histories : e # Original(h, "manifest")
  PROVE  Frame
<1>1. Marker \in Entry /\ Manifest \in Entry
  BY EntryFacts DEF Manifest, Roles
<1>2. \A h \in Histories : Original(h, "manifest") \in Entry
  BY EntryFacts DEF Roles
<1> QED BY <1>1, <1>2 DEF Put, Frame

\* The lock is moved.
LEMMA LockFrame ==
  ASSUME NEW h \in Histories, NEW from \in Moving(h, "lock"), NEW to \in Moving(h, "lock"),
         from # to, SpentOK, Untroubled', media = {disk}, NEW o, Rename(from, to, o)
  PROVE  media' = {disk'} /\ Frame
<1>1. Moving(h, "lock") \subseteq Entry
  <2>1. "lock" \in Roles
    BY DEF Roles
  <2>2. Removed \subseteq Entry
    BY DEF Entry, Files
  <2> QED BY <2>1, <2>2, EntryFacts DEF Moving
<1>2. ASSUME Moved(from, to) PROVE Frame
  <2>1. "lock" \in Roles /\ "manifest" \in Roles \ {"lock"}
    BY DEF Roles
  <2>2. /\ disk'[Marker] = disk[Marker]
        /\ \A r \in Roles \ {"lock"} :
             /\ disk'[Project(r)] = disk[Project(r)]
             /\ \A g \in Histories : disk'[Original(g, r)] = disk[Original(g, r)]
    BY <1>2, <2>1, MoveFrame
  <2> QED BY <2>1, <2>2 DEF Frame, Manifest
<1>3. media' = {disk'} /\ (Moved(from, to) \/ disk' = disk)
  <2>1. from \in Entry /\ to \in Entry
    BY <1>1
  <2> QED BY <2>1, UntroubledRename
<1> QED BY <1>2, <1>3, QuietFrame

LEMMA MarkerFacts ==
  ASSUME TypeInv
  PROVE  /\ disk[Marker] # Absent => /\ disk[Marker] \in MarkerRecord
                                     /\ disk[Marker].history \in Histories
         /\ \A r \in Roles : disk[Project(r)] \in Bytes \cup {Absent}
BY EntryFacts DEF TypeInv, DiskOK, Disk, MarkerRecord

LEMMA KeptFrame ==
  ASSUME TypeInv, Kept(disk), Frame
  PROVE  Kept(disk')
<1>1. disk[Marker] # Absent => Aside(disk', disk[Marker]) = Aside(disk, disk[Marker])
  BY MarkerFacts DEF Frame, Aside
<1> QED BY <1>1 DEF Kept, KeptBy, Frame

\* While the marker is at hand, what is kept is what the holder's record says.
LEMMA KeptAtHand ==
  ASSUME MarkerAtHand, pc \in Handling
  PROVE  /\ Kept(disk) => KeptBy(disk, job.rec)
         /\ disk'[Marker] = disk[Marker] /\ KeptBy(disk', job.rec) => Kept(disk')
BY DEF MarkerAtHand, Kept, KeptBy, Aside, Changes

-----------------------------------------------------------------------------
(* Where a step leads *)

\* To a place that knows nothing of the manifest but that it is there.
LEMMA EndLeads ==
  ASSUME Kept(disk'), disk'[Manifest] # Absent,
         pc' \notin Handling \cup Preparing \cup {"recover", "commit"}
  PROVE  ManifestInv'
BY DEF ManifestInv, MarkerAtHand, ManifestKnown, Handling, Exchanging

\* From one place with a journal at hand to another.
LEMMA MovedLeads ==
  ASSUME MarkerAtHand, pc \in Handling, pc' \in Handling, Kept(disk'),
         disk'[Marker] = disk[Marker], job'.rec = job.rec,
         disk'[Manifest] = Absent => MayBeAway',
         pc' \in {"stage_image", "publish_image"} => job'.role = "lock",
         job'.role = "manifest" => pc' \notin Exchanging
  PROVE  ManifestInv'
<1>1. MarkerAtHand'
  BY DEF MarkerAtHand
<1>2. pc' \notin {"recover", "commit"} \cup Preparing
  BY DEF Handling, Preparing
<1> QED BY <1>1, <1>2 DEF ManifestInv, ManifestKnown, Exchanging

LEMMA FrameLeads ==
  ASSUME TypeInv, ManifestInv, Frame, pc \in Handling, pc' \in Handling,
         job'.rec = job.rec, disk[Manifest] = Absent => MayBeAway',
         pc' \in {"stage_image", "publish_image"} => job'.role = "lock",
         job'.role = "manifest" => pc' \notin Exchanging
  PROVE  ManifestInv'
BY KeptFrame, MovedLeads DEF ManifestInv, Frame

\* The restoration of an entry ends with the manifest in its place.
LEMMA RestoredLeads ==
  ASSUME job \in Job, MarkerAtHand, pc \in Handling, Kept(disk'),
         disk'[Marker] = disk[Marker], disk'[Manifest] # Absent,
         NEW ok \in BOOLEAN, Restored(ok)
  PROVE  ManifestInv'
<1>1. CASE pc' = "restore" /\ job'.rec = job.rec
  BY <1>1, MovedLeads DEF Handling, Exchanging
<1>2. CASE pc' \in {"idle", "clear"}
  BY <1>2, EndLeads DEF Handling, Preparing
<1> QED BY <1>1, <1>2, RestoredJob

\* The restoration of the lock leaves the manifest alone.
LEMMA LockLeads ==
  ASSUME TypeInv, ManifestInv, Frame, pc \in Handling, job.role = "lock",
         pc # "abort",
         \/ \E ok \in BOOLEAN : Restored(ok)
         \/ pc' \in Handling /\ job'.role = "lock" /\ job'.rec = job.rec
  PROVE  ManifestInv'
<1>1. job \in Job /\ disk[Manifest] # Absent
  BY DEF TypeInv, ControlOK, ManifestInv, ManifestKnown, MayBeAway, Handling
<1>2. CASE \E ok \in BOOLEAN : Restored(ok)
  BY <1>1, <1>2, KeptFrame, RestoredLeads DEF ManifestInv, Frame
<1>3. CASE pc' \in Handling /\ job'.role = "lock" /\ job'.rec = job.rec
  BY <1>1, <1>3, FrameLeads
<1> QED BY <1>2, <1>3

-----------------------------------------------------------------------------
(* Recovery *)

\* A move of the manifest leaves the journal at hand.
LEMMA ManifestMoved ==
  ASSUME TypeInv, MarkerAtHand, pc \in Handling, job.role = "manifest",
         job.rec \in Record,
         NEW from \in Moving(job.rec.history, "manifest"),
         NEW to \in Moving(job.rec.history, "manifest"), Moved(from, to),
         KeptBy(disk', job.rec)
  PROVE  disk'[Marker] = disk[Marker] /\ Kept(disk')
<1>1. job.rec.history \in Histories /\ "manifest" \in Roles
  BY DEF Record, Roles
<1>2. disk'[Marker] = disk[Marker]
  BY <1>1, MoveFrame
<1> QED BY <1>2, KeptAtHand

\* What is known wherever the manifest is handled.
LEMMA ManifestFacts ==
  ASSUME TypeInv, ManifestInv, pc \in Handling, job.role = "manifest"
  PROVE  /\ job \in Job /\ job.rec \in Record /\ job.rec.history \in Histories
         /\ Was # Absent /\ Will # Absent /\ Will \in Bytes
         /\ Was = job.rec.before["manifest"] /\ Will = job.rec.after["manifest"]
         /\ Current = disk[Manifest] /\ disk[OriginalEntry] = Aside(disk, job.rec)
         /\ OriginalEntry = Original(job.rec.history, "manifest")
         /\ disk[Marker] # Absent /\ KeptBy(disk, job.rec)
<1>1. job \in Job /\ job.rec \in Record
  BY DEF TypeInv, ControlOK, Handling, WithRecord, Places
<1>2. Was # Absent /\ Will # Absent /\ Will \in Bytes
  BY <1>1, BytesAssumption DEF Was, Will, Record, Generation, Roles
<1>3. disk[Marker] # Absent /\ KeptBy(disk, job.rec)
  BY KeptAtHand DEF ManifestInv, MarkerAtHand
<1> QED BY <1>1, <1>2, <1>3
        DEF Was, Will, Current, Manifest, OriginalEntry, Aside, Record

\* The entries that a command moves the manifest between.
LEMMA ManifestNames ==
  ASSUME NEW h \in Histories
  PROVE  /\ {Manifest, Original(h, "manifest"), New(h, "manifest")} \subseteq Entry
         /\ {Manifest, Original(h, "manifest"), New(h, "manifest")}
              \subseteq Moving(h, "manifest")
         /\ Manifest # Original(h, "manifest") /\ Manifest # New(h, "manifest")
         /\ Original(h, "manifest") # New(h, "manifest")
         /\ Removed \subseteq Entry /\ Removed \subseteq Moving(h, "manifest")
         /\ Manifest \notin Removed /\ Original(h, "manifest") \notin Removed
<1>1. "manifest" \in Roles
  BY DEF Roles
<1>2. Removed \subseteq Entry
  BY DEF Entry, Files
<1> QED BY <1>1, <1>2, EntryFacts, Distinct DEF Manifest, Moving, Removed

LEMMA RestoreManifest ==
  ASSUME SpentOK, Untroubled', media = {disk}, TypeInv, ManifestInv,
         Restore, job.role = "manifest"
  PROVE  media' = {disk'} /\ ManifestInv'
<1> DEFINE parked == disk[OriginalEntry]
<1>0. /\ pc = "restore" /\ pc \in Handling
      /\ disk' = disk /\ media' = {disk'} /\ Frame
  BY NoFault, QuietFrame DEF Restore, Quiet, Handling
<1>1. /\ job \in Job /\ Was # Absent /\ Will # Absent /\ Current = disk[Manifest]
      /\ parked = Aside(disk, job.rec) /\ KeptBy(disk, job.rec)
      /\ Was = job.rec.before["manifest"] /\ Will = job.rec.after["manifest"]
  BY <1>0, ManifestFacts
<1>2. ASSUME NEW ok \in BOOLEAN, Restored(ok), Current # Absent PROVE ManifestInv'
  BY <1>0, <1>1, <1>2, KeptFrame, RestoredLeads DEF ManifestInv, Frame
<1>3. ASSUME NEW place \in {"put_back", "unpark"}, Goto(place) \/ Unsound(place)
      PROVE  ManifestInv'
  <2>1. pc' = place /\ job'.rec = job.rec /\ job'.role = "manifest"
    BY <1>1, <1>3, GotoLeads
  <2> QED BY <1>0, <2>1, FrameLeads DEF MayBeAway, Handling, Exchanging
<1>4. CASE /\ parked \in {Absent, Was} /\ Current # Was /\ Current = Will
           /\ pc' = "retain" /\ job' = [job EXCEPT !.parked = parked]
  <2>1. /\ job'.rec = job.rec /\ job'.role = "manifest" /\ job'.parked = parked
        /\ job'.then = job.then
    BY <1>1, <1>4 DEF Job
  <2>2. parked # Absent /\ parked = Was
    BY <1>1, <1>4 DEF KeptBy, Changes
  <2>3. Was' = Was /\ Aside(disk', job'.rec) = parked
    BY <1>0, <1>1, <2>1 DEF Was, Aside
  <2>4. Kept(disk') /\ MarkerAtHand'
    BY <1>0, <1>4, <2>1 DEF ManifestInv, MarkerAtHand
  <2>5. disk'[Manifest] # Absent
    BY <1>0, <1>1, <1>4
  <2> QED BY <1>0, <1>4, <2>1, <2>2, <2>3, <2>4, <2>5
          DEF ManifestInv, ManifestKnown, Preparing, Exchanging
<1>5. \/ \E ok \in BOOLEAN : Restored(ok) /\ Current # Absent
      \/ Unsound("put_back") \/ Goto("unpark")
      \/ /\ parked \in {Absent, Was} /\ Current # Was /\ Current = Will
         /\ pc' = "retain" /\ job' = [job EXCEPT !.parked = parked]
  <2>1. Current = Absent => parked # Absent
    BY <1>1 DEF KeptBy
  <2>2. \/ parked \notin {Absent, Was} /\ Current = Absent /\ Unsound("put_back")
        \/ parked \notin {Absent, Was} /\ Current # Absent /\ Restored(FALSE)
        \/ Current = Was /\ Restored(TRUE)
        \/ Current \notin {Was, Will, Absent} /\ Restored(FALSE)
        \/ /\ parked \in {Absent, Was} /\ Current # Was /\ Current = Will
           /\ pc' = "retain" /\ job' = [job EXCEPT !.parked = parked]
        \/ /\ parked \in {Absent, Was} /\ Current = Absent
           /\ IF parked = Was THEN Goto("unpark") ELSE Restored(FALSE)
    BY NoFault DEF Restore
  <2> QED BY <1>1, <2>1, <2>2
<1> QED BY <1>0, <1>2, <1>3, <1>4, <1>5


\* The original goes back into the project, whether its name there is free or not.
LEMMA OriginalBack ==
  ASSUME SpentOK, Untroubled', media = {disk}, TypeInv, ManifestInv, pc \in Handling,
         job.role = "manifest", NEW o, Rename(OriginalEntry, Manifest, o),
         NEW ok \in BOOLEAN, Restored(ok)
  PROVE  media' = {disk'} /\ ManifestInv'
<1>0. /\ job \in Job /\ job.rec \in Record /\ job.rec.history \in Histories
      /\ MarkerAtHand /\ Kept(disk) /\ KeptBy(disk, job.rec)
      /\ OriginalEntry = Original(job.rec.history, "manifest")
      /\ job.rec.after["manifest"] # Absent
  BY ManifestFacts DEF ManifestInv
<1>1. /\ OriginalEntry \in Entry /\ Manifest \in Entry /\ OriginalEntry # Manifest
      /\ {OriginalEntry, Manifest} \subseteq Moving(job.rec.history, "manifest")
  BY <1>0, ManifestNames
<1>2. /\ media' = {disk'}
      /\ \/ Moved(OriginalEntry, Manifest)
         \/ disk' = disk /\ (disk[OriginalEntry] = Absent \/ disk[Manifest] # Absent)
  BY <1>1, UntroubledRename
<1>3. CASE Moved(OriginalEntry, Manifest)
  <2>1. /\ disk'[Manifest] = Aside(disk, job.rec) /\ disk'[Manifest] # Absent
        /\ Aside(disk', job.rec) = Absent
    BY <1>0, <1>3 DEF Moved, Aside
  <2>2. KeptBy(disk', job.rec)
    BY <1>0, <2>1 DEF KeptBy
  <2>3. disk'[Marker] = disk[Marker] /\ Kept(disk')
    BY <1>0, <1>1, <1>3, <2>2, ManifestMoved
  <2> QED BY <1>0, <1>2, <2>1, <2>3, RestoredLeads
<1>4. CASE disk' = disk /\ (disk[OriginalEntry] = Absent \/ disk[Manifest] # Absent)
  <2>1. disk[Manifest] # Absent
    BY <1>0, <1>4 DEF KeptBy, Aside
  <2> QED BY <1>0, <1>2, <1>4, <2>1, RestoredLeads
<1> QED BY <1>2, <1>3, <1>4

LEMMA RetainManifest ==
  ASSUME SpentOK, Untroubled', media = {disk}, TypeInv, ManifestInv,
         Retain, job.role = "manifest"
  PROVE  media' = {disk'} /\ ManifestInv'
<1>0. /\ pc = "retain" /\ pc \in Handling /\ disk' = disk /\ media' = {disk'}
  BY NoFault DEF Retain, Quiet, Handling
<1>1. job \in Job /\ MarkerAtHand /\ Kept(disk') /\ disk[Manifest] # Absent
  BY <1>0, ManifestFacts DEF ManifestInv, ManifestKnown, MayBeAway
<1>2. CASE Restored(FALSE)
  BY <1>0, <1>1, <1>2, RestoredLeads
<1>3. CASE Goto("move_current")
  <2>1. pc' = "move_current" /\ job' = job
    BY <1>3 DEF Goto
  <2>2. MarkerAtHand'
    BY <1>0, <1>1, <2>1 DEF MarkerAtHand
  <2>3. job.parked = Was /\ Aside(disk, job.rec) # Absent
    BY <1>0 DEF ManifestInv, ManifestKnown, Exchanging
  <2>4. Was' = Was /\ Aside(disk', job'.rec) = Aside(disk, job.rec)
    BY <1>0, <2>1 DEF Was, Aside
  <2> QED BY <1>0, <1>1, <2>1, <2>2, <2>3, <2>4
          DEF ManifestInv, ManifestKnown, Preparing, Exchanging
<1> QED BY <1>2, <1>3 DEF Retain

LEMMA MoveManifest ==
  ASSUME SpentOK, Untroubled', media = {disk}, TypeInv, ManifestInv,
         MoveCurrent, job.role = "manifest"
  PROVE  media' = {disk'} /\ ManifestInv'
<1> DEFINE to == Recovered(recoveries)
<1>0. /\ pc = "move_current" /\ pc \in Handling /\ recoveries \in Recoveries
      /\ recoveries' = recoveries
  BY DEF MoveCurrent, Handling, TypeInv, ControlOK, Retaining, limits
<1>1. /\ job \in Job /\ job.rec \in Record /\ job.rec.history \in Histories
      /\ KeptBy(disk, job.rec) /\ MarkerAtHand /\ Kept(disk)
      /\ disk[Manifest] # Absent
      /\ Will # Absent /\ Will = job.rec.after["manifest"]
  BY <1>0, ManifestFacts DEF ManifestInv, ManifestKnown, MayBeAway
<1>2. /\ to \in Removed /\ to \in Entry /\ Manifest \in Entry /\ Manifest # to
      /\ {Manifest, to} \subseteq Moving(job.rec.history, "manifest")
      /\ Original(job.rec.history, "manifest") \in Entry \ {Manifest, to}
  <2>1. to \in Removed
    BY <1>0 DEF Removed
  <2> QED BY <1>1, <2>1, ManifestNames
<1>3. PICK o \in Outcomes \cup {"fail"} :
        /\ Rename(Manifest, to, o)
        /\ \/ o = "ok" /\ Goto("verify_current")
           \/ o = "seen" /\ Unsound("verify_current")
           \/ o = "fail" /\ Restored(FALSE)
  BY DEF MoveCurrent, Outcomes, Manifest
<1>4. /\ media' = {disk'}
      /\ \/ o = "ok" /\ Moved(Manifest, to)
         \/ o = "fail" /\ disk' = disk
  <2> HIDE DEF to
  <2> QED BY <1>2, <1>3, UntroubledRename
<1>5. CASE o = "fail" /\ disk' = disk
  BY <1>0, <1>1, <1>3, <1>4, <1>5, RestoredLeads
<1>6. CASE o = "ok" /\ Moved(Manifest, to)
  <2>1. pc' = "verify_current" /\ job' = job
    BY <1>3, <1>6 DEF Goto
  <2>2. /\ disk'[Manifest] = Absent /\ disk'[to] # Absent
        /\ Aside(disk', job.rec) = Aside(disk, job.rec)
    BY <1>2, <1>6 DEF Moved, Aside
  <2>3. job.parked = Was /\ Aside(disk, job.rec) # Absent
    BY <1>0 DEF ManifestInv, ManifestKnown, Exchanging
  <2>4. KeptBy(disk', job.rec)
    BY <1>1, <2>2, <2>3 DEF KeptBy
  <2>5. disk'[Marker] = disk[Marker] /\ Kept(disk')
    <3> HIDE DEF to
    <3> QED BY <1>0, <1>1, <1>2, <1>6, <2>4, ManifestMoved
  <2>6. MarkerAtHand'
    BY <1>0, <1>1, <2>1, <2>5 DEF MarkerAtHand
  <2>7. Was' = Was /\ Recovered(recoveries') = to
    BY <1>0, <2>1 DEF Was
  <2> QED BY <1>4, <2>1, <2>2, <2>3, <2>5, <2>6, <2>7
          DEF ManifestInv, ManifestKnown, MayBeAway, Preparing, Exchanging
<1> QED BY <1>4, <1>5, <1>6

LEMMA VerifyManifest ==
  ASSUME SpentOK, Untroubled', media = {disk}, TypeInv, ManifestInv,
         VerifyCurrent, job.role = "manifest"
  PROVE  media' = {disk'} /\ ManifestInv'
<1>0. /\ pc = "verify_current" /\ pc \in Handling /\ recoveries' = recoveries
      /\ disk' = disk /\ media' = {disk'} /\ Frame
  BY NoFault, QuietFrame DEF VerifyCurrent, Quiet, Handling, limits
<1>1. /\ job \in Job /\ Was # Absent /\ job.parked = Was /\ Aside(disk, job.rec) # Absent
      /\ disk[Recovered(recoveries)] # Absent
  BY <1>0, ManifestFacts DEF ManifestInv, ManifestKnown, Exchanging
<1>2. Unsound("return_current") \/ Goto("unpark")
  BY <1>1, NoFault DEF VerifyCurrent
<1>3. CASE Goto("unpark")
  <2>1. pc' = "unpark" /\ job' = job
    BY <1>3 DEF Goto
  <2> QED BY <1>0, <2>1, FrameLeads DEF MayBeAway, Handling, Exchanging
<1>4. CASE Unsound("return_current")
  <2>1. /\ pc' = "return_current" /\ job'.rec = job.rec /\ job'.role = job.role
        /\ job'.parked = job.parked
    BY <1>1, <1>4, GotoLeads
  <2>2. Kept(disk') /\ MarkerAtHand'
    BY <1>0, <2>1 DEF ManifestInv, MarkerAtHand
  <2>3. Was' = Was /\ Aside(disk', job'.rec) = Aside(disk, job.rec)
    BY <1>0, <2>1 DEF Was, Aside
  <2> QED BY <1>0, <1>1, <2>1, <2>2, <2>3
          DEF ManifestInv, ManifestKnown, MayBeAway, Preparing, Exchanging
<1> QED BY <1>2, <1>3, <1>4

LEMMA ReturnManifest ==
  ASSUME SpentOK, Untroubled', media = {disk}, TypeInv, ManifestInv,
         ReturnCurrent, job.role = "manifest"
  PROVE  media' = {disk'} /\ ManifestInv'
<1> DEFINE from == Recovered(recoveries)
<1>0. /\ pc = "return_current" /\ pc \in Handling /\ recoveries \in Recoveries
  BY DEF ReturnCurrent, Handling, TypeInv, ControlOK, Retaining
<1>1. /\ job \in Job /\ job.rec \in Record /\ job.rec.history \in Histories
      /\ KeptBy(disk, job.rec) /\ MarkerAtHand /\ Kept(disk)
      /\ disk[from] # Absent /\ Aside(disk, job.rec) # Absent
  BY <1>0, ManifestFacts DEF ManifestInv, ManifestKnown, Exchanging
<1>2. /\ from \in Removed /\ from \in Entry /\ Manifest \in Entry /\ Manifest # from
      /\ {Manifest, from} \subseteq Moving(job.rec.history, "manifest")
      /\ Original(job.rec.history, "manifest") \in Entry \ {Manifest, from}
  <2>1. from \in Removed
    BY <1>0 DEF Removed
  <2> QED BY <1>1, <2>1, ManifestNames
<1>3. PICK o \in Outcomes \cup {"fail"} : Rename(from, Manifest, o)
  BY DEF ReturnCurrent, Manifest
<1>4. Restored(FALSE)
  BY DEF ReturnCurrent
<1> HIDE DEF from
<1>5. /\ media' = {disk'}
      /\ \/ Moved(from, Manifest)
         \/ disk' = disk /\ disk[Manifest] # Absent
  BY <1>1, <1>2, <1>3, UntroubledRename
<1>6. CASE disk' = disk /\ disk[Manifest] # Absent
  BY <1>0, <1>1, <1>4, <1>5, <1>6, RestoredLeads
<1>7. CASE Moved(from, Manifest)
  <2>1. /\ disk'[Manifest] # Absent
        /\ Aside(disk', job.rec) = Aside(disk, job.rec)
    BY <1>2, <1>7 DEF Moved, Aside
  <2>2. KeptBy(disk', job.rec)
    BY <1>1, <2>1 DEF KeptBy
  <2>3. disk'[Marker] = disk[Marker] /\ Kept(disk')
    BY <1>0, <1>1, <1>2, <1>7, <2>2, ManifestMoved
  <2> QED BY <1>0, <1>1, <1>4, <1>5, <2>1, <2>3, RestoredLeads
<1> QED BY <1>5, <1>6, <1>7


\* The lock is restored: none of it touches the manifest.
LEMMA RestoreLock ==
  ASSUME SpentOK, Untroubled', media = {disk}, TypeInv, ManifestInv, job.role = "lock",
         \/ Restore \/ PutBack \/ Retain \/ MoveCurrent \/ VerifyCurrent
         \/ ReturnCurrent \/ Unpark \/ StageImage \/ PublishImage
  PROVE  media' = {disk'} /\ ManifestInv'
<1> DEFINE h == job.rec.history
           places == {"put_back", "retain", "move_current", "verify_current",
                      "return_current", "unpark", "stage_image", "publish_image"}
<1>0. /\ pc \in places \cup {"restore"} /\ pc \in Handling /\ pc # "abort"
      /\ job \in Job /\ h \in Histories
      /\ pc \in Retaining => recoveries \in Recoveries
  <2>1. pc \in places \cup {"restore"}
    BY DEF Restore, PutBack, Retain, MoveCurrent, VerifyCurrent, ReturnCurrent, Unpark,
           StageImage, PublishImage
  <2>2. pc \in Handling /\ pc # "abort" /\ pc \in WithRecord
    BY <2>1 DEF Handling, WithRecord, Places
  <2> QED BY <2>1, <2>2 DEF TypeInv, ControlOK, Record
<1>1. ASSUME Frame,
             \/ \E ok \in BOOLEAN : Restored(ok)
             \/ \E place \in places : Goto(place) \/ Unsound(place)
             \/ pc' = "retain" /\ job' = [job EXCEPT !.parked = disk[OriginalEntry]]
      PROVE  ManifestInv'
  <2>1. CASE \E ok \in BOOLEAN : Restored(ok)
    BY <1>0, <1>1, <2>1, LockLeads
  <2>2. CASE \E place \in places : Goto(place) \/ Unsound(place)
    <3>1. pc' \in places /\ job'.role = "lock" /\ job'.rec = job.rec
      BY <1>0, <2>2, GotoLeads
    <3>2. pc' \in Handling
      BY <3>1 DEF Handling
    <3> QED BY <1>0, <1>1, <3>1, <3>2, LockLeads
  <2>3. CASE pc' = "retain" /\ job' = [job EXCEPT !.parked = disk[OriginalEntry]]
    <3>1. job'.role = "lock" /\ job'.rec = job.rec
      BY <1>0, <2>3 DEF Job
    <3> QED BY <1>0, <1>1, <2>3, <3>1, LockLeads DEF Handling
  <2> QED BY <1>1, <2>1, <2>2, <2>3
<1> HIDE DEF h
<1>2. ASSUME NEW from \in Moving(h, "lock"), NEW to \in Moving(h, "lock"), from # to,
             NEW o, Rename(from, to, o)
      PROVE  media' = {disk'} /\ Frame
  BY <1>0, <1>2, LockFrame
<1>3. /\ {Project("lock"), Original(h, "lock")} \cup Removed \subseteq Moving(h, "lock")
      /\ Project("lock") # Original(h, "lock")
      /\ recoveries \in Recoveries => /\ Recovered(recoveries) \in Removed
                                      /\ Recovered(recoveries) # Project("lock")
      /\ OriginalEntry = Original(h, "lock")
  BY <1>0, Distinct DEF Moving, Removed, OriginalEntry, Roles, h
<1>4. CASE Restore \/ Retain \/ VerifyCurrent
  <2>1. disk' = disk /\ media' = {disk'}
    BY <1>4, NoFault DEF Restore, Retain, VerifyCurrent, Quiet
  <2>2. Restore => \/ \E ok \in BOOLEAN : Restored(ok)
                   \/ Unsound("put_back") \/ Goto("unpark")
                   \/ pc' = "retain" /\ job' = [job EXCEPT !.parked = disk[OriginalEntry]]
    BY DEF Restore
  <2>3. Retain => Restored(FALSE) \/ Goto("move_current")
    BY DEF Retain
  <2>4. VerifyCurrent => \/ \E ok \in BOOLEAN : Restored(ok)
                         \/ Unsound("return_current") \/ Goto("unpark")
                         \/ Goto("stage_image")
    BY DEF VerifyCurrent
  <2> QED BY <1>1, <1>4, <2>1, <2>2, <2>3, <2>4, QuietFrame
<1>5. CASE PutBack \/ Unpark
  <2>1. \E o : Rename(Original(h, "lock"), Project("lock"), o)
    BY <1>3, <1>5 DEF PutBack, Unpark
  <2>2. \E ok \in BOOLEAN : Restored(ok)
    BY <1>5 DEF PutBack, Unpark
  <2> QED BY <1>1, <1>2, <1>3, <2>1, <2>2
<1>6. CASE MoveCurrent
  <2>1. \E o : Rename(Project("lock"), Recovered(recoveries), o)
    BY <1>6 DEF MoveCurrent
  <2>2. Restored(FALSE) \/ Goto("verify_current") \/ Unsound("verify_current")
    BY <1>6 DEF MoveCurrent, Outcomes
  <2>3. recoveries \in Recoveries
    BY <1>0, <1>6 DEF MoveCurrent, Retaining
  <2> QED BY <1>1, <1>2, <1>3, <2>1, <2>2, <2>3
<1>7. CASE ReturnCurrent \/ PublishImage
  <2>1. \E o : Rename(Recovered(recoveries), Project("lock"), o)
    BY <1>7 DEF ReturnCurrent, PublishImage
  <2>2. \E ok \in BOOLEAN : Restored(ok)
    BY <1>7 DEF ReturnCurrent, PublishImage
  <2>3. recoveries \in Recoveries
    BY <1>0, <1>7 DEF ReturnCurrent, PublishImage, Retaining
  <2> QED BY <1>1, <1>2, <1>3, <2>1, <2>2, <2>3
<1>8. CASE StageImage
  <2>1. Restored(FALSE) \/ Goto("publish_image")
    BY <1>8 DEF StageImage
  <2>2. CASE Quiet
    BY <1>1, <2>1, <2>2, QuietFrame DEF Quiet
  <2>3. CASE WithinBudget
    <3> DEFINE n == recoveries + 1
    <3>1. n \in Recoveries
      BY <2>3, UsedBound
    <3> HIDE DEF n
    <3>2. /\ Recovered(n) \in Entry /\ Recovered(n) # Marker /\ Recovered(n) # Manifest
          /\ \A g \in Histories : Recovered(n) # Original(g, "manifest")
      <4>1. "manifest" \in Roles
        BY DEF Roles
      <4> QED BY <1>0, <3>1, <4>1, EntryFacts, Distinct DEF Manifest
    <3>3. CASE \E o : Write(Recovered(n), Was, o)
      BY <1>1, <2>1, <3>2, <3>3, UntroubledWrite, PutFrame DEF InOrder
    <3> QED BY <1>8, <2>2, <3>3 DEF StageImage, n
  <2> QED BY <1>8, <2>2, <2>3 DEF StageImage
<1> QED BY <1>4, <1>5, <1>6, <1>7, <1>8

LEMMA RecoverManifest ==
  ASSUME SpentOK, Untroubled', media = {disk}, JournalInv, AdmittedInv, ManifestInv,
         Recover
  PROVE  media' = {disk'} /\ ManifestInv'
<1>0. /\ TypeInv /\ job \in Job /\ pc = "recover"
      /\ disk' = disk /\ media' = {disk'} /\ Kept(disk')
  BY NoFault DEF Recover, Quiet, JournalInv, TypeInv, ControlOK, ManifestInv
<1>1. disk[Marker] # Absent => Verified(disk) /\ disk[Marker] \in MarkerRecord
  BY <1>0, MarkerFacts DEF JournalInv, Whole
<1>2. \/ disk[Marker] = Absent /\ Return(TRUE)
      \/ disk[Marker] # Absent /\ Committed /\ Goto("clear")
      \/ disk[Marker] # Absent /\ RollBack("manifest", TRUE)
  BY <1>1, NoFault DEF Recover
<1>3. CASE disk[Marker] = Absent /\ Return(TRUE)
  <2>1. disk'[Manifest] # Absent
    BY <1>0, <1>3 DEF Kept
  <2>2. \/ pc' = "idle"
        \/ /\ pc' = job.then /\ job.then \in {"admit", "commit"}
           /\ job'.then = job.then /\ job'.want = job.want /\ job'.admitted = job.admitted
    BY <1>0, <1>3 DEF Return, Finish, NoJob, Job, TypeInv, ControlOK
  <2>3. CASE pc' \in {"idle", "admit"}
    BY <1>0, <2>1, <2>3, EndLeads DEF Handling, Preparing
  <2>4. CASE pc' = "commit" /\ job'.want = job.want /\ job'.admitted = job.admitted
                            /\ job.then = "commit"
    <3>1. job'.want["manifest"] \in GraphBytes \cup {job'.admitted["manifest"]}
      BY <1>0, <2>4 DEF ManifestInv, ManifestKnown
    <3> QED BY <1>0, <2>1, <2>4, <3>1
            DEF ManifestInv, ManifestKnown, MarkerAtHand, Handling, Preparing, Exchanging
  <2> QED BY <2>2, <2>3, <2>4
<1>4. CASE disk[Marker] # Absent /\ Committed /\ Goto("clear")
  <2>1. disk[Manifest] = disk[Marker].after["manifest"]
    BY <1>4 DEF Committed, ProjectOf, Manifest, Roles
  <2>2. disk'[Manifest] # Absent
    BY <1>0, <1>1, <1>4, <2>1, BytesAssumption DEF MarkerRecord, Roles
  <2> QED BY <1>0, <1>4, <2>2, EndLeads DEF Goto, Handling, Preparing
<1>5. CASE disk[Marker] # Absent /\ RollBack("manifest", TRUE)
  <2> DEFINE rec == [before |-> disk[Marker].before, after |-> disk[Marker].after,
                     history |-> disk[Marker].history]
  <2>1. pc' = "restore" /\ job' = [job EXCEPT !.role = "manifest", !.sound = TRUE, !.rec = rec]
    BY <1>5 DEF RollBack
  <2>2. /\ rec.before = disk[Marker].before /\ rec.after = disk[Marker].after
        /\ rec.history = disk[Marker].history
    OBVIOUS
  <2> HIDE DEF rec
  <2>3. job'.rec = rec /\ job'.role = "manifest"
    BY <1>0, <2>1 DEF Job
  <2>4. MarkerAtHand'
    BY <1>0, <1>5, <2>2, <2>3 DEF MarkerAtHand
  <2>5. ManifestKnown'
    BY <2>1, <2>3 DEF ManifestKnown, MayBeAway, Preparing, Exchanging
  <2> QED BY <1>0, <2>4, <2>5 DEF ManifestInv
<1> QED BY <1>2, <1>3, <1>4, <1>5

\* The journal is cleared with the manifest in its place.
LEMMA ClearManifest ==
  ASSUME SpentOK, Untroubled', media = {disk}, TypeInv, AdmittedInv, ManifestInv,
         Clear \/ ClearImage
  PROVE  media' = {disk'} /\ ManifestInv'
<1>0. /\ disk[Manifest] # Absent /\ job \in Job /\ job.role \in Roles /\ Manifest \in Entry
      /\ Marker \in Entry /\ Manifest # Marker
  BY EntryFacts, Distinct
     DEF Clear, ClearImage, ManifestInv, ManifestKnown, MayBeAway, TypeInv, ControlOK, Job,
         Manifest, Roles
<1>1. CASE Clear
  <2>1. PICK o \in Outcomes : /\ Write(Marker, Absent, o)
                              /\ o = "ok" => pc' = "clear_image"
    BY <1>1 DEF Clear, Remove
  <2>2. o = "ok" /\ Put(Marker, Absent) /\ media' = {disk'}
    BY <1>0, <2>1, UntroubledWrite DEF InOrder
  <2>3. Kept(disk') /\ disk'[Manifest] # Absent
    BY <1>0, <2>2 DEF Put, Kept
  <2> QED BY <2>1, <2>2, <2>3, EndLeads DEF Handling, Preparing
<1>2. CASE ClearImage
  <2>1. PICK o \in Outcomes : Write(Before(job.role), Absent, o)
    BY <1>2 DEF ClearImage, Remove
  <2>2. /\ Before(job.role) \in Entry /\ Before(job.role) # Marker
        /\ Before(job.role) # Manifest
        /\ \A h \in Histories : Before(job.role) # Original(h, "manifest")
    BY <1>0, EntryFacts, Distinct DEF Manifest, Roles
  <2>3. media' = {disk'} /\ Frame
    BY <2>1, <2>2, UntroubledWrite, PutFrame DEF InOrder
  <2>4. Kept(disk') /\ disk'[Manifest] # Absent
    BY <1>0, <2>3, KeptFrame DEF Frame, ManifestInv
  <2>5. job.then # "commit"
    BY <1>2 DEF ClearImage, AdmittedInv, Recorded, Imaged
  <2>6. pc' \in {"clear_image", "idle", "admit"}
    BY <1>0, <1>2, <2>5 DEF ClearImage, Return, Finish, Job, TypeInv, ControlOK
  <2> QED BY <2>3, <2>4, <2>6, EndLeads DEF Handling, Preparing
<1> QED BY <1>1, <1>2

LEMMA RecoveryManifest ==
  ASSUME SpentOK, Untroubled', media = {disk}, JournalInv, AdmittedInv, ManifestInv,
         Recovery
  PROVE  media' = {disk'} /\ ManifestInv'
<1>0. TypeInv /\ job.role \in Roles
  BY DEF JournalInv, TypeInv, ControlOK, Job
<1>1. CASE job.role = "lock"
  BY <1>0, <1>1, RestoreLock, RecoverManifest, ClearManifest DEF Recovery
<1>2. CASE job.role = "manifest"
  <2>1. CASE PutBack \/ Unpark
    <3>1. PICK o : Rename(OriginalEntry, Manifest, o)
      BY <1>2, <2>1 DEF PutBack, Unpark, Manifest
    <3>2. PICK ok \in BOOLEAN : Restored(ok)
      BY <2>1 DEF PutBack, Unpark
    <3>3. pc \in Handling
      BY <2>1 DEF PutBack, Unpark, Handling
    <3> QED BY <1>0, <1>2, <3>1, <3>2, <3>3, OriginalBack
  <2>2. ~StageImage /\ ~PublishImage
    BY <1>2 DEF StageImage, PublishImage, ManifestInv, ManifestKnown
  <2> QED BY <1>0, <1>2, <2>1, <2>2, RecoverManifest, RestoreManifest, RetainManifest,
             MoveManifest, VerifyManifest, ReturnManifest, ClearManifest DEF Recovery
<1> QED BY <1>0, <1>1, <1>2 DEF Roles

-----------------------------------------------------------------------------
(* A commit *)

\* The preparation of a journal leaves the project alone.
LEMMA PrepareLeads ==
  ASSUME TypeInv, ManifestInv, Frame, pc \in Preparing, pc' \in Preparing,
         job'.rec = job.rec
  PROVE  ManifestInv'
<1>1. job.rec.history \in Histories /\ disk[Manifest] # Absent
  BY DEF TypeInv, ControlOK, WithRecord, Places, Record, Preparing, ManifestInv,
         ManifestKnown, MayBeAway
<1>2. Aside(disk', job'.rec) = Aside(disk, job.rec) /\ disk'[Manifest] = disk[Manifest]
  BY <1>1 DEF Frame, Aside
<1>3. Kept(disk') /\ MarkerAtHand'
  BY KeptFrame DEF ManifestInv, MarkerAtHand, Handling, Preparing
<1> QED BY <1>1, <1>2, <1>3 DEF ManifestInv, ManifestKnown, Preparing, Exchanging

LEMMA AdmitManifest ==
  ASSUME TypeInv, ManifestInv, media = {disk}, Admit
  PROVE  media' = {disk'} /\ ManifestInv'
<1>0. /\ disk' = disk /\ media' = {disk'} /\ pc = "admit" /\ disk[Manifest] # Absent
      /\ Kept(disk')
  BY DEF Admit, Quiet, ManifestInv, ManifestKnown, MayBeAway
<1>1. CASE Finish("refused")
  BY <1>0, <1>1, EndLeads DEF Finish, Handling, Preparing
<1>2. CASE ~Finish("refused")
  <2>1. PICK m \in GraphBytes \cup {disk[Manifest]}, l \in GraphBytes :
          job' = [NoJob EXCEPT !.then = "commit", !.admitted = ProjectOf(disk),
                    !.want = [r \in Roles |-> IF r = "lock" THEN l ELSE m]]
    BY <1>2 DEF Admit, Manifest
  <2>2. job'.want["manifest"] = m /\ job'.admitted["manifest"] = disk[Manifest]
    BY <2>1 DEF NoJob, ProjectOf, Roles, Manifest
  <2>3. pc' = "recover"
    BY <1>2 DEF Admit
  <2> QED BY <1>0, <2>2, <2>3
          DEF ManifestInv, ManifestKnown, MarkerAtHand, Handling, Preparing, Exchanging
<1> QED BY <1>1, <1>2

LEMMA CommitManifest ==
  ASSUME SpentOK, Untroubled', TypeInv, TypeInv', AllFresh, AdmittedInv, ManifestInv,
         media = {disk}, Commit
  PROVE  media' = {disk'} /\ ManifestInv'
<1>0. /\ disk' = disk /\ media' = {disk'} /\ pc = "commit" /\ disk[Manifest] # Absent
      /\ Kept(disk') /\ job \in Job /\ job.then = "commit"
  BY NoFault DEF Commit, Quiet, ManifestInv, ManifestKnown, MayBeAway, TypeInv, ControlOK
<1>1. CASE Finish("refused") \/ Finish("unchanged")
  BY <1>0, <1>1, EndLeads DEF Finish, Handling, Preparing
<1>2. CASE ~(Finish("refused") \/ Finish("unchanged"))
  <2> DEFINE rec == [before |-> ProjectOf(disk), after |-> job.want,
                     history |-> histories + 1]
             role == IF job.want["manifest"] = ProjectOf(disk)["manifest"]
                     THEN "lock" ELSE "manifest"
  <2>1. /\ histories' = histories + 1 /\ pc' = "stage" /\ ProjectOf(disk) = job.admitted
        /\ job' = [job EXCEPT !.rec = rec, !.role = role]
    BY <1>2, NoFault DEF Commit, StillAdmitted
  <2>2. /\ rec.before = ProjectOf(disk) /\ rec.after = job.want
        /\ rec.history = histories + 1
    OBVIOUS
  <2> HIDE DEF rec, role
  <2>3. job'.rec = rec
    BY <1>0, <2>1 DEF Job
  <2>4. ProjectOf(disk)["manifest"] = disk[Manifest]
    BY DEF ProjectOf, Roles, Manifest
  <2>5. job.want["manifest"] \in GraphBytes \cup {disk[Manifest]}
    BY <1>0, <2>1, <2>4 DEF ManifestInv, ManifestKnown
  <2>6. Aside(disk', job'.rec) = Absent
    <3>1. histories + 1 \in Histories /\ histories \in Int
      BY <2>1 DEF TypeInv, Histories
    <3>2. Original(histories + 1, "manifest") \in Entry
      BY <3>1, EntryFacts DEF Roles
    <3>3. Future(Original(histories + 1, "manifest"), histories, recoveries)
      BY <3>1 DEF Future, Original
    <3> QED BY <1>0, <2>2, <2>3, <3>2, <3>3 DEF AllFresh, Fresh, Aside
  <2>7. Changes(job'.rec) => /\ job'.rec.after["manifest"] \in GraphBytes
                             /\ disk'[Manifest] # job'.rec.after["manifest"]
    BY <1>0, <2>2, <2>3, <2>4, <2>5 DEF Changes
  <2> QED BY <1>0, <2>1, <2>6, <2>7
          DEF ManifestInv, ManifestKnown, MarkerAtHand, Handling, Preparing, Exchanging
<1> QED BY <1>1, <1>2

LEMMA PrepareManifest ==
  ASSUME SpentOK, Untroubled', TypeInv, ManifestInv, media = {disk}, Stage \/ SaveImage
  PROVE  media' = {disk'} /\ ManifestInv'
<1>0. /\ pc \in Preparing /\ job \in Job /\ job.role \in Roles
      /\ job.rec.history \in Histories
  BY DEF Stage, SaveImage, TypeInv, ControlOK, Job, WithRecord, Places, Record, Preparing
<1>1. PICK e, c, o :
        /\ e \in {New(job.rec.history, job.role), Before(job.role)} /\ Write(e, c, o)
        /\ o = "ok" => \/ StepTo("stage", "lock") \/ StepTo("save_image", "manifest")
                       \/ StepTo("save_image", "lock") \/ Goto("mark_pending")
  <2>1. CASE Stage
    <3>1. PICK o : /\ Write(New(job.rec.history, job.role), Will, o)
                   /\ o = "ok" => \/ StepTo("stage", "lock")
                                  \/ StepTo("save_image", "manifest")
      BY <1>0, <2>1 DEF Stage, Roles
    <3> QED BY <3>1
  <2>2. CASE SaveImage
    <3>1. PICK o : /\ Write(Before(job.role), Image(Was), o)
                   /\ o = "ok" => StepTo("save_image", "lock") \/ Goto("mark_pending")
      BY <1>0, <2>2 DEF SaveImage, Roles
    <3> QED BY <3>1
  <2> QED BY <2>1, <2>2
<1>2. /\ e \in Entry /\ e # Marker /\ e # Manifest
      /\ \A h \in Histories : e # Original(h, "manifest")
  <2>1. "manifest" \in Roles
    BY DEF Roles
  <2> QED BY <1>0, <1>1, <2>1, EntryFacts, Distinct DEF Manifest
<1>3. o = "ok" /\ media' = {disk'} /\ Frame
  BY <1>1, <1>2, UntroubledWrite, PutFrame DEF InOrder
<1>4. pc' \in Preparing /\ job'.rec = job.rec
  BY <1>0, <1>1, <1>3 DEF StepTo, Goto, Job, Preparing
<1> QED BY <1>0, <1>3, <1>4, PrepareLeads


\* Where the marker is written, a replacement of the manifest has the original
\* at hand: in the project, or moved away.
LEMMA MarkManifest ==
  ASSUME SpentOK, Untroubled', TypeInv, ManifestInv, media = {disk},
         MarkPending \/ MarkCommitted \/ Abort
  PROVE  media' = {disk'} /\ ManifestInv'
<1>0. /\ job \in Job /\ job.rec \in Record /\ job.rec.history \in Histories
      /\ Manifest \in Entry /\ Marker \in Entry /\ Manifest # Marker
      /\ Original(job.rec.history, "manifest") \in Entry \ {Marker}
      /\ pc \in {"mark_pending", "mark_committed", "abort"}
      /\ job.rec.after["manifest"] # Absent
  <2>1. pc \in {"mark_pending", "mark_committed", "abort"}
    BY DEF MarkPending, MarkCommitted, Abort
  <2>2. job \in Job /\ job.rec \in Record
    BY <2>1 DEF TypeInv, ControlOK, WithRecord, Places
  <2>3. "manifest" \in Roles
    BY DEF Roles
  <2> QED BY <2>1, <2>2, <2>3, EntryFacts, Distinct, BytesAssumption DEF Record, Manifest
<1>1. KeptBy(disk, job.rec)
  <2>1. CASE pc = "mark_pending"
    BY <1>0, <2>1 DEF ManifestInv, ManifestKnown, MayBeAway, Preparing, KeptBy
  <2>2. CASE pc # "mark_pending"
    BY <1>0, <2>2, KeptAtHand DEF ManifestInv, Handling
  <2> QED BY <2>1, <2>2
<1>2. PICK o, phase :
        /\ phase \in {"pending", "committed"}
        /\ Write(Marker, MarkerOf(phase), o)
        /\ o = "ok" =>
             \/ pc = "mark_pending" /\ (LockStep \/ StepTo("park", "manifest"))
             \/ /\ pc = "mark_committed" /\ pc' = "clear"
             \/ /\ pc = "abort" /\ pc' = "recover" /\ job' = [job EXCEPT !.then = "report"]
  <2>1. CASE MarkPending
    BY <2>1 DEF MarkPending
  <2>2. CASE MarkCommitted
    BY <2>2 DEF MarkCommitted
  <2>3. CASE Abort
    BY <2>3 DEF Abort
  <2> QED BY <2>1, <2>2, <2>3
<1> DEFINE mark == MarkerOf(phase)
<1>3. /\ mark.before = job.rec.before /\ mark.after = job.rec.after
      /\ mark.history = job.rec.history
  BY DEF MarkerOf
<1> HIDE DEF mark
<1>4. o = "ok" /\ Put(Marker, mark) /\ media' = {disk'}
  BY <1>0, <1>2, UntroubledWrite DEF InOrder, mark
<1>5. /\ disk'[Marker] = mark /\ disk'[Manifest] = disk[Manifest]
      /\ Aside(disk', job.rec) = Aside(disk, job.rec)
  BY <1>0, <1>4 DEF Put, Aside
<1>6. disk'[Marker] # Absent => Kept(disk')
  BY <1>1, <1>3, <1>5 DEF Kept, KeptBy, Aside, Changes
<1>7. disk'[Marker] # Absent
  <2>1. mark \in MarkerRecord
    BY <1>0, <1>2 DEF mark, MarkerOf, MarkerRecord, Record
  <2> QED BY <1>5, <2>1, AbsentAssumption
<1>8. CASE pc = "mark_pending"
  <2>1. disk'[Manifest] # Absent
    BY <1>5, <1>8 DEF ManifestInv, ManifestKnown, MayBeAway
  <2>2. PICK place \in {"park", "publish"}, role \in Roles : StepTo(place, role)
    BY <1>2, <1>4, <1>8 DEF LockStep, Roles
  <2>3. pc' = place /\ job'.rec = job.rec
    BY <1>0, <2>2, StepToLeads
  <2>4. MarkerAtHand'
    BY <1>3, <1>5, <1>7, <2>3 DEF MarkerAtHand
  <2>5. ManifestKnown'
    BY <2>1, <2>3 DEF ManifestKnown, Preparing, Exchanging
  <2> QED BY <1>4, <1>6, <1>7, <2>4, <2>5 DEF ManifestInv
<1>9. CASE pc = "mark_committed"
  <2>1. disk'[Manifest] # Absent
    BY <1>5, <1>9 DEF ManifestInv, ManifestKnown, MayBeAway
  <2> QED BY <1>2, <1>4, <1>6, <1>7, <1>9, <2>1, EndLeads DEF Handling, Preparing
<1>10. CASE pc = "abort"
  <2>1. pc' = "recover" /\ job'.then = "report"
    BY <1>0, <1>2, <1>4, <1>10 DEF Job
  <2>2. MarkerAtHand' /\ ManifestKnown'
    BY <2>1 DEF MarkerAtHand, ManifestKnown, MayBeAway, Handling, Preparing, Exchanging
  <2> QED BY <1>4, <1>6, <1>7, <2>2 DEF ManifestInv
<1> QED BY <1>0, <1>8, <1>9, <1>10

\* From a step of the replacement to the next.
LEMMA ForwardLeads ==
  ASSUME job \in Job, MarkerAtHand, pc \in Handling, Kept(disk'),
         disk'[Marker] = disk[Marker],
         NEW place \in {"verify_parked", "publish", "park", "verify_generation",
                        "mark_committed", "abort"},
         NEW role, \/ Goto(place) /\ role = job.role
                   \/ StepTo(place, role),
         \/ disk'[Manifest] # Absent
         \/ place = "abort"
         \/ role = "manifest" /\ place \in {"verify_parked", "publish"}
  PROVE  ManifestInv'
<1>1. pc' = place /\ job'.rec = job.rec /\ job'.role = role
  BY GotoLeads, StepToLeads
<1>2. pc' \in Handling /\ pc' \notin Exchanging \cup {"stage_image", "publish_image"}
  BY <1>1 DEF Handling, Exchanging
<1>3. disk'[Manifest] = Absent => MayBeAway'
  BY <1>1 DEF MayBeAway
<1> QED BY <1>1, <1>2, <1>3, MovedLeads

LEMMA ParkManifest ==
  ASSUME SpentOK, Untroubled', TypeInv, ManifestInv, media = {disk}, Park,
         job.role = "manifest"
  PROVE  media' = {disk'} /\ ManifestInv'
<1>0. /\ pc = "park" /\ pc \in Handling /\ MarkerAtHand /\ Kept(disk)
      /\ disk[Manifest] # Absent
  BY DEF Park, Handling, ManifestInv, ManifestKnown, MayBeAway
<1>1. /\ job \in Job /\ job.rec \in Record /\ job.rec.history \in Histories
      /\ KeptBy(disk, job.rec) /\ OriginalEntry = Original(job.rec.history, "manifest")
      /\ job.rec.after["manifest"] # Absent
  BY <1>0, ManifestFacts
<1>2. /\ OriginalEntry \in Entry /\ Manifest \in Entry /\ OriginalEntry # Manifest
      /\ {OriginalEntry, Manifest} \subseteq Moving(job.rec.history, "manifest")
  BY <1>1, ManifestNames
<1>3. PICK o : /\ Rename(Manifest, OriginalEntry, o)
               /\ Goto(IF o = "ok" THEN "verify_parked" ELSE "abort")
  BY DEF Park, Manifest
<1>4. /\ media' = {disk'}
      /\ \/ o = "ok" /\ Moved(Manifest, OriginalEntry)
         \/ o = "fail" /\ disk' = disk
  BY <1>2, <1>3, UntroubledRename
<1>5. CASE o = "fail" /\ disk' = disk
  <2>1. Goto("abort")
    BY <1>3, <1>5
  <2> QED BY <1>0, <1>1, <1>4, <1>5, <2>1, ForwardLeads
<1>6. CASE o = "ok" /\ Moved(Manifest, OriginalEntry)
  <2>1. Goto("verify_parked")
    BY <1>3, <1>6
  <2>2. /\ disk'[Manifest] = Absent /\ Aside(disk', job.rec) = disk[Manifest]
        /\ Aside(disk, job.rec) = Absent
    BY <1>1, <1>6 DEF Moved, Aside
  <2>3. KeptBy(disk', job.rec)
    BY <1>0, <1>1, <2>2 DEF KeptBy
  <2>4. disk'[Marker] = disk[Marker] /\ Kept(disk')
    BY <1>0, <1>1, <1>2, <1>6, <2>3, ManifestMoved
  <2> QED BY <1>0, <1>1, <1>4, <2>1, <2>4, ForwardLeads
<1> QED BY <1>4, <1>5, <1>6

LEMMA PublishManifest ==
  ASSUME SpentOK, Untroubled', TypeInv, ManifestInv, media = {disk}, Publish,
         job.role = "manifest"
  PROVE  media' = {disk'} /\ ManifestInv'
<1> DEFINE from == New(job.rec.history, "manifest")
<1>0. pc = "publish" /\ pc \in Handling /\ MarkerAtHand /\ Kept(disk)
  BY DEF Publish, Handling, ManifestInv
<1>1. /\ job \in Job /\ job.rec \in Record /\ job.rec.history \in Histories
      /\ KeptBy(disk, job.rec)
  BY <1>0, ManifestFacts
<1>2. /\ from \in Entry /\ Manifest \in Entry /\ from # Manifest
      /\ {from, Manifest} \subseteq Moving(job.rec.history, "manifest")
      /\ Original(job.rec.history, "manifest") \in Entry \ {from, Manifest}
  BY <1>1, ManifestNames
<1>3. PICK o : /\ Rename(from, Manifest, o)
               /\ IF o = "ok" THEN LockStep ELSE Goto("abort")
  BY DEF Publish, Manifest
<1> HIDE DEF from
<1>4. /\ media' = {disk'}
      /\ \/ o = "ok" /\ Moved(from, Manifest)
         \/ o = "fail" /\ disk' = disk
  BY <1>2, <1>3, UntroubledRename
<1>5. CASE o = "fail" /\ disk' = disk
  <2>1. Goto("abort")
    BY <1>3, <1>5
  <2> QED BY <1>0, <1>1, <1>4, <1>5, <2>1, ForwardLeads
<1>6. CASE o = "ok" /\ Moved(from, Manifest)
  <2>1. PICK place \in {"park", "publish"} : StepTo(place, "lock")
    BY <1>3, <1>6 DEF LockStep
  <2>2. /\ disk[Manifest] = Absent /\ disk'[Manifest] # Absent
        /\ Aside(disk', job.rec) = Aside(disk, job.rec)
    BY <1>2, <1>6 DEF Moved, Aside
  <2>3. KeptBy(disk', job.rec)
    BY <1>1, <2>2 DEF KeptBy
  <2>4. disk'[Marker] = disk[Marker] /\ Kept(disk')
    BY <1>0, <1>1, <1>2, <1>6, <2>3, ManifestMoved
  <2> QED BY <1>0, <1>1, <1>4, <2>1, <2>2, <2>4, ForwardLeads
<1> QED BY <1>4, <1>5, <1>6

\* What looks at the replacement, and what moves the lock.
LEMMA ForwardManifest ==
  ASSUME SpentOK, Untroubled', TypeInv, ManifestInv, media = {disk},
         \/ (Park \/ Publish) /\ job.role = "lock"
         \/ VerifyParked \/ VerifyGeneration
  PROVE  media' = {disk'} /\ ManifestInv'
<1>0. /\ pc \in Handling /\ MarkerAtHand /\ job \in Job /\ job.role \in Roles
      /\ job.rec.history \in Histories
      /\ disk[Manifest] = Absent => job.role = "manifest" /\ pc = "verify_parked"
  <2>1. pc \in {"park", "publish", "verify_parked", "verify_generation"}
    BY DEF Park, Publish, VerifyParked, VerifyGeneration
  <2>2. job.role = "manifest" => pc \in {"verify_parked", "verify_generation"}
    BY DEF Park, Publish, VerifyParked, VerifyGeneration
  <2>3. pc \in WithRecord
    BY <2>1 DEF WithRecord, Places
  <2> QED BY <2>1, <2>2, <2>3 DEF Handling, TypeInv, ControlOK, Job, Record, ManifestInv,
             ManifestKnown, MayBeAway
<1>1. ASSUME Frame, NEW place \in {"verify_parked", "publish", "verify_generation",
                                   "mark_committed", "abort"}, Goto(place),
             pc = "verify_parked" => place \in {"publish", "abort"}
      PROVE  ManifestInv'
  <2>1. Kept(disk') /\ disk'[Marker] = disk[Marker] /\ disk'[Manifest] = disk[Manifest]
    BY <1>1, KeptFrame DEF ManifestInv, Frame
  <2> QED BY <1>0, <1>1, <2>1, ForwardLeads
<1>2. CASE VerifyParked
  <2>1. disk' = disk /\ media' = {disk'} /\ (Goto("publish") \/ Goto("abort"))
    BY <1>2, NoFault DEF VerifyParked, Quiet
  <2> QED BY <1>1, <2>1, QuietFrame
<1>3. CASE VerifyGeneration
  <2>1. /\ disk' = disk /\ media' = {disk'} /\ pc # "verify_parked"
        /\ Goto("mark_committed") \/ Goto("abort")
    BY <1>3, NoFault DEF VerifyGeneration, Quiet
  <2> QED BY <1>1, <2>1, QuietFrame
<1>4. CASE (Park \/ Publish) /\ job.role = "lock"
  <2> DEFINE h == job.rec.history
  <2>1. PICK from \in {Project("lock"), New(h, "lock")},
             to \in {Project("lock"), Original(h, "lock")} :
          /\ from # to /\ \E o : Rename(from, to, o)
    <3>1. Park => \E o : Rename(Project("lock"), Original(h, "lock"), o)
      BY <1>4 DEF Park, OriginalEntry
    <3>2. Publish => \E o : Rename(New(h, "lock"), Project("lock"), o)
      BY <1>4 DEF Publish
    <3>3. Project("lock") # Original(h, "lock") /\ New(h, "lock") # Project("lock")
      BY DEF Project, Original, New
    <3> QED BY <1>4, <3>1, <3>2, <3>3
  <2>2. from \in Moving(h, "lock") /\ to \in Moving(h, "lock")
    BY DEF Moving
  <2>3. media' = {disk'} /\ Frame
    <3> HIDE DEF h
    <3>1. h \in Histories
      BY <1>0 DEF h
    <3> QED BY <2>1, <2>2, <3>1, LockFrame
  <2>4. /\ Goto("verify_parked") \/ Goto("verify_generation") \/ Goto("abort")
        /\ pc # "verify_parked"
    BY <1>4 DEF Park, Publish
  <2> QED BY <1>1, <2>3, <2>4
<1> QED BY <1>2, <1>3, <1>4

LEMMA CommitmentManifest ==
  ASSUME SpentOK, Untroubled', TypeInv, TypeInv', AllFresh, AdmittedInv, ManifestInv,
         media = {disk}, Commitment
  PROVE  media' = {disk'} /\ ManifestInv'
<1>1. job.role \in Roles
  BY DEF TypeInv, ControlOK, Job
<1>2. CASE Park \/ Publish
  BY <1>1, <1>2, ParkManifest, PublishManifest, ForwardManifest DEF Roles
<1> QED BY <1>2, AdmitManifest, CommitManifest, PrepareManifest, MarkManifest,
           ForwardManifest DEF Commitment

-----------------------------------------------------------------------------
(* The environment *)

\* A command starts, is killed, or is stopped by a power loss.
LEMMA InterruptManifest ==
  ASSUME ManifestInv, media = {disk}, Begin \/ Crash \/ PowerLoss
  PROVE  media' = {disk'} /\ ManifestInv'
<1>1. disk' = disk /\ media' = {disk'}
  BY DEF Begin, Crash, PowerLoss, Quiet
<1>2. \/ pc' = "recover" /\ job'.then = "admit"
      \/ pc' = "idle" /\ outcome' = "none"
  BY DEF Begin, Crash, PowerLoss, Finish, NoJob
<1>3. MarkerAtHand' /\ ManifestKnown'
  BY <1>2 DEF MarkerAtHand, ManifestKnown, MayBeAway, Handling, Preparing, Exchanging
<1> QED BY <1>1, <1>3 DEF ManifestInv

\* What an editor may write, and where.
LEMMA EditorWrites ==
  ASSUME TypeInv, ManifestLeft, media = {disk}, Editor
  PROVE  /\ media' = {disk'} /\ UNCHANGED <<limits, pc, job, outcome>>
         /\ \E e \in Entry \ {Marker}, c \in Bytes \cup {Absent} :
              /\ Put(e, c)
              /\ \/ e = Manifest
                 \/ e \in Parked \cup Removed /\ disk[e] # Absent
                 \/ e = Project("lock")
              /\ e # Project("lock") => c # Absent
              /\ e[3] = "manifest" => c \notin GraphBytes
<1>1. PICK e, c : /\ Edit(e, c) /\ e \in Entry \ {Marker} /\ c \in Bytes \cup {Absent}
                  /\ \/ e = Manifest
                     \/ e \in Parked \cup Removed /\ disk[e] # Absent
                     \/ e = Project("lock")
                  /\ e # Project("lock") => c # Absent
  <2>0. /\ \A r \in Roles : Project(r) \in Entry \ {Marker}
        /\ Parked \cup Removed \subseteq Entry \ {Marker}
    BY EntryFacts, NotMarker DEF Entry, Files
  <2>1. CASE EditorSaves
    BY <2>0, <2>1, BytesAssumption DEF EditorSaves, Roles, Manifest, Bytes
  <2>2. CASE EditorWritesOpenFile
    <3>1. PICK e \in Parked \cup Removed, c \in EditorBytes : disk[e] # Absent /\ Edit(e, c)
      BY <2>2 DEF EditorWritesOpenFile
    <3> QED BY <2>0, <3>1, BytesAssumption DEF Bytes
  <2>3. CASE EditorRemoves
    <3>1. Edit(Project("lock"), Absent)
      BY <2>3 DEF EditorRemoves, ManifestLeft, Roles
    <3> QED BY <2>0, <3>1 DEF Roles
  <2> QED BY <2>1, <2>2, <2>3 DEF Editor
<1> DEFINE w == [x \in {e} |-> c]
<1>2. /\ disk' = Apply(disk, w) /\ media' = {disk'}
      /\ UNCHANGED <<limits, pc, job, outcome>>
      /\ e[3] = "manifest" => c \notin GraphBytes
  BY <1>1 DEF Edit, ManifestLeft
<1>3. Put(e, c)
  BY <1>1, <1>2 DEF Apply, Put
<1> QED BY <1>1, <1>2, <1>3

LEMMA EditorManifest ==
  ASSUME TypeInv, ManifestLeft, ManifestInv, media = {disk}, Editor
  PROVE  media' = {disk'} /\ ManifestInv'
<1>0. media' = {disk'} /\ UNCHANGED <<limits, pc, job, outcome>>
  BY EditorWrites
<1>1. PICK e \in Entry \ {Marker}, c \in Bytes \cup {Absent} :
        /\ Put(e, c)
        /\ \/ e = Manifest
           \/ e \in Parked \cup Removed /\ disk[e] # Absent
           \/ e = Project("lock")
        /\ e # Project("lock") => c # Absent
        /\ e[3] = "manifest" => c \notin GraphBytes
  BY EditorWrites
<1>2. /\ Marker \in Entry /\ Manifest \in Entry /\ Manifest # Project("lock")
      /\ Manifest[3] = "manifest"
      /\ \A h \in Histories : /\ Original(h, "manifest") \in Entry
                              /\ Original(h, "manifest")[3] = "manifest"
                              /\ Original(h, "manifest") \notin {Manifest, Project("lock")}
  BY EntryFacts DEF Manifest, Project, Original, Roles
<1>3. disk'[Marker] = disk[Marker]
  BY <1>1, <1>2 DEF Put
\* The manifest stays or gets bytes of the editor; so does a moved one, which
\* is there or not as it was.
<1>4. \/ disk'[Manifest] = disk[Manifest]
      \/ disk'[Manifest] # Absent /\ disk'[Manifest] \notin GraphBytes
  BY <1>1, <1>2 DEF Put
<1>5. ASSUME NEW rec, rec.history \in Histories
      PROVE  \/ Aside(disk', rec) = Aside(disk, rec)
             \/ /\ Aside(disk, rec) # Absent /\ Aside(disk', rec) # Absent
                /\ Aside(disk', rec) \notin GraphBytes
  BY <1>1, <1>2, <1>5 DEF Put, Aside
<1>6. Kept(disk')
  <2>1. CASE disk[Marker] = Absent
    BY <1>3, <1>4, <2>1 DEF ManifestInv, Kept
  <2>2. CASE disk[Marker] # Absent
    <3>1. disk[Marker].history \in Histories /\ KeptBy(disk, disk[Marker])
      BY <2>2, MarkerFacts DEF ManifestInv, Kept
    <3> QED BY <1>3, <1>4, <1>5, <2>2, <3>1 DEF Kept, KeptBy
  <2> QED BY <2>1, <2>2
<1>7. MarkerAtHand'
  BY <1>0, <1>3 DEF ManifestInv, MarkerAtHand
<1>8. pc \in Preparing \cup Exchanging => job.rec.history \in Histories
  BY DEF TypeInv, ControlOK, WithRecord, Places, Record, Preparing, Exchanging
<1>9. pc \in {"verify_current", "return_current"} /\ disk[Recovered(recoveries)] # Absent
        => disk'[Recovered(recoveries)] # Absent
  <2>1. pc \in {"verify_current", "return_current"} =>
          Recovered(recoveries) \in Entry /\ Recovered(recoveries) # Project("lock")
    BY EntryFacts DEF TypeInv, ControlOK, Retaining, Recovered, Project
  <2> QED BY <1>1, <2>1 DEF Put
<1>10. ManifestKnown'
  <2>1. disk'[Manifest] = Absent => MayBeAway'
    BY <1>0, <1>4 DEF ManifestInv, ManifestKnown, MayBeAway
  <2>2. pc \in Preparing =>
          /\ Aside(disk', job.rec) = Absent
          /\ Changes(job.rec) => /\ job.rec.after["manifest"] \in GraphBytes
                                 /\ disk'[Manifest] # job.rec.after["manifest"]
    BY <1>4, <1>5, <1>8 DEF ManifestInv, ManifestKnown
  <2>3. job.role = "manifest" /\ pc \in Exchanging
          => job.parked = Was /\ Aside(disk', job.rec) # Absent
    BY <1>5, <1>8 DEF ManifestInv, ManifestKnown
  <2>4. Was' = Was /\ recoveries' = recoveries
    BY <1>0 DEF Was, limits
  <2> QED BY <1>0, <1>9, <2>1, <2>2, <2>3, <2>4 DEF ManifestInv, ManifestKnown
<1> QED BY <1>0, <1>6, <1>7, <1>10 DEF ManifestInv
-----------------------------------------------------------------------------
(* The invariant *)

\* While no operation has failed, everything is durable and the manifest safe.
SafeInv == Untroubled => media = {disk} /\ JournalInv /\ ManifestInv

LEMMA SafeStep ==
  ASSUME ManifestLeft, SpentOK, ContentsInv, AdmittedInv, SafeInv, [Next]_vars
  PROVE  SafeInv'
<1> SUFFICES ASSUME Untroubled' PROVE media' = {disk'} /\ JournalInv' /\ ManifestInv'
  BY DEF SafeInv
<1>1. media = {disk} /\ JournalInv /\ ManifestInv
  BY SpentStep DEF SafeInv
<1>2. JournalInv'
  BY <1>1, JournalStep DEF InOrder
<1>3. TypeInv /\ TypeInv' /\ AllFresh
  BY <1>1, <1>2 DEF JournalInv, ContentsInv
<1>4. CASE UNCHANGED vars
  BY <1>1, <1>2, <1>4 DEF vars, ManifestInv, Kept, KeptBy, Aside, Changes, MarkerAtHand,
     ManifestKnown, MayBeAway, Was
<1>5. media' = {disk'} /\ ManifestInv'
  BY <1>1, <1>3, <1>4, RecoveryManifest, CommitmentManifest, InterruptManifest,
     EditorManifest DEF Next, Holder
<1> QED BY <1>2, <1>5

\* A command that has finished leaves a manifest in the project, for all bytes,
\* quotas and bounds, wherever earlier ones were killed or the machine stopped
\* and whatever an editor wrote into the entries they move, in whatever order
\* changes become durable: as long as nobody deletes the manifest or writes
\* bytes of a command into it, and no operation has failed.
THEOREM ManifestSurvives ==
  ASSUME ManifestLeft PROVE Spec => []ManifestPresent
<1>1. Init => SpentOK /\ AdmittedInv /\ SafeInv
  <2> SUFFICES ASSUME Init PROVE SpentOK /\ AdmittedInv /\ SafeInv
    OBVIOUS
  <2>1. SpentOK
    BY DEF Init, SpentOK
  <2>2. AdmittedInv
    BY DEF Init, AdmittedInv, ReplacesWhatWasAdmitted, NoJob, Unmarked, Recorded, Imaged
  <2>3. disk[Manifest] # Absent /\ disk[Marker] = Absent
    <3>1. /\ Manifest \in Entry /\ Manifest[1] = "project" /\ Manifest[3] = "manifest"
          /\ Marker \in Entry /\ Marker[1] # "project"
      BY EntryFacts DEF Manifest, Project, Marker, Roles
    <3> QED BY <3>1 DEF Init, Generation
  <2>4. Kept(disk)
    BY <2>3 DEF Kept
  <2>5. MarkerAtHand /\ ManifestKnown
    BY <2>3 DEF Init, MarkerAtHand, ManifestKnown, Handling, Preparing, Exchanging
  <2> QED BY <2>1, <2>2, <2>4, <2>5, JournalInit DEF Init, SafeInv, ManifestInv
<1>2. SafeInv => ManifestPresent
  BY DEF SafeInv, Untroubled, ManifestInv, ManifestKnown, MayBeAway, ManifestPresent, Manifest
<1>3. ContentsInv => TypeInv
  BY DEF ContentsInv
<1> QED BY <1>1, <1>2, <1>3, ContentsInit, ContentsStep, SpentStep, AdmittedStep, SafeStep,
           PTL DEF Spec

=============================================================================
