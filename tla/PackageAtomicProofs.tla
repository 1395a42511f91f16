------------------------- MODULE PackageAtomicProofs -------------------------
(* What a command reports, and what the project sees: on an ordered file      *)
(* system, without an editor and with readable entries, the journal           *)
(* implements AtomicGeneration.                                               *)
EXTENDS PackageTransactionProofs

-----------------------------------------------------------------------------
(* What a commit reports *)

\* A command knows what every disk yields before it reports it: the entries it
\* has verified or put back, and that nothing but the journal remains to clear.
ReportKnown ==
  /\ pc \in Recorded => job.rec.after = job.want
  /\ pc = "mark_committed" => ProjectOf(disk) = job.want
  /\ job.then = "acknowledge" => /\ ProjectOf(disk) = job.want
                                 /\ \A d \in media : Yields(d) = job.want
  /\ (job.then = "report" /\ pc \in Restoring \cup {"recover"})
       => disk[Marker] # Absent /\ disk[Marker].before = job.admitted
  /\ (pc \in Restoring /\ job.role = "lock" /\ job.sound)
       => disk[Project("manifest")] = job.rec.before["manifest"]
  /\ (job.then = "report" /\ pc \in {"clear", "clear_image"})
       => ProjectOf(disk) = job.admitted
  /\ (job.then = "report" /\ pc = "clear_image")
       => \A d \in media : Yields(d) = job.admitted

ReportInv == RollbackInv /\ AdmittedInv /\ ReportKnown

\* A place at which nothing will be reported yet.
LEMMA NothingReported ==
  ASSUME pc' \notin Recorded \cup Restoring,
         job'.then \notin {"acknowledge", "report"} \/ (pc' = "idle" /\ job' = NoJob)
  PROVE  ReportKnown'
BY DEF ReportKnown, Recorded, Imaged, NoJob

\* While a commit works on its record, only the record has to stay.
LEMMA StillRecorded ==
  ASSUME ReportInv, pc \in Recorded, pc' \in Recorded, job'.rec = job.rec,
         job'.then = job.then, job'.want = job.want, pc' # "mark_committed"
  PROVE  ReportKnown'
<1>1. job.then = "commit"
  BY DEF ReportInv, AdmittedInv
<1>2. pc' \notin Restoring \cup {"recover", "clear", "clear_image"}
  BY DEF Recorded, Imaged, Restoring
<1> QED BY <1>1, <1>2 DEF ReportInv, ReportKnown

\* The commit restores on.
LEMMA StillRestoring ==
  ASSUME ReportInv, pc \in Restoring, pc' \in Restoring, job'.rec = job.rec,
         job'.then = job.then, job'.admitted = job.admitted, job'.role = job.role,
         job'.sound => job.sound, disk'[Marker] = disk[Marker],
         job.role = "lock" => disk'[Project("manifest")] = disk[Project("manifest")]
  PROVE  ReportKnown'
<1>1. job.then # "acknowledge"
  BY DEF ReportInv, AdmittedInv, Restoring
<1>2. pc' \notin Recorded \cup {"recover", "clear", "clear_image", "mark_committed"}
  BY DEF Recorded, Imaged, Restoring
<1> QED BY <1>1, <1>2 DEF ReportInv, ReportKnown

\* An entry is done with; if no error stands, it is back.
LEMMA EntryRestored ==
  ASSUME ReportInv, pc \in Restoring, NEW ok \in BOOLEAN, Restored(ok),
         disk'[Marker] = disk[Marker],
         ok => disk'[Project(job.role)] = Was,
         job.role = "lock" => disk'[Project("manifest")] = disk[Project("manifest")]
  PROVE  ReportKnown'
<1>0. /\ job \in Job /\ job.role \in Roles /\ job.then # "acknowledge" /\ JournalAtHand
      /\ job.rec.before \in Generation
  BY DEF ReportInv, RollbackInv, Known, JournalInv, TypeInv, ControlOK, Job, AdmittedInv,
         Restoring, WithRecord, Places, Record
<1>1. CASE job.role = "manifest"
  <2> DEFINE s == IF ok THEN job.sound ELSE FALSE
  <2>1. pc' = "restore" /\ job' = [job EXCEPT !.role = "lock", !.sound = s]
    BY <1>1 DEF Restored
  <2>2. s => ok
    OBVIOUS
  <2> HIDE DEF s
  <2>3. /\ job'.rec = job.rec /\ job'.then = job.then /\ job'.admitted = job.admitted
        /\ job'.sound = s
    BY <1>0, <2>1 DEF Job
  <2>4. job'.sound => disk'[Project("manifest")] = job.rec.before["manifest"]
    BY <1>1, <2>2, <2>3 DEF Was
  <2>5. pc' \notin Recorded \cup {"recover", "clear", "clear_image", "mark_committed"}
    BY <2>1 DEF Recorded, Imaged
  <2> QED BY <1>0, <2>1, <2>3, <2>4, <2>5 DEF ReportInv, ReportKnown
<1>2. CASE job.role = "lock" /\ job.sound /\ ok
  <2>1. pc' = "clear" /\ job' = job
    BY <1>2 DEF Restored, Goto
  <2>2. ProjectOf(disk') = job.rec.before
    <3>1. /\ disk'[Project("manifest")] = job.rec.before["manifest"]
          /\ disk'[Project("lock")] = job.rec.before["lock"]
      BY <1>2 DEF ReportInv, ReportKnown, Was
    <3> QED BY <1>0, <3>1 DEF ProjectOf, Generation, Roles
  <2>3. job.then = "report" => ProjectOf(disk') = job.admitted
    BY <1>0, <2>2 DEF ReportInv, ReportKnown, JournalAtHand, Journaled
  <2>4. pc' \notin Recorded \cup Restoring \cup {"recover", "clear_image", "mark_committed"}
    BY <2>1 DEF Recorded, Imaged, Restoring
  <2> QED BY <1>0, <2>1, <2>3, <2>4 DEF ReportKnown
<1>3. CASE job.role = "lock" /\ ~(job.sound /\ ok)
  <2>1. pc' = "idle" /\ job' = NoJob
    BY <1>0, <1>3, ReturnJob DEF Restored
  <2> QED BY <2>1, NothingReported DEF Recorded, Imaged, Restoring
<1> QED BY <1>0, <1>1, <1>2, <1>3 DEF Roles

\* A disk without a journal yields its own generation.
LEMMA YieldsItself ==
  ASSUME NEW d, d[Marker] = Absent PROVE Yields(d) = ProjectOf(d)
BY DEF Yields

\* Moves of one entry leave the other one.
LEMMA ManifestStays ==
  ASSUME job.role = "lock", job.rec.history \in Histories,
         NEW from \in Moving(job.rec.history, job.role),
         NEW to \in Moving(job.rec.history, job.role), Moved(from, to)
  PROVE  disk'[Project("manifest")] = disk[Project("manifest")]
BY MoveFrame DEF Roles

LEMMA RecoveryReport ==
  ASSUME InOrder, ReportInv, TypeInv', Recovery
  PROVE  ReportKnown'
<1>0. /\ RollbackInv /\ TypeInv /\ job \in Job /\ job.role \in Roles /\ disk \in media
      /\ JournalAtHand /\ RestoreKnown /\ AdmittedInv /\ ReportKnown
      /\ pc \in WithRecord => job.rec \in Record /\ job.rec.history \in Histories
      /\ pc \in Retaining => recoveries \in Recoveries
      /\ pc # "idle" => job.then # "stop"
      /\ job.then \in {"stop", "admit", "commit", "report", "acknowledge"}
      /\ \A r \in Roles : Project(r) \in Entry
      /\ "manifest" \in Roles
  BY EntryFacts DEF ReportInv, RollbackInv, JournalInv, TypeInv, DiskOK, ControlOK, Job,
                    Known, Record, Roles
<1>1. ASSUME pc \in Restoring, UNCHANGED disk, NEW ok \in BOOLEAN, Restored(ok),
             ok => Current = Was
      PROVE  ReportKnown'
  BY <1>1, EntryRestored DEF Current
<1>2. ASSUME pc \in Restoring, UNCHANGED disk, NEW place \in Restoring,
             Goto(place) \/ Unsound(place)
      PROVE  ReportKnown'
  <2>1. job'.sound => job.sound
    BY <1>0, <1>2 DEF Goto, Unsound, Job
  <2>2. /\ pc' = place /\ job'.rec = job.rec /\ job'.role = job.role
        /\ job'.then = job.then /\ job'.admitted = job.admitted
    BY <1>0, <1>2, GotoLeads
  <2> QED BY <1>2, <2>1, <2>2, StillRestoring
<1>3. CASE Recover
  <2>1. UNCHANGED <<disk, media>> /\ pc = "recover" /\ job.then # "acknowledge"
    BY <1>0, <1>3 DEF Recover, Quiet, ReadFault, AdmittedInv
  <2>2. CASE Return(FALSE)
    BY <1>0, <2>2, ReturnJob, NothingReported DEF Recorded, Imaged, Restoring
  <2>3. CASE disk[Marker] = Absent /\ Return(TRUE)
    <3>1. job.then \in {"admit", "commit"}
      BY <1>0, <2>1, <2>3 DEF ReportKnown
    <3>2. \/ pc' = "idle" /\ job' = NoJob
          \/ pc' \in {"admit", "commit"} /\ job'.then = job.then
      BY <1>0, <2>3, <3>1, ReturnJob
    <3> QED BY <3>1, <3>2, NothingReported DEF Recorded, Imaged, Restoring
  <2>4. CASE Committed /\ Goto("clear")
    <3>1. pc' = "clear" /\ job'.then = job.then /\ job.then # "report"
      BY <2>4 DEF Committed, Goto
    <3> QED BY <2>1, <3>1, NothingReported DEF Recorded, Imaged, Restoring
  <2>5. ASSUME disk[Marker] # Absent, NEW role, NEW sound, RollBack(role, sound),
               role = "lock" => sound = FALSE
        PROVE  ReportKnown'
    <3>1. /\ pc' = "restore" /\ job'.then = job.then /\ job'.admitted = job.admitted
          /\ job'.role = role /\ job'.sound = sound
      BY <1>0, <2>5 DEF RollBack, Job
    <3>2. pc' \notin Recorded \cup {"recover", "clear", "clear_image", "mark_committed"}
      BY <3>1 DEF Recorded, Imaged
    <3> QED BY <1>0, <2>1, <2>5, <3>1, <3>2 DEF ReportKnown
  <2>6. \/ Return(FALSE)
        \/ disk[Marker] = Absent /\ Return(TRUE)
        \/ Committed /\ Goto("clear")
        \/ disk[Marker] # Absent /\ (RollBack("manifest", TRUE) \/ RollBack("lock", FALSE))
    BY <1>3 DEF Recover
  <2> QED BY <2>2, <2>3, <2>4, <2>5, <2>6
<1>4. CASE Restore
  <2>1. pc \in Restoring /\ UNCHANGED <<disk, media>> /\ pc = "restore"
    BY <1>4 DEF Restore, Restoring, Quiet, ReadFault
  <2>2. disk[OriginalEntry] \in {Absent, Was}
    BY <2>1, EntryReversible
       DEF ReportInv, Reversible, Untouched, Replaced, MovedAway, OriginalEntry, Was
  <2>3. \/ Restored(FALSE) \/ (Current = Was /\ Restored(TRUE))
        \/ pc' = "retain" /\ job' = [job EXCEPT !.parked = disk[OriginalEntry]]
        \/ Goto("unpark")
    BY <1>4, <2>2 DEF Restore
  <2>4. CASE pc' = "retain" /\ job' = [job EXCEPT !.parked = disk[OriginalEntry]]
    <3>1. /\ job'.rec = job.rec /\ job'.role = job.role /\ job'.sound = job.sound
          /\ job'.then = job.then /\ job'.admitted = job.admitted
      BY <1>0, <2>4 DEF Job
    <3> QED BY <2>1, <2>4, <3>1, StillRestoring DEF Restoring
  <2> QED BY <1>1, <1>2, <2>1, <2>3, <2>4 DEF Restoring
<1>5. CASE PutBack \/ StageImage \/ PublishImage
  BY <1>0, <1>5 DEF RestoreKnown, PutBack, StageImage, PublishImage
<1>6. CASE Retain
  <2>1. pc \in Restoring /\ UNCHANGED <<disk, media>>
    BY <1>6 DEF Retain, Restoring, Quiet, Fault
  <2>2. Restored(FALSE) \/ Goto("move_current")
    BY <1>6 DEF Retain
  <2> QED BY <1>1, <1>2, <2>1, <2>2 DEF Restoring
<1>7. CASE MoveCurrent
  <2> DEFINE from == Project(job.role)
             to == Recovered(recoveries)
  <2>1. /\ pc \in Restoring /\ job.rec.history \in Histories /\ to \in Entry /\ from # to
        /\ from \in Moving(job.rec.history, job.role) /\ to \in Moving(job.rec.history, job.role)
    BY <1>0, <1>7, EntryFacts, Distinct
       DEF MoveCurrent, Restoring, WithRecord, Retaining, Places, Removed, Moving
  <2>2. PICK o \in Outcomes \cup {"fail"} :
          /\ Rename(from, to, o)
          /\ Restored(FALSE) \/ Goto("verify_current") \/ Unsound("verify_current")
    BY <1>7 DEF MoveCurrent, Outcomes
  <2>3. CASE UNCHANGED <<disk, media>>
    BY <1>1, <1>2, <2>1, <2>2, <2>3 DEF Restoring
  <2>4. CASE Moved(from, to)
    <3>1. /\ disk'[Marker] = disk[Marker]
          /\ job.role = "lock" => disk'[Project("manifest")] = disk[Project("manifest")]
      BY <1>0, <2>1, <2>4, MoveFrame, ManifestStays
    <3>2. CASE Goto("verify_current") \/ Unsound("verify_current")
      <4>1. job'.sound => job.sound
        BY <1>0, <3>2 DEF Goto, Unsound, Job
      <4>2. /\ pc' = "verify_current" /\ job'.rec = job.rec /\ job'.role = job.role
            /\ job'.then = job.then /\ job'.admitted = job.admitted
        BY <1>0, <3>2, GotoLeads
      <4> QED BY <2>1, <3>1, <4>1, <4>2, StillRestoring DEF Restoring
    <3> QED BY <2>1, <2>2, <3>1, <3>2, EntryRestored
  <2> QED BY <1>0, <2>1, <2>2, <2>3, <2>4, RenameMoved
<1>8. CASE VerifyCurrent
  <2>1. /\ pc \in Restoring /\ UNCHANGED <<disk, media>> /\ pc = "verify_current"
    BY <1>8 DEF VerifyCurrent, Restoring, Quiet, ReadFault
  <2>2. \/ Unsound("return_current") \/ (Was = Absent /\ Restored(TRUE)) \/ Goto("unpark")
    BY <1>0, <1>8 DEF VerifyCurrent, RestoreKnown
  <2>3. Current = Absent
    BY <1>0, <2>1 DEF RestoreKnown, MovedAway, Current
  <2> QED BY <1>1, <1>2, <2>1, <2>2, <2>3 DEF Restoring
<1>9. CASE ReturnCurrent
  <2> DEFINE from == Recovered(recoveries)
             to == Project(job.role)
  <2>1. /\ pc \in Restoring /\ job.rec.history \in Histories /\ from \in Entry /\ from # to
        /\ from \in Moving(job.rec.history, job.role) /\ to \in Moving(job.rec.history, job.role)
    BY <1>0, <1>9, EntryFacts, Distinct
       DEF ReturnCurrent, Restoring, WithRecord, Retaining, Places, Removed, Moving
  <2>2. PICK o \in Outcomes \cup {"fail"} : Rename(from, to, o)
    BY <1>9 DEF ReturnCurrent
  <2>3. Restored(FALSE)
    BY <1>9 DEF ReturnCurrent
  <2>4. CASE UNCHANGED <<disk, media>>
    BY <1>1, <2>1, <2>3, <2>4
  <2>5. CASE Moved(from, to)
    <3>1. /\ disk'[Marker] = disk[Marker]
          /\ job.role = "lock" => disk'[Project("manifest")] = disk[Project("manifest")]
      BY <1>0, <2>1, <2>5, MoveFrame, ManifestStays
    <3> QED BY <2>1, <2>3, <3>1, EntryRestored
  <2> QED BY <1>0, <2>1, <2>2, <2>4, <2>5, RenameMoved
<1>10. CASE Unpark
  <2> DEFINE from == OriginalEntry
             to == Project(job.role)
  <2>1. /\ pc \in Restoring /\ pc = "unpark"
        /\ job.rec.history \in Histories /\ from \in Entry /\ from # to
        /\ from \in Moving(job.rec.history, job.role) /\ to \in Moving(job.rec.history, job.role)
    BY <1>0, <1>10, EntryFacts, Distinct
       DEF Unpark, Restoring, WithRecord, Places, OriginalEntry, Moving
  <2>2. PICK o \in Outcomes \cup {"fail"} : Rename(from, to, o) /\ Restored(o = "ok")
    BY <1>10 DEF Unpark
  <2>3. MovedAway(disk, job.rec, job.role)
    BY <1>0, <2>1 DEF RestoreKnown
  <2>4. CASE o = "fail" /\ UNCHANGED <<disk, media>>
    BY <1>1, <2>1, <2>2, <2>4
  <2>5. CASE Moved(from, to)
    <3>1. /\ disk'[Marker] = disk[Marker]
          /\ job.role = "lock" => disk'[Project("manifest")] = disk[Project("manifest")]
          /\ disk'[Project(job.role)] = Was
      <4>1. disk'[Project(job.role)] = Was
        BY <2>3, <2>5 DEF Moved, MovedAway, OriginalEntry, Was
      <4> QED BY <1>0, <2>1, <2>5, <4>1, MoveFrame, ManifestStays
    <3> QED BY <2>1, <2>2, <3>1, EntryRestored
  <2> QED BY <1>0, <2>1, <2>2, <2>4, <2>5, RenameMoved
<1>11. ASSUME NEW e \in Entry, \A r \in Roles : e # Project(r), Put(e, Absent)
       PROVE  ProjectOf(disk') = ProjectOf(disk)
  BY <1>0, <1>11 DEF Put, ProjectOf
<1>12. CASE Clear
  <2>1. PICK o \in Outcomes :
          /\ Write(Marker, Absent, o)
          /\ \/ o = "ok" /\ pc' = "clear_image" /\ job' = [job EXCEPT !.role = "manifest"]
             \/ Return(FALSE)
    BY <1>12 DEF Clear, Remove
  <2>2. CASE Return(FALSE)
    BY <1>0, <2>2, ReturnJob, NothingReported DEF Recorded, Imaged, Restoring
  <2>3. CASE o = "ok" /\ pc' = "clear_image" /\ job' = [job EXCEPT !.role = "manifest"]
    <3>1. /\ job'.then = job.then /\ job'.want = job.want /\ job'.admitted = job.admitted
      BY <1>0, <2>3 DEF Job
    <3>2. Put(Marker, Absent) /\ media' = {disk'}
      BY <2>1, <2>3, WritePut, EntryFacts
    <3>3. ProjectOf(disk') = ProjectOf(disk)
      BY <1>11, <3>2, EntryFacts, Distinct
    <3>4. \A d \in media' : Yields(d) = ProjectOf(disk)
      BY <3>2, <3>3, YieldsItself DEF Put
    <3>5. pc = "clear" /\ pc' \notin Recorded \cup Restoring \cup {"recover", "mark_committed"}
      BY <1>12, <2>3 DEF Clear, Recorded, Imaged, Restoring
    <3> QED BY <1>0, <2>3, <3>1, <3>3, <3>4, <3>5 DEF ReportKnown
  <2> QED BY <2>1, <2>2, <2>3
<1>13. CASE ClearImage
  <2>1. PICK o \in Outcomes : Write(Before(job.role), Absent, o)
    BY <1>13 DEF ClearImage, Remove
  <2>2. /\ media' \subseteq media \cup {disk'} /\ disk'[Marker] = Absent
        /\ ProjectOf(disk') = ProjectOf(disk) /\ pc = "clear_image"
    <3>1. disk[Marker] = Absent /\ pc = "clear_image"
      BY <1>0, <1>13 DEF ClearImage, AdmittedInv, Unmarked
    <3>2. CASE UNCHANGED <<disk, media>>
      BY <3>1, <3>2
    <3>3. CASE Put(Before(job.role), Absent) /\ media' \subseteq media \cup {disk'}
      <4>1. disk'[Marker] = Absent
        BY <1>0, <3>1, <3>3, EntryFacts, Distinct DEF Put
      <4> QED BY <1>0, <1>11, <3>1, <3>3, <4>1, EntryFacts, Distinct
    <3> QED BY <1>0, <2>1, <3>2, <3>3, WritePut, EntryFacts
  <2>3. \/ /\ pc' = pc /\ job'.then = job.then /\ job'.want = job.want
           /\ job'.admitted = job.admitted
        \/ Return(TRUE)
    BY <1>0, <1>13 DEF ClearImage, Job
  <2>4. Yields(disk') = ProjectOf(disk)
    BY <2>2, YieldsItself
  <2>5. CASE /\ pc' = pc /\ job'.then = job.then /\ job'.want = job.want
             /\ job'.admitted = job.admitted
    <3>1. pc' \notin Recorded \cup Restoring \cup {"recover", "mark_committed"}
      BY <2>2, <2>5 DEF Recorded, Imaged, Restoring
    <3> QED BY <1>0, <2>2, <2>4, <2>5, <3>1 DEF ReportKnown
  <2>6. CASE Return(TRUE)
    <3>1. \/ pc' = "idle" /\ job' = NoJob
          \/ pc' \in {"admit", "commit"} /\ job'.then \in {"admit", "commit"}
      BY <1>0, <2>2, <2>6 DEF Return, Finish, Job, NoJob
    <3> QED BY <3>1, NothingReported DEF Recorded, Imaged, Restoring
  <2> QED BY <2>3, <2>5, <2>6
<1> QED BY <1>3, <1>4, <1>5, <1>6, <1>7, <1>8, <1>9, <1>10, <1>12, <1>13 DEF Recovery
LEMMA CommitmentReport ==
  ASSUME InOrder, ReportInv, TypeInv', Commitment
  PROVE  ReportKnown'
<1>0. /\ RollbackInv /\ TypeInv /\ job \in Job /\ job.role \in Roles /\ disk \in media
      /\ JournalAtHand /\ AdmittedInv /\ ReportKnown
      /\ pc \in WithRecord => job.rec \in Record
      /\ \A r \in Roles : Project(r) \in Entry
  BY EntryFacts DEF ReportInv, RollbackInv, JournalInv, TypeInv, DiskOK, ControlOK, Job,
                    Known
<1>1. ASSUME NEW a, Finish(a) PROVE ReportKnown'
  <2>1. pc' = "idle" /\ job' = NoJob
    BY <1>1 DEF Finish
  <2> QED BY <2>1, NothingReported DEF Recorded, Imaged, Restoring
<1>2. ASSUME pc \in Recorded, NEW place \in Recorded \ {"mark_committed"}, NEW role,
             Goto(place) \/ StepTo(place, role)
      PROVE  ReportKnown'
  BY <1>0, <1>2, GotoLeads, StepToLeads, StillRecorded
<1>3. CASE Admit
  <2>1. CASE Finish("refused")
    BY <1>1, <2>1
  <2>2. CASE ~Finish("refused")
    <3>1. PICK m \in GraphBytes \cup {disk[Project("manifest")]}, l \in GraphBytes :
            job' = [NoJob EXCEPT !.then = "commit", !.admitted = ProjectOf(disk),
                      !.want = [r \in Roles |-> IF r = "lock" THEN l ELSE m]]
      BY <1>3, <2>2 DEF Admit
    <3>2. job'.then = "commit" /\ pc' = "recover"
      BY <1>3, <2>2, <3>1 DEF Admit, NoJob
    <3> QED BY <3>2, NothingReported DEF Recorded, Imaged, Restoring
  <2> QED BY <2>1, <2>2
<1>4. CASE Commit
  <2>1. CASE Finish("refused") \/ Finish("unchanged")
    BY <1>1, <2>1
  <2>2. CASE ~(Finish("refused") \/ Finish("unchanged"))
    <3> DEFINE rec == [before |-> ProjectOf(disk), after |-> job.want,
                       history |-> histories + 1]
               role == IF job.want["manifest"] = ProjectOf(disk)["manifest"]
                       THEN "lock" ELSE "manifest"
    <3>1. pc' = "stage" /\ job' = [job EXCEPT !.rec = rec, !.role = role]
      BY <1>4, <2>2 DEF Commit
    <3>2. rec.after = job.want
      OBVIOUS
    <3> HIDE DEF rec, role
    <3>3. job'.rec = rec /\ job'.then = job.then /\ job'.want = job.want
      BY <1>0, <3>1 DEF Job
    <3>4. job.then = "commit"
      BY <1>0, <1>4 DEF Commit, TypeInv, ControlOK
    <3>5. pc' \notin Restoring \cup {"recover", "clear", "clear_image", "mark_committed"}
      BY <3>1 DEF Restoring
    <3> QED BY <3>2, <3>3, <3>4, <3>5 DEF ReportKnown
  <2> QED BY <2>1, <2>2
<1>5. CASE Stage
  <2>1. Finish("refused") \/ StepTo("stage", "lock") \/ StepTo("save_image", "manifest")
    BY <1>0, <1>5 DEF Stage, Roles
  <2> QED BY <1>1, <1>2, <1>5, <2>1 DEF Stage, Recorded
<1>6. CASE SaveImage
  <2>1. Finish("refused") \/ StepTo("save_image", "lock") \/ Goto("mark_pending")
    BY <1>0, <1>6 DEF SaveImage, Roles
  <2> QED BY <1>1, <1>2, <1>6, <2>1 DEF SaveImage, Recorded, Imaged
<1>7. CASE MarkPending
  <2>1. \/ Finish("refused") \/ Goto("abort")
        \/ \E role : \E place \in {"park", "publish"} : StepTo(place, role)
    BY <1>7 DEF MarkPending, LockStep, Outcomes
  <2> QED BY <1>1, <1>2, <1>7, <2>1 DEF MarkPending, Recorded, Imaged
<1>8. CASE Park \/ VerifyParked \/ Publish
  <2>1. pc \in Recorded
    BY <1>8 DEF Park, VerifyParked, Publish, Recorded, Imaged
  <2>2. \E role : \E place \in {"park", "verify_parked", "publish", "verify_generation",
                                "abort"} :
           Goto(place) \/ StepTo(place, role)
    BY <1>0, <1>8 DEF Park, VerifyParked, Publish, LockStep, Roles
  <2> QED BY <1>2, <2>1, <2>2 DEF Recorded, Imaged
<1>9. CASE VerifyGeneration
  <2>1. pc \in Recorded /\ UNCHANGED <<disk, media>>
    BY <1>9 DEF VerifyGeneration, Recorded, Imaged, Quiet, ReadFault
  <2>2. CASE Goto("abort")
    BY <1>2, <2>1, <2>2 DEF Recorded, Imaged
  <2>3. CASE ProjectOf(disk) = job.rec.after /\ Goto("mark_committed")
    <3>1. pc' = "mark_committed" /\ job' = job
      BY <2>3 DEF Goto
    <3>2. job.then = "commit" /\ job.rec.after = job.want
      BY <1>0, <2>1 DEF AdmittedInv, ReportKnown
    <3>3. pc' \notin Restoring \cup {"recover", "clear", "clear_image"}
      BY <3>1 DEF Restoring
    <3> QED BY <2>1, <2>3, <3>1, <3>2, <3>3 DEF ReportKnown
  <2>4. Goto("abort") \/ (ProjectOf(disk) = job.rec.after /\ Goto("mark_committed"))
    <3>1. \/ Goto("abort")
          \/ Goto(IF ProjectOf(disk) = job.rec.after THEN "mark_committed" ELSE "abort")
      BY <1>9 DEF VerifyGeneration
    <3>2. CASE ProjectOf(disk) = job.rec.after
      BY <3>1, <3>2
    <3>3. CASE ProjectOf(disk) # job.rec.after
      BY <3>1, <3>3
    <3> QED BY <3>2, <3>3
  <2> QED BY <2>2, <2>3, <2>4
<1>10. CASE MarkCommitted
  <2>1. PICK o \in Outcomes :
          /\ Write(Marker, MarkerOf("committed"), o)
          /\ \/ Goto("abort")
             \/ o = "ok" /\ pc' = "clear" /\ job' = [job EXCEPT !.then = "acknowledge"]
    BY <1>10 DEF MarkCommitted
  <2>2. pc = "mark_committed" /\ pc \in Recorded
    BY <1>10 DEF MarkCommitted, Recorded, Imaged
  <2>3. CASE Goto("abort")
    BY <1>2, <2>2, <2>3 DEF Recorded, Imaged
  <2>4. CASE o = "ok" /\ pc' = "clear" /\ job' = [job EXCEPT !.then = "acknowledge"]
    <3>1. job'.then = "acknowledge" /\ job'.want = job.want
      BY <1>0, <2>4 DEF Job
    <3>2. Put(Marker, MarkerOf("committed")) /\ media' = {disk'}
      BY <2>1, <2>4, WritePut, EntryFacts
    <3>3. ProjectOf(disk') = job.want
      <4>1. \A r \in Roles : disk'[Project(r)] = disk[Project(r)]
        BY <1>0, <3>2, Distinct DEF Put
      <4> QED BY <1>0, <2>2, <4>1 DEF ReportKnown, ProjectOf
    <3>4. Yields(disk') = job.want
      <4>1. job.rec.after = job.want
        BY <1>0, <2>2 DEF ReportKnown
      <4>2. disk'[Marker].phase = "committed" /\ disk'[Marker].after = job.rec.after
        BY <3>2 DEF Put, MarkerOf
      <4> QED BY <3>3, <4>1, <4>2 DEF Yields
    <3>5. pc' \notin Recorded \cup Restoring \cup {"recover", "mark_committed", "clear_image"}
      BY <2>4 DEF Recorded, Imaged, Restoring
    <3> QED BY <3>1, <3>2, <3>3, <3>4, <3>5 DEF ReportKnown
  <2> QED BY <2>1, <2>3, <2>4
<1>11. CASE Abort
  <2>1. PICK o \in Outcomes : Write(Marker, MarkerOf("pending"), o)
    BY <1>11 DEF Abort
  <2>2. /\ pc = "abort" /\ pc' = "recover" /\ job' = [job EXCEPT !.then = "report"]
    BY <1>11 DEF Abort
  <2>3. job'.then = "report" /\ job'.admitted = job.admitted
    BY <1>0, <2>2 DEF Job
  <2>4. /\ job.rec.before = job.admitted
        /\ disk[Marker] # Absent /\ disk[Marker].before = job.admitted
    BY <1>0, <2>2 DEF JournalAtHand, Journaled, AdmittedInv, Recorded, Imaged
  <2>5. MarkerOf("pending") # Absent /\ MarkerOf("pending").before = job.admitted
    <3>1. pc \in WithRecord
      BY <2>2 DEF WithRecord, Places
    <3> QED BY <1>0, <2>4, <3>1, RecordFacts, AbsentAssumption DEF TypeInv, MarkerOf
  <2>6. disk'[Marker] # Absent /\ disk'[Marker].before = job.admitted
    BY <2>1, <2>4, <2>5, MarkerWrite
  <2>7. pc' \notin Recorded \cup Restoring \cup {"mark_committed", "clear", "clear_image"}
    BY <2>2 DEF Recorded, Imaged, Restoring
  <2> QED BY <2>2, <2>3, <2>6, <2>7 DEF ReportKnown
<1> QED BY <1>3, <1>4, <1>5, <1>6, <1>7, <1>8, <1>9, <1>10, <1>11 DEF Commitment

LEMMA ReportStep ==
  ASSUME OrderedMetadata, NoEditor PROVE ReportInv /\ [Next]_vars => ReportInv'
<1>o. InOrder
  BY DEF InOrder
<1> USE <1>o
<1> SUFFICES ASSUME ReportInv, [Next]_vars PROVE ReportInv'
  OBVIOUS
<1>1. RollbackInv' /\ AdmittedInv' /\ TypeInv'
  <2>1. RollbackInv'
    BY RollbackStep DEF ReportInv
  <2>2. TypeInv /\ AdmittedInv
    BY DEF ReportInv, RollbackInv, JournalInv
  <2> QED BY <2>1, <2>2, AdmittedStep, TypeStep
<1>2. CASE UNCHANGED vars
  BY <1>1, <1>2 DEF ReportInv, ReportKnown, vars
<1>3. CASE Begin \/ Crash \/ PowerLoss
  <2>1. \/ pc' = "recover" /\ job'.then = "admit"
        \/ pc' = "idle" /\ job' = NoJob
    BY <1>3 DEF Begin, Crash, PowerLoss, Finish, NoJob
  <2> QED BY <1>1, <2>1, NothingReported DEF ReportInv, Recorded, Imaged, Restoring
<1>4. ~Editor
  BY DEF NoEditor, Editor, EditorSaves, EditorWritesOpenFile, EditorRemoves
<1>5. CASE Recovery
  BY <1>1, <1>5, RecoveryReport DEF ReportInv
<1>6. CASE Commitment
  BY <1>1, <1>6, CommitmentReport DEF ReportInv
<1> QED BY <1>2, <1>3, <1>4, <1>5, <1>6 DEF Next, Holder

LEMMA ReportInvariant ==
  ASSUME OrderedMetadata, NoEditor PROVE Spec => []ReportInv
<1>1. Init => ReportInv
  <2>1. Init => AdmittedInv /\ ReportKnown
    BY DEF Init, AdmittedInv, ReplacesWhatWasAdmitted, ReportKnown, NoJob, Unmarked,
           Recorded, Imaged, Restoring
  <2> QED BY <2>1, RollbackInit DEF ReportInv
<1> QED BY <1>1, ReportStep, PTL DEF Spec

\* Only clearing a journal acknowledges, and only a recovery that finds none, or
\* has cleared it, reports an abort.
LEMMA Reports ==
  ASSUME ReportInv, Next, NoEditor, outcome' # outcome,
         outcome' \in {"committed", "aborted"}
  PROVE  \/ /\ outcome' = "committed" /\ job.then = "acknowledge"
            /\ Clear \/ ClearImage
         \/ /\ outcome' = "aborted" /\ job.then = "report"
            /\ ClearImage
<1>0. /\ ~Editor
      /\ job \in Job /\ job.role \in Roles /\ AdmittedInv /\ ReportKnown /\ RestoreKnown
  BY DEF NoEditor, Editor, EditorSaves, EditorWritesOpenFile, EditorRemoves, ReportInv,
         RollbackInv, Known, JournalInv, TypeInv, ControlOK, Job
<1>1. /\ \A a : Finish(a) => outcome' = a
      /\ \A place, role : Goto(place) \/ Unsound(place) \/ StepTo(place, role)
                            => outcome' = outcome
  BY DEF Finish, Goto, Unsound, StepTo
<1>2. Return(FALSE) => outcome' \notin {"committed", "aborted"} \/ job.then = "acknowledge"
  BY DEF Return, Finish
<1>3. Return(TRUE) => \/ outcome' = "committed" /\ job.then = "acknowledge"
                      \/ outcome' = "aborted" /\ job.then = "report"
                      \/ outcome' = outcome
  BY DEF Return, Finish
<1>4. ASSUME NEW ok, Restored(ok) PROVE job.then = "acknowledge"
  BY <1>1, <1>2, <1>4 DEF Restored
<1>5. ~(Begin \/ Crash \/ PowerLoss)
  BY DEF Begin, Crash, PowerLoss, Finish
<1>6. ~Commitment
  <2>1. ~Admit /\ ~Commit
    BY DEF Admit, Commit, Finish
  <2>2. ~Stage /\ ~SaveImage /\ ~MarkPending
    <3>1. Stage => Finish("refused") \/ StepTo("stage", "lock")
                                     \/ StepTo("save_image", "manifest")
      BY <1>0 DEF Stage, Roles
    <3>2. SaveImage => Finish("refused") \/ StepTo("save_image", "lock")
                                         \/ Goto("mark_pending")
      BY <1>0 DEF SaveImage, Roles
    <3>3. MarkPending => Finish("refused") \/ Goto("abort") \/ StepTo("park", "manifest")
                           \/ LockStep
      BY DEF MarkPending, Outcomes
    <3> QED BY <1>1, <3>1, <3>2, <3>3 DEF LockStep
  <2>3. ~Park /\ ~VerifyParked /\ ~Publish
    <3>1. Park => UNCHANGED outcome
      BY DEF Park, Goto
    <3>2. VerifyParked => UNCHANGED outcome
      BY DEF VerifyParked, Goto
    <3>3. Publish => Goto("abort") \/ LockStep \/ Goto("verify_generation")
      BY <1>0 DEF Publish, Roles
    <3> QED BY <1>1, <3>1, <3>2, <3>3 DEF LockStep
  <2>4. ~VerifyGeneration /\ ~MarkCommitted /\ ~Abort
    BY DEF VerifyGeneration, MarkCommitted, Abort, Goto
  <2> QED BY <2>1, <2>2, <2>3, <2>4 DEF Commitment
<1>7. CASE Recover
  <2>1. \A role, sound : RollBack(role, sound) => outcome' = outcome
    BY DEF RollBack
  <2>2. pc = "recover" /\ (Return(FALSE) \/ (disk[Marker] = Absent /\ Return(TRUE)))
    BY <1>1, <1>7, <2>1 DEF Recover
  <2>3. job.then # "acknowledge" /\ (disk[Marker] = Absent => job.then # "report")
    BY <1>0, <2>2 DEF AdmittedInv, ReportKnown
  <2> QED BY <1>2, <1>3, <2>2, <2>3
<1>8. CASE \/ Restore \/ PutBack \/ Retain \/ MoveCurrent \/ VerifyCurrent
           \/ ReturnCurrent \/ Unpark \/ StageImage \/ PublishImage
  <2>1. pc \notin {"clear", "clear_image"}
    BY <1>8 DEF Restore, PutBack, Retain, MoveCurrent, VerifyCurrent, ReturnCurrent,
                Unpark, StageImage, PublishImage
  <2>2. job.then = "acknowledge"
    <3>1. CASE Restore
      BY <1>1, <1>4, <3>1 DEF Restore
    <3>2. CASE Retain \/ MoveCurrent
      BY <1>1, <1>4, <3>2 DEF Retain, MoveCurrent, Outcomes
    <3>3. CASE VerifyCurrent \/ StageImage
      BY <1>1, <1>4, <3>3 DEF VerifyCurrent, StageImage
    <3>4. CASE PutBack \/ ReturnCurrent \/ Unpark \/ PublishImage
      BY <1>4, <3>4 DEF PutBack, ReturnCurrent, Unpark, PublishImage
    <3> QED BY <1>8, <3>1, <3>2, <3>3, <3>4
  <2> QED BY <1>0, <2>1, <2>2 DEF AdmittedInv
<1>9. CASE Clear
  BY <1>2, <1>9 DEF Clear, Return, Finish
<1>10. CASE ClearImage
  BY <1>3, <1>10 DEF ClearImage
<1> QED BY <1>0, <1>5, <1>6, <1>7, <1>8, <1>9, <1>10 DEF Next, Holder, Recovery

\* The disk that clearing a journal leaves yields what it yielded before.
LEMMA ClearingYields ==
  ASSUME InOrder, ReportInv, Clear \/ ClearImage
  PROVE  /\ media' \subseteq media \cup {disk'}
         /\ Yields(disk') \in {Yields(disk), ProjectOf(disk)}
<1>0. /\ disk \in media /\ job.role \in Roles
  BY DEF ReportInv, RollbackInv, JournalInv, TypeInv, DiskOK, ControlOK, Job
<1>1. PICK e \in {Marker, Before(job.role)}, o \in Outcomes : Write(e, Absent, o)
  BY DEF Clear, ClearImage, Remove
<1>2. e \in Entry /\ \A r \in Roles : Project(r) \in Entry \ {e}
  BY <1>0, <1>1, EntryFacts, Distinct
<1>3. CASE UNCHANGED disk
  BY <1>1, <1>2, <1>3, WritePut
<1>4. CASE Put(e, Absent)
  <2>1. ProjectOf(disk') = ProjectOf(disk)
    BY <1>2, <1>4 DEF Put, ProjectOf
  <2>2. disk'[Marker] \in {disk[Marker], Absent}
    BY <1>4, EntryFacts DEF Put
  <2>3. Yields(disk') \in {Yields(disk), ProjectOf(disk)}
    BY <2>1, <2>2 DEF Yields
  <2> QED BY <1>1, <1>2, <2>3, WritePut
<1> QED BY <1>1, <1>2, <1>3, <1>4, WritePut

\* A commit is reported only when every disk a power loss may leave yields the
\* new generation, and so also when clearing its journal has failed.
THEOREM AcknowledgedDurable ==
  ASSUME OrderedMetadata, NoEditor PROVE Spec => AcknowledgedIsDurable
<1>1. ASSUME ReportInv, ReportInv', Next, outcome # "committed", outcome' = "committed"
      PROVE  Outlook' = {job.want}
  <2>1. job.then = "acknowledge" /\ (Clear \/ ClearImage)
    BY <1>1, Reports
  <2>2. ProjectOf(disk) = job.want /\ \A d \in media : Yields(d) = job.want
    BY <1>1, <2>1 DEF ReportInv, ReportKnown
  <2>3. disk \in media /\ disk' \in media'
    BY <1>1 DEF ReportInv, RollbackInv, JournalInv, TypeInv, DiskOK
  <2>4. \A d \in media' : Yields(d) = job.want
    BY <1>1, <2>1, <2>2, <2>3, ClearingYields DEF InOrder
  <2> QED BY <2>3, <2>4 DEF Outlook
<1>2. ASSUME ReportInv, ReportInv', [Next]_vars
      PROVE  [(outcome # "committed" /\ outcome' = "committed") => Outlook' = {job.want}]_vars
  BY <1>1, <1>2 DEF vars
<1> QED BY <1>2, ReportInvariant, PTL DEF Spec, AcknowledgedIsDurable

\* A commit that reports a completed abort leaves the generation it was to
\* replace, on every disk a power loss may leave, even if its committed marker
\* was visible and the abort could not be recorded.
THEOREM AbortedKeepsPrevious ==
  ASSUME OrderedMetadata, NoEditor PROVE Spec => AbortedKeepsGeneration
<1>1. ASSUME ReportInv, ReportInv', Next, outcome # "aborted", outcome' = "aborted"
      PROVE  Outlook' = {job.admitted}
  <2>1. job.then = "report" /\ ClearImage
    BY <1>1, Reports
  <2>2. ProjectOf(disk) = job.admitted /\ \A d \in media : Yields(d) = job.admitted
    BY <1>1, <2>1 DEF ReportInv, ReportKnown, ClearImage
  <2>3. disk \in media /\ disk' \in media'
    BY <1>1 DEF ReportInv, RollbackInv, JournalInv, TypeInv, DiskOK
  <2>4. \A d \in media' : Yields(d) = job.admitted
    BY <1>1, <2>1, <2>2, <2>3, ClearingYields DEF InOrder
  <2> QED BY <2>3, <2>4 DEF Outlook
<1>2. ASSUME ReportInv, ReportInv', [Next]_vars
      PROVE  [(outcome # "aborted" /\ outcome' = "aborted") => Outlook' = {job.admitted}]_vars
  BY <1>1, <1>2 DEF vars
<1> QED BY <1>2, ReportInvariant, PTL DEF Spec, AbortedKeepsGeneration
-----------------------------------------------------------------------------
(* The disks a power loss may leave *)

\* Every entry can be read.
Readable == MaxReadFaults = 0

Marked(d) == d[Marker] # Absent

\* All disks a power loss may leave yield the generation g.
Settled(g) == \A d \in media : Yields(d) = g

\* A journal that is taken back stands for what was before on some disk.
Anchored == \E d \in media : Marked(d) /\ Yields(d) = d[Marker].before

\* The disks agree on the one journal, and yield what it replaces or its
\* replacement.
OneJournal ==
  \A d, e \in media : Marked(e) =>
    /\ Yields(d) \in {e[Marker].before, e[Marker].after}
    /\ Marked(d) => /\ d[Marker].before = e[Marker].before
                    /\ d[Marker].after = e[Marker].after

\* A journal changes something, and an entry it does not change is in place
\* when it is committed.
Changing(d) ==
  Marked(d) => /\ d[Marker].before # d[Marker].after
               /\ d[Marker].phase = "committed" =>
                    \A r \in Roles : d[Marker].before[r] = d[Marker].after[r]
                                       => d[Project(r)] = d[Marker].after[r]

\* The places at which a replacement is open although every disk yields the
\* same generation, and those at which the last change is durable.
Opening == {"mark_pending", "park", "verify_parked", "publish", "verify_generation",
            "mark_committed"}
Durable == Opening \cup {"save_image"}

\* What the place of the lock holder says of the journal.
PlacesKnown ==
  /\ pc # "return_current"
  /\ pc \in {"retain", "move_current", "verify_current"} => Will # Was
  /\ pc \in Durable => media = {disk}
  /\ pc \in Opening \ {"mark_pending"} => disk[Marker].phase = "pending"
  /\ pc \in Recorded => job.rec.before # job.rec.after
  /\ pc \in Restoring \cup {"abort"} => Anchored
  /\ (pc = "recover" /\ job.then = "report") => Anchored
  /\ pc = "clear" => Yields(disk) = ProjectOf(disk)

OutlookInv == /\ OneJournal /\ \A d \in media : Changing(d)
              /\ Anchored \/ Settled(Yields(disk))
              /\ PlacesKnown

AtomicInv == ReportInv /\ SpentOK /\ OutlookInv
-----------------------------------------------------------------------------
(* The refinement mapping *)

\* When all disks agree, theirs is the current generation.
LEMMA SettledView ==
  ASSUME NEW g, media # {}, Settled(g)
  PROVE  /\ Outlook = {g} /\ CurrentGeneration = g
         /\ OpenGeneration = IF pc \in Opening THEN job.rec.after ELSE None
<1>1. Outlook = {g}
  BY DEF Outlook, Settled
<1>2. Cardinality(Outlook) = 1
  BY <1>1, FS_Singleton
<1>3. CurrentGeneration = g
  BY <1>1, <1>2 DEF CurrentGeneration
<1> QED BY <1>1, <1>3 DEF OpenGeneration, Opening

\* When they do not, the journal is open, and what it replaces is current.
LEMMA SplitView ==
  ASSUME OneJournal, NEW e \in media, Marked(e), Yields(e) = e[Marker].before,
         NEW d \in media, Yields(d) # e[Marker].before
  PROVE  /\ CurrentGeneration = e[Marker].before
         /\ OpenGeneration = e[Marker].after
<1> DEFINE b == e[Marker].before
           a == e[Marker].after
<1>1. Outlook = {b, a} /\ b # a
  BY DEF Outlook, OneJournal
<1>2. Cardinality(Outlook) # 1
  <2>1. IsFiniteSet({b} \cup {a}) /\ {b} \cup {a} = {b, a}
    BY FS_Singleton, FS_AddElement
  <2>2. ~ \E x : {b, a} = {x}
    BY <1>1
  <2> QED BY <1>1, <2>1, <2>2, FS_Singleton
<1>3. CurrentGeneration = b
  <2> DEFINE c == CHOOSE x \in media : x[Marker] # Absent /\ Yields(x) = x[Marker].before
  <2>1. c \in media /\ Marked(c)
    BY DEF Marked
  <2>2. c[Marker].before = b
    BY <2>1 DEF OneJournal
  <2> QED BY <1>2, <2>2 DEF CurrentGeneration
<1>4. OpenGeneration = CHOOSE g \in Outlook : g # b
  BY <1>1, <1>3 DEF OpenGeneration
<1> HIDE DEF b, a
<1> QED BY <1>1, <1>3, <1>4 DEF b, a
-----------------------------------------------------------------------------
(* What one operation does to the outlook *)

\* A power loss leaves the new disk, or one that it could leave before.
Exposing == media' \in {media \cup {disk'}, {disk'}}

\* The journal of d, if there is one, is that of c.
JournalOf(d, c) == Marked(d) => /\ Marked(c)
                                /\ d[Marker].before = c[Marker].before
                                /\ d[Marker].after = c[Marker].after

\* The disk yields what its journal takes back.
YieldsBefore(d) == Marked(d) /\ Yields(d) = d[Marker].before

\* The new disk yields the generation that the old one does, or the one that
\* a journal brings back which has already done so on another disk.
Continues ==
  /\ Exposing /\ Changing(disk') /\ JournalOf(disk', disk)
  /\ Yields(disk') = Yields(disk) \/ (Anchored /\ YieldsBefore(disk'))

LEMMA WriteMedia ==
  ASSUME OrderedMetadata, disk \in media, NEW e, NEW c, NEW o, Write(e, c, o)
  PROVE  /\ Exposing /\ (o = "ok" => media' = {disk'})
         /\ o = "seen" => media' = media \cup {disk'}
<1> DEFINE w == [x \in {e} |-> c]
<1>1. Perform(w, o)
  BY DEF Write
<1> HIDE DEF w
<1> QED BY <1>1 DEF Perform, Exposed, Flushed, Exposing

LEMMA RenameMedia ==
  ASSUME OrderedMetadata, disk \in media, NEW from, NEW to, NEW o, Rename(from, to, o)
  PROVE  Exposing /\ (o = "ok" => media' = {disk'})
<1>1. CASE UNCHANGED <<disk, media, spent>> /\ o = "fail"
  BY <1>1 DEF Exposing
<1>2. CASE Perform([x \in {from, to} |-> IF x = to THEN disk[from] ELSE Absent], o)
  <2> DEFINE w == [x \in {from, to} |-> IF x = to THEN disk[from] ELSE Absent]
  <2>1. Perform(w, o)
    BY <1>2
  <2> HIDE DEF w
  <2> QED BY <2>1 DEF Perform, Exposed, Flushed, Exposing
<1> QED BY <1>1, <1>2 DEF Rename

\* Where a step that continues leads.
LEMMA ContinuesOutlook ==
  ASSUME disk \in media, OutlookInv, Continues
  PROVE  /\ OneJournal' /\ (\A d \in media : Changing(d))'
         /\ Anchored' \/ Settled(Yields(disk))'
<1>1. media' \subseteq media \cup {disk'} /\ disk' \in media'
  BY DEF Continues, Exposing
<1>2. ASSUME NEW e \in media, Marked(e)
      PROVE  /\ Yields(disk') \in {e[Marker].before, e[Marker].after}
             /\ Marked(disk') => /\ disk'[Marker].before = e[Marker].before
                                 /\ disk'[Marker].after = e[Marker].after
  BY <1>2 DEF OutlookInv, OneJournal, Continues, JournalOf, YieldsBefore
<1>3. ASSUME NEW d \in media, Marked(disk')
      PROVE  /\ Yields(d) \in {disk'[Marker].before, disk'[Marker].after}
             /\ Marked(d) => /\ d[Marker].before = disk'[Marker].before
                             /\ d[Marker].after = disk'[Marker].after
  BY <1>3 DEF OutlookInv, OneJournal, Continues, JournalOf
<1>4. Marked(disk') => Yields(disk') \in {disk'[Marker].before, disk'[Marker].after}
  BY <1>3 DEF Continues, JournalOf, YieldsBefore
<1>5. OneJournal'
  <2> SUFFICES ASSUME NEW d \in media', NEW e \in media', Marked(e)
               PROVE  /\ Yields(d) \in {e[Marker].before, e[Marker].after}
                      /\ Marked(d) => /\ d[Marker].before = e[Marker].before
                                      /\ d[Marker].after = e[Marker].after
    BY DEF OneJournal, Marked, Yields, ProjectOf
  <2>1. CASE d \in media /\ e \in media
    BY <2>1 DEF OutlookInv, OneJournal
  <2> QED BY <1>1, <1>2, <1>3, <1>4, <2>1
<1>6. \A d \in media' : Changing(d)
  BY <1>1 DEF OutlookInv, Continues
<1>7. Anchored' \/ Settled(Yields(disk))'
  <2>1. CASE media' = {disk'}
    BY <2>1 DEF Settled, Yields, ProjectOf
  <2>2. CASE media' = media \cup {disk'} /\ Anchored
    BY <2>2 DEF Anchored, Yields, ProjectOf, Marked
  <2>3. CASE media' = media \cup {disk'} /\ Settled(Yields(disk)) /\ Yields(disk') = Yields(disk)
    BY <2>3 DEF Settled, Yields, ProjectOf
  <2> QED BY <2>1, <2>2, <2>3 DEF OutlookInv, Continues, Exposing
<1> QED BY <1>5, <1>6, <1>7

\* An anchor stays as long as the new disk yields what is taken back.
LEMMA AnchorStays ==
  ASSUME Anchored \/ YieldsBefore(disk'), disk' \in media',
         \/ media' = media \cup {disk'}
         \/ media' = {disk'} /\ YieldsBefore(disk')
  PROVE  Anchored'
BY DEF Anchored, YieldsBefore, Yields, ProjectOf, Marked

\* A journal that brings something back on one disk does so on all that agree.
LEMMA AnchorSettles ==
  ASSUME OneJournal, Anchored, NEW g, Settled(g), NEW e \in media, Marked(e)
  PROVE  g = e[Marker].before
BY DEF OneJournal, Anchored, Settled

\* An operation elsewhere leaves the generation and the journal as they are.
LEMMA ElsewhereContinues ==
  ASSUME disk \in media, \A d \in media : Changing(d), Exposing,
         disk'[Marker] = disk[Marker],
         \A r \in Roles : disk'[Project(r)] = disk[Project(r)]
  PROVE  Continues /\ Yields(disk') = Yields(disk) /\ ProjectOf(disk') = ProjectOf(disk)
<1>1. Yields(disk') = Yields(disk) /\ ProjectOf(disk') = ProjectOf(disk)
  BY DEF Yields, ProjectOf
<1>2. Changing(disk') /\ JournalOf(disk', disk)
  BY DEF Changing, JournalOf, Marked
<1> QED BY <1>1, <1>2 DEF Continues

\* A step that changes no entry.
LEMMA QuietContinues ==
  ASSUME disk \in media, \A d \in media : Changing(d), UNCHANGED <<disk, media>>
  PROVE  Continues /\ (Anchored => Anchored') /\ disk' = disk /\ media' = media
BY ElsewhereContinues DEF Exposing, Anchored, Yields, ProjectOf, Marked
-----------------------------------------------------------------------------
(* Every step maps to a step of AtomicGeneration or to a stutter *)

\* All disks agree; a replacement may be open that none of them shows.
Agreed == /\ Settled(Yields(disk))
          /\ CurrentGeneration = Yields(disk)
          /\ OpenGeneration = IF pc \in Opening THEN job.rec.after ELSE None

\* Disk e takes back the journal, and disk d does not.
Divided(e, d) == /\ YieldsBefore(e) /\ Yields(d) # e[Marker].before
                 /\ CurrentGeneration = e[Marker].before
                 /\ OpenGeneration = e[Marker].after

\* What the refinement mapping makes of a state.
View == Agreed \/ \E e \in media : \E d \in media : Divided(e, d)

LEMMA Views == disk \in media /\ OutlookInv => View
<1> SUFFICES ASSUME disk \in media, OutlookInv PROVE View
  OBVIOUS
<1>1. CASE Settled(Yields(disk))
  BY <1>1, SettledView DEF View, Agreed
<1>2. CASE ~Settled(Yields(disk))
  <2>1. PICK e \in media : YieldsBefore(e)
    BY <1>2 DEF OutlookInv, Anchored, YieldsBefore
  <2>2. PICK d \in media : Yields(d) # Yields(disk)
    BY <1>2 DEF Settled
  <2>3. PICK c \in media : Yields(c) # e[Marker].before
    BY <2>2
  <2> QED BY <2>1, <2>3, SplitView DEF OutlookInv, YieldsBefore, View, Divided
<1> QED BY <1>1, <1>2

LEMMA ViewsNext == ASSUME (disk \in media /\ OutlookInv)' PROVE View'
<1>1. (disk \in media /\ OutlookInv => View)'
  BY Views, PTL
<1> QED BY <1>1

\* The journals of a state, and the generations they name.
LEMMA JournalTypes ==
  ASSUME TypeInv, NEW e \in media, Marked(e)
  PROVE  /\ e[Marker] \in MarkerRecord
         /\ e[Marker].before \in Generation /\ e[Marker].before # None
         /\ e[Marker].after \in Generation /\ e[Marker].after # None
         /\ e[Marker].after \in [Roles -> Bytes]
<1>1. e[Marker] \in MarkerRecord
  BY EntryFacts DEF TypeInv, DiskOK, Disk, Marked
<1>2. e[Marker].before \in Generation /\ e[Marker].after \in [Roles -> Bytes]
  BY <1>1 DEF MarkerRecord
<1>3. [Roles -> Bytes] \subseteq Generation
  BY BytesAssumption DEF Generation, Roles
<1> QED BY <1>1, <1>2, <1>3, AbsentAssumption DEF None

\* The generation that a step gives up, puts in force, or proposes.
LEMMA Abandons ==
  ASSUME OpenGeneration # None, OpenGeneration' = None, UNCHANGED CurrentGeneration
  PROVE  Atomic!Next
BY DEF Atomic!Next, Atomic!Abandon

LEMMA Commits ==
  ASSUME OpenGeneration # None, OpenGeneration' = None, CurrentGeneration' = OpenGeneration
  PROVE  Atomic!Next
BY DEF Atomic!Next, Atomic!Commit

LEMMA Proposes ==
  ASSUME OpenGeneration = None, OpenGeneration' \in Generation, UNCHANGED CurrentGeneration
  PROVE  Atomic!Next
BY DEF Atomic!Next, Atomic!Propose

LEMMA ContinuesMaps ==
  ASSUME TypeInv, TypeInv', OutlookInv, OutlookInv', Continues,
         pc \notin Opening, pc' \notin Opening
  PROVE  [Atomic!Next]_(Atomic!vars)
<1>1. /\ disk \in media /\ disk' \in media' /\ media' \in {media \cup {disk'}, {disk'}}
      /\ View /\ View'
  BY Views, ViewsNext DEF TypeInv, DiskOK, Continues, Exposing
<1>2. ASSUME Settled(Yields(disk)) PROVE Yields(disk') = Yields(disk)
  BY <1>1, <1>2, AnchorSettles DEF Continues, JournalOf, YieldsBefore, OutlookInv
<1>3. CASE Agreed /\ Agreed'
  BY <1>2, <1>3 DEF Agreed, Yields, ProjectOf, Atomic!vars
<1>4. CASE Agreed /\ ~Agreed'
  <2>1. PICK e \in media' : \E d \in media' : Divided(e, d)'
    BY <1>1, <1>4 DEF View
  <2>2. PICK d \in media' : Yields(e) # Yields(d)
    BY <2>1 DEF Divided, YieldsBefore, Yields, ProjectOf
  <2>3. \A c \in media \cup {disk'} : Yields(c) = Yields(disk)
    BY <1>2, <1>4 DEF Agreed, Settled
  <2> QED BY <1>1, <2>2, <2>3
<1>5. ASSUME NEW e \in media, NEW d \in media, Divided(e, d)
      PROVE  [Atomic!Next]_(Atomic!vars)
  <2>1. Marked(e) /\ e[Marker].after # None
    BY <1>5, JournalTypes DEF Divided, YieldsBefore
  <2>2. Yields(disk') \in {e[Marker].before, e[Marker].after}
    BY <1>1, <2>1 DEF OutlookInv, OneJournal, Continues, JournalOf, YieldsBefore
  <2>3. CASE Agreed'
    <3>1. CurrentGeneration' = Yields(disk') /\ OpenGeneration' = None
      BY <2>3 DEF Agreed, Yields, ProjectOf
    <3> QED BY <1>5, <2>1, <2>2, <3>1, Abandons, Commits DEF Divided
  <2>4. ASSUME NEW f \in media', NEW c \in media', Divided(f, c)'
        PROVE  [Atomic!Next]_(Atomic!vars)
    <3>1. Marked(f) /\ CurrentGeneration' = f[Marker].before
          /\ OpenGeneration' = f[Marker].after
      BY <2>4 DEF Divided, YieldsBefore, Marked
    <3>2. f[Marker].before = e[Marker].before /\ f[Marker].after = e[Marker].after
      BY <1>1, <2>1, <3>1 DEF OutlookInv, OneJournal, Continues, JournalOf
    <3> QED BY <1>5, <3>1, <3>2 DEF Divided, Atomic!vars
  <2> QED BY <1>1, <2>3, <2>4 DEF View
<1> QED BY <1>1, <1>3, <1>4, <1>5 DEF View
-----------------------------------------------------------------------------
(* Recovery *)

\* A place of which nothing is known.
LEMMA NoPlace ==
  ASSUME pc' \notin Restoring \cup Recorded \cup {"clear"},
         pc' = "recover" => job'.then # "report"
  PROVE  PlacesKnown' /\ pc' \notin Opening
BY DEF PlacesKnown, Restoring, Recorded, Imaged, Durable, Opening

\* A place inside the restoration of an entry.
LEMMA RestoringPlace ==
  ASSUME pc' \in Restoring \ {"return_current"}, Anchored',
         pc' \in {"retain", "move_current", "verify_current"}
           => job'.rec.after[job'.role] # job'.rec.before[job'.role]
  PROVE  PlacesKnown' /\ pc' \notin Opening
BY DEF PlacesKnown, Restoring, Recorded, Imaged, Durable, Opening, Will, Was

LEMMA NoReadFault == ASSUME Readable, SpentOK PROVE ~ReadFault
BY DEF Readable, SpentOK, ReadFault

\* An entry is done with; when both are, the disk is as recovery will find it.
LEMMA RestoredPlaces ==
  ASSUME ReportInv, pc \in Restoring, NEW ok \in BOOLEAN, Restored(ok), Anchored',
         disk'[Marker] = disk[Marker], ok => disk'[Project(job.role)] = Was,
         job.role = "lock" => disk'[Project("manifest")] = disk[Project("manifest")]
  PROVE  PlacesKnown' /\ pc' \notin Opening
<1>0. /\ job \in Job /\ job.role \in Roles /\ JournalAtHand
      /\ job.rec.before \in Generation
  BY DEF ReportInv, RollbackInv, Known, JournalInv, TypeInv, ControlOK, Job,
         Restoring, WithRecord, Places, Record
<1>1. CASE pc' = "restore"
  BY <1>1, RestoringPlace DEF Restoring
<1>2. CASE pc' = "idle"
  BY <1>2, NoPlace DEF Restoring, Recorded, Imaged
<1>3. CASE pc' = "clear" /\ pc' # "idle"
  <2>1. job.role = "lock" /\ job.sound /\ ok
    <3>1. Return(FALSE) => pc' = "idle"
      BY <1>0, ReturnJob
    <3> QED BY <1>0, <1>3, <3>1 DEF Restored, Roles
  <2>2. ProjectOf(disk') = job.rec.before
    <3>1. /\ disk'[Project("manifest")] = job.rec.before["manifest"]
          /\ disk'[Project("lock")] = job.rec.before["lock"]
      BY <2>1 DEF ReportInv, ReportKnown, Was
    <3> QED BY <1>0, <3>1 DEF ProjectOf, Generation, Roles
  <2>3. Yields(disk') = ProjectOf(disk')
    BY <1>0, <2>2 DEF Yields, JournalAtHand, Journaled
  <2> QED BY <1>3, <2>3 DEF PlacesKnown, Restoring, Recorded, Imaged, Durable, Opening,
                            Yields, ProjectOf
<1> QED BY <1>0, <1>1, <1>2, <1>3, RestoredJob

\* What a move within the journal's entry changes, on a disk it takes back.
LEMMA MoveContinues ==
  ASSUME AtomicInv, pc \in Restoring, Exposing,
         NEW from \in Moving(job.rec.history, job.role),
         NEW to \in Moving(job.rec.history, job.role), Moved(from, to),
         Was = Will => disk'[Project(job.role)] = Was /\ disk[Project(job.role)] # Will,
         disk'[Project(job.role)] # Will \/ Was = Will
  PROVE  Continues /\ Anchored' /\ disk'[Marker] = disk[Marker]
<1>0. /\ disk \in media /\ job.role \in Roles /\ job.rec \in Record
      /\ job.rec.history \in Histories /\ JournalAtHand /\ pc \in Journaled
      /\ Anchored /\ OneJournal /\ Changing(disk)
  BY DEF AtomicInv, ReportInv, RollbackInv, Known, JournalInv, TypeInv, DiskOK, ControlOK,
         Job, Restoring, Journaled, WithRecord, Places, Record, OutlookInv, PlacesKnown
<1>1. /\ disk'[Marker] = disk[Marker]
      /\ \A r \in Roles \ {job.role} : disk'[Project(r)] = disk[Project(r)]
  BY <1>0, MoveFrame
<1>2. /\ Marked(disk') /\ Marked(disk)
      /\ disk'[Marker].before = job.rec.before /\ disk'[Marker].after = job.rec.after
      /\ disk'[Marker].phase = disk[Marker].phase
  BY <1>0, <1>1 DEF JournalAtHand, Marked
<1>3. Changing(disk')
  <2>1. ASSUME disk'[Marker].phase = "committed", NEW r \in Roles,
               disk'[Marker].before[r] = disk'[Marker].after[r]
        PROVE  disk'[Project(r)] = disk'[Marker].after[r]
    BY <1>0, <1>1, <1>2, <2>1 DEF Changing, Was, Will
  <2> QED BY <1>0, <1>1, <1>2, <2>1 DEF Changing
<1>4. YieldsBefore(disk')
  <2>1. CASE disk'[Marker].phase # "committed"
    BY <1>2, <2>1 DEF YieldsBefore, Yields, Marked
  <2>2. CASE disk'[Marker].phase = "committed"
    <3>1. Was # Will
      BY <1>0, <1>1, <1>2, <2>2 DEF Changing, Was, Will
    <3>2. ProjectOf(disk')[job.role] # job.rec.after[job.role]
      BY <1>0, <3>1 DEF ProjectOf, Will
    <3>3. ProjectOf(disk') # disk'[Marker].after
      BY <1>2, <3>2
    <3> QED BY <1>2, <3>3 DEF YieldsBefore, Yields, Marked
  <2> QED BY <2>1, <2>2
<1>5. Anchored'
  BY <1>0, <1>4, AnchorStays DEF Exposing
<1>6. JournalOf(disk', disk)
  BY <1>1, <1>2 DEF JournalOf
<1> QED BY <1>0, <1>1, <1>3, <1>4, <1>5, <1>6 DEF Continues

LEMMA RecoveryContinues ==
  ASSUME OrderedMetadata, Readable, AtomicInv, Recovery
  PROVE  Continues /\ PlacesKnown' /\ pc' \notin Opening
<1>o. InOrder
  BY DEF InOrder
<1> USE <1>o
<1>0. /\ ReportInv /\ TypeInv /\ OutlookInv /\ PlacesKnown /\ JournalAtHand /\ RestoreKnown
      /\ ReportKnown /\ AdmittedInv
      /\ disk \in media /\ job \in Job /\ job.role \in Roles
      /\ pc \in WithRecord => /\ job.rec \in Record /\ job.rec.history \in Histories
                              /\ Will # Absent
      /\ pc \in Retaining => recoveries \in Recoveries
      /\ pc # "idle" => job.then # "stop"
      /\ \A d \in media : Changing(d)
      /\ \A r \in Roles : Project(r) \in Entry
      /\ ~ReadFault
  <2>1. ASSUME pc \in WithRecord PROVE Will # Absent
    <3>1. ControlOK /\ job.rec \in Record
      BY <2>1 DEF AtomicInv, ReportInv, RollbackInv, JournalInv, TypeInv, ControlOK
    <3> QED BY <2>1, <3>1, RecordFacts, BytesAssumption
  <2> QED BY <2>1, EntryFacts, NoReadFault
          DEF AtomicInv, ReportInv, RollbackInv, JournalInv, TypeInv, DiskOK, ControlOK,
              Job, Known, Record, OutlookInv
<1>1. ASSUME pc \in Restoring, UNCHANGED <<disk, media>>, NEW ok \in BOOLEAN, Restored(ok),
             ok => Current = Was
      PROVE  Continues /\ PlacesKnown' /\ pc' \notin Opening
  <2>1. Continues /\ Anchored'
    BY <1>0, <1>1, QuietContinues DEF PlacesKnown
  <2> QED BY <1>0, <1>1, <2>1, RestoredPlaces DEF Current
<1>2. ASSUME pc \in Restoring, UNCHANGED <<disk, media>>,
             NEW place \in Restoring \ {"return_current"},
             pc' = place /\ job'.rec = job.rec /\ job'.role = job.role,
             place \in {"retain", "move_current", "verify_current"} => Was # Will
      PROVE  Continues /\ PlacesKnown' /\ pc' \notin Opening
  <2>1. Continues /\ Anchored'
    BY <1>0, <1>2, QuietContinues DEF PlacesKnown
  <2> QED BY <1>2, <2>1, RestoringPlace DEF Was, Will
<1>3. CASE Recover
  <2>1. /\ pc = "recover" /\ UNCHANGED <<disk, media>>
        /\ Continues /\ (Anchored => Anchored')
    BY <1>0, <1>3, QuietContinues DEF Recover, Quiet
  <2>2. ASSUME NEW v \in BOOLEAN, Return(v) PROVE PlacesKnown' /\ pc' \notin Opening
    <3>1. pc' \in {"idle"} \cup {"stop", "admit", "commit", "report", "acknowledge"}
      BY <1>0, <2>2, ReturnJob DEF Job
    <3> QED BY <3>1, NoPlace DEF Restoring, Recorded, Imaged
  <2>3. CASE disk[Marker] # Absent /\ Committed /\ Goto("clear")
    <3>1. Yields(disk') = ProjectOf(disk') /\ pc' = "clear"
      BY <2>1, <2>3 DEF Committed, Yields, ProjectOf, Goto
    <3> QED BY <2>1, <3>1 DEF PlacesKnown, Restoring, Recorded, Imaged, Durable, Opening,
                              Yields, ProjectOf
  <2>4. CASE disk[Marker] # Absent /\ ~Committed /\ RollBack("manifest", TRUE)
    <3>1. Anchored
      <4>1. CASE job.then = "report"
        BY <1>0, <2>1, <4>1 DEF PlacesKnown
      <4>2. CASE job.then # "report"
        <5>1. Yields(disk) = disk[Marker].before
          BY <2>4, <4>2 DEF Committed, Yields
        <5> QED BY <1>0, <2>4, <5>1 DEF Anchored, Marked
      <4> QED BY <4>1, <4>2
    <3> QED BY <2>1, <2>4, <3>1, RestoringPlace DEF RollBack, Restoring
  <2>5. \/ \E v \in BOOLEAN : Return(v)
        \/ disk[Marker] # Absent /\ Committed /\ Goto("clear")
        \/ disk[Marker] # Absent /\ ~Committed /\ RollBack("manifest", TRUE)
    BY <1>0, <1>3 DEF Recover
  <2> QED BY <2>1, <2>2, <2>3, <2>4, <2>5
<1>4. CASE Restore
  <2>1. pc \in Restoring /\ UNCHANGED <<disk, media>> /\ pc = "restore"
    BY <1>0, <1>4 DEF Restore, Restoring, Quiet
  <2>2. disk[OriginalEntry] \in {Absent, Was}
    BY <1>0, <2>1, EntryReversible
       DEF ReportInv, Reversible, Untouched, Replaced, MovedAway, OriginalEntry, Was
  <2>3. \/ Restored(FALSE) \/ (Current = Was /\ Restored(TRUE))
        \/ /\ Current # Was /\ Current = Will /\ pc' = "retain"
           /\ job' = [job EXCEPT !.parked = disk[OriginalEntry]]
        \/ Goto("unpark")
    BY <1>0, <1>4, <2>2 DEF Restore
  <2>4. CASE /\ Current # Was /\ Current = Will /\ pc' = "retain"
             /\ job' = [job EXCEPT !.parked = disk[OriginalEntry]]
    <3>1. job'.rec = job.rec /\ job'.role = job.role /\ Was # Will
      BY <1>0, <2>4 DEF Job
    <3> QED BY <1>2, <2>1, <2>4, <3>1 DEF Restoring
  <2>5. CASE Goto("unpark")
    BY <1>2, <2>1, <2>5 DEF Restoring, Goto
  <2> QED BY <1>1, <2>1, <2>3, <2>4, <2>5
<1>5. CASE PutBack \/ StageImage \/ PublishImage \/ ReturnCurrent
  BY <1>0, <1>5 DEF RestoreKnown, PlacesKnown, PutBack, StageImage, PublishImage, ReturnCurrent
<1>6. CASE Retain
  <2>1. pc \in Restoring /\ UNCHANGED <<disk, media>> /\ pc = "retain"
    BY <1>6 DEF Retain, Restoring, Quiet, Fault
  <2>2. Restored(FALSE) \/ Goto("move_current")
    BY <1>6 DEF Retain
  <2> QED BY <1>0, <1>1, <1>2, <2>1, <2>2 DEF Restoring, Goto, PlacesKnown
<1>7. CASE MoveCurrent
  <2> DEFINE from == Project(job.role)
             to == Recovered(recoveries)
  <2>1. /\ pc \in Restoring /\ pc = "move_current" /\ Was # Will
        /\ to \in Entry /\ from # to /\ job.rec.history \in Histories
        /\ from \in Moving(job.rec.history, job.role) /\ to \in Moving(job.rec.history, job.role)
    BY <1>0, <1>7, EntryFacts, Distinct
       DEF MoveCurrent, Restoring, WithRecord, Retaining, Places, Removed, Moving, PlacesKnown
  <2>2. PICK o \in Outcomes \cup {"fail"} :
          /\ Rename(from, to, o)
          /\ Restored(FALSE) \/ Goto("verify_current") \/ Unsound("verify_current")
    BY <1>7 DEF MoveCurrent, Outcomes
  <2>3. ASSUME Goto("verify_current") \/ Unsound("verify_current")
        PROVE  pc' = "verify_current" /\ job'.rec = job.rec /\ job'.role = job.role
    BY <1>0, <2>3, GotoLeads
  <2>4. CASE UNCHANGED <<disk, media>>
    BY <1>1, <1>2, <2>1, <2>2, <2>3, <2>4 DEF Restoring
  <2>5. CASE Moved(from, to)
    <3>1. Exposing
      BY <1>0, <2>2, RenameMedia
    <3>2. disk'[from] # Will
      BY <1>0, <2>1, <2>5 DEF Moved, WithRecord, Restoring, Places
    <3>3. Continues /\ Anchored' /\ disk'[Marker] = disk[Marker]
      BY <2>1, <2>5, <3>1, <3>2, MoveContinues
    <3>4. job.role = "lock" => disk'[Project("manifest")] = disk[Project("manifest")]
      BY <2>1, <2>5, ManifestStays
    <3>5. CASE Restored(FALSE)
      BY <1>0, <2>1, <3>3, <3>4, <3>5, RestoredPlaces
    <3>6. CASE Goto("verify_current") \/ Unsound("verify_current")
      BY <2>1, <2>3, <3>3, <3>6, RestoringPlace DEF Restoring, Was, Will
    <3> QED BY <2>2, <3>3, <3>5, <3>6
  <2> QED BY <1>0, <2>1, <2>2, <2>4, <2>5, RenameMoved
<1>8. CASE VerifyCurrent
  <2>1. pc \in Restoring /\ UNCHANGED <<disk, media>> /\ pc = "verify_current"
    BY <1>0, <1>8 DEF VerifyCurrent, Restoring, Quiet
  <2>2. (Was = Absent /\ Restored(TRUE)) \/ Goto("unpark")
    BY <1>0, <1>8 DEF VerifyCurrent, RestoreKnown
  <2>3. Current = Absent
    BY <1>0, <2>1 DEF RestoreKnown, MovedAway, Current
  <2> QED BY <1>1, <1>2, <2>1, <2>2, <2>3 DEF Restoring, Goto
<1>9. CASE Unpark
  <2> DEFINE from == OriginalEntry
             to == Project(job.role)
  <2>1. /\ pc \in Restoring /\ pc = "unpark"
        /\ job.rec.history \in Histories /\ from \in Entry /\ from # to
        /\ from \in Moving(job.rec.history, job.role) /\ to \in Moving(job.rec.history, job.role)
    BY <1>0, <1>9, EntryFacts, Distinct
       DEF Unpark, Restoring, WithRecord, Places, OriginalEntry, Moving
  <2>2. PICK o \in Outcomes \cup {"fail"} : Rename(from, to, o) /\ Restored(o = "ok")
    BY <1>9 DEF Unpark
  <2>3. MovedAway(disk, job.rec, job.role)
    BY <1>0, <2>1 DEF RestoreKnown
  <2>4. CASE o = "fail" /\ UNCHANGED <<disk, media>>
    BY <1>1, <2>1, <2>2, <2>4
  <2>5. CASE Moved(from, to)
    <3>1. Exposing
      BY <1>0, <2>2, RenameMedia
    <3>2. disk'[to] = Was /\ disk[to] # Will
      BY <1>0, <2>1, <2>3, <2>5
         DEF Moved, MovedAway, OriginalEntry, Was, WithRecord, Restoring, Places
    <3>3. Continues /\ Anchored' /\ disk'[Marker] = disk[Marker]
      BY <2>1, <2>5, <3>1, <3>2, MoveContinues
    <3>4. job.role = "lock" => disk'[Project("manifest")] = disk[Project("manifest")]
      BY <2>1, <2>5, ManifestStays
    <3> QED BY <1>0, <2>1, <2>2, <3>2, <3>3, <3>4, RestoredPlaces
  <2> QED BY <1>0, <2>1, <2>2, <2>4, <2>5, RenameMoved
<1>10. CASE Clear
  <2>1. pc = "clear" /\ Yields(disk) = ProjectOf(disk)
    BY <1>0, <1>10 DEF Clear, PlacesKnown
  <2>2. PICK o \in Outcomes :
          /\ Write(Marker, Absent, o)
          /\ pc' = "clear_image" \/ Return(FALSE)
    BY <1>10 DEF Clear, Remove
  <2>3. PlacesKnown' /\ pc' \notin Opening
    <3>1. pc' \in {"clear_image", "idle"}
      BY <1>0, <2>2, ReturnJob
    <3> QED BY <3>1, NoPlace DEF Restoring, Recorded, Imaged
  <2>4. Exposing
    BY <1>0, <2>2, WriteMedia
  <2>5. CASE UNCHANGED <<disk, media>>
    BY <1>0, <2>3, <2>5, QuietContinues
  <2>6. CASE Put(Marker, Absent)
    <3>1. disk'[Marker] = Absent /\ \A r \in Roles : disk'[Project(r)] = disk[Project(r)]
      BY <1>0, <2>6, EntryFacts, Distinct DEF Put
    <3>2. Yields(disk') = Yields(disk)
      BY <2>1, <3>1 DEF Yields, ProjectOf
    <3> QED BY <2>3, <2>4, <3>1, <3>2 DEF Continues, Changing, JournalOf, Marked
  <2> QED BY <2>2, <2>5, <2>6, WritePut, EntryFacts
<1>11. CASE ClearImage
  <2>1. PICK o \in Outcomes : Write(Before(job.role), Absent, o)
    BY <1>11 DEF ClearImage, Remove
  <2>2. PlacesKnown' /\ pc' \notin Opening
    <3>1. pc' \in {"clear_image", "idle", "stop", "admit", "commit", "report", "acknowledge"}
      BY <1>0, <1>11, ReturnJob DEF ClearImage, Job
    <3> QED BY <3>1, NoPlace DEF Restoring, Recorded, Imaged
  <2>3. Exposing
    BY <1>0, <2>1, WriteMedia
  <2>4. CASE UNCHANGED <<disk, media>>
    BY <1>0, <2>2, <2>4, QuietContinues
  <2>5. CASE Put(Before(job.role), Absent)
    <3>1. /\ disk'[Marker] = disk[Marker]
          /\ \A r \in Roles : disk'[Project(r)] = disk[Project(r)]
      BY <1>0, <2>5, EntryFacts, Distinct DEF Put
    <3> QED BY <1>0, <2>2, <2>3, <3>1, ElsewhereContinues
  <2> QED BY <1>0, <2>1, <2>4, <2>5, WritePut, EntryFacts
<1> QED BY <1>3, <1>4, <1>5, <1>6, <1>7, <1>8, <1>9, <1>10, <1>11 DEF Recovery
-----------------------------------------------------------------------------
(* Commit *)

\* A place at which a replacement is open, or given up.
LEMMA OpeningPlace ==
  ASSUME pc' \in Opening \cup {"abort"}, job'.rec.before # job'.rec.after,
         pc' = "abort" => Anchored', pc' \in Opening => media' = {disk'},
         pc' \in Opening \ {"mark_pending"} => disk'[Marker].phase = "pending"
  PROVE  PlacesKnown'
BY DEF PlacesKnown, Restoring, Opening, Durable

\* What a commit knows before it has written its journal.
LEMMA PrepareContinues ==
  ASSUME OrderedMetadata, Readable, AtomicInv, Admit \/ Commit \/ Stage \/ SaveImage
  PROVE  /\ Continues /\ PlacesKnown' /\ pc \notin Opening
         /\ pc' \in Opening => /\ media = {disk} /\ job'.rec = job.rec
                               /\ job.rec \in Record /\ Yields(disk') = Yields(disk)
<1>o. InOrder
  BY DEF InOrder
<1> USE <1>o
<1>0. /\ TypeInv /\ OutlookInv /\ PlacesKnown /\ AdmittedInv
      /\ disk \in media /\ job \in Job /\ job.role \in Roles
      /\ pc \in WithRecord => job.rec \in Record /\ job.rec.history \in Histories
      /\ \A d \in media : Changing(d)
      /\ \A r \in Roles : Project(r) \in Entry
      /\ ~ReadFault
  BY EntryFacts, NoReadFault
     DEF AtomicInv, ReportInv, RollbackInv, JournalInv, TypeInv, DiskOK, ControlOK, Job,
         Record, OutlookInv
<1>1. pc \notin Opening
  BY DEF Admit, Commit, Stage, SaveImage, Opening
<1>2. ASSUME NEW a, Finish(a) PROVE PlacesKnown' /\ pc' \notin Opening
  <2>1. pc' = "idle"
    BY <1>2 DEF Finish
  <2> QED BY <2>1, NoPlace DEF Restoring, Recorded, Imaged
<1>3. CASE Admit
  <2>1. Continues
    BY <1>0, <1>3, QuietContinues DEF Admit, Quiet
  <2>2. CASE Finish("refused")
    BY <1>1, <1>2, <2>1, <2>2
  <2>3. CASE ~Finish("refused")
    <3>1. PICK m \in GraphBytes \cup {disk[Project("manifest")]}, l \in GraphBytes :
            job' = [NoJob EXCEPT !.then = "commit", !.admitted = ProjectOf(disk),
                      !.want = [r \in Roles |-> IF r = "lock" THEN l ELSE m]]
      BY <1>3, <2>3 DEF Admit
    <3>2. job'.then = "commit" /\ pc' = "recover"
      BY <1>3, <2>3, <3>1 DEF Admit, NoJob
    <3>3. PlacesKnown' /\ pc' \notin Opening
      BY <3>2, NoPlace DEF Restoring, Recorded, Imaged
    <3> QED BY <1>1, <2>1, <3>3
  <2> QED BY <2>2, <2>3
<1>4. CASE Commit
  <2>1. Continues
    BY <1>0, <1>4, QuietContinues DEF Commit, Quiet, Fault
  <2>2. CASE Finish("refused") \/ Finish("unchanged")
    BY <1>1, <1>2, <2>1, <2>2
  <2>3. CASE ~(Finish("refused") \/ Finish("unchanged"))
    <3> DEFINE rec == [before |-> ProjectOf(disk), after |-> job.want,
                       history |-> histories + 1]
               role == IF job.want["manifest"] = ProjectOf(disk)["manifest"]
                       THEN "lock" ELSE "manifest"
    <3>1. /\ pc' = "stage" /\ job' = [job EXCEPT !.rec = rec, !.role = role]
          /\ job.want # ProjectOf(disk)
      BY <1>4, <2>3 DEF Commit
    <3>2. rec.after = job.want /\ rec.before = ProjectOf(disk)
      OBVIOUS
    <3> HIDE DEF rec, role
    <3>3. job'.rec = rec
      BY <1>0, <3>1 DEF Job
    <3>4. PlacesKnown' /\ pc' \notin Opening
      BY <3>1, <3>2, <3>3 DEF PlacesKnown, Restoring, Opening, Durable
    <3> QED BY <1>1, <2>1, <3>4
  <2> QED BY <2>2, <2>3
<1>5. ASSUME NEW e \in Entry, e # Marker, \A r \in Roles : e # Project(r), NEW c, NEW o,
             Write(e, c, o)
      PROVE  /\ Continues /\ Yields(disk') = Yields(disk)
             /\ o = "ok" => media' = {disk'}
  <2>1. Exposing /\ (o = "ok" => media' = {disk'})
    BY <1>0, <1>5, WriteMedia
  <2>2. /\ disk'[Marker] = disk[Marker]
        /\ \A r \in Roles : disk'[Project(r)] = disk[Project(r)]
    BY <1>0, <1>5, WritePut, EntryFacts DEF Put
  <2> QED BY <1>0, <2>1, <2>2, ElsewhereContinues
<1>6. CASE Stage
  <2> DEFINE e == New(job.rec.history, job.role)
  <2>1. /\ pc = "stage" /\ e \in Entry /\ e # Marker /\ \A r \in Roles : e # Project(r)
        /\ job.rec.before # job.rec.after
    BY <1>0, <1>6, EntryFacts, Distinct
       DEF Stage, WithRecord, Places, PlacesKnown, Recorded, Imaged
  <2>2. PICK o \in Outcomes :
          /\ Write(e, Will, o)
          /\ \/ Finish("refused")
             \/ StepTo("stage", "lock")
             \/ o = "ok" /\ StepTo("save_image", "manifest")
    BY <1>0, <1>6 DEF Stage, Roles
  <2>3. Continues /\ (o = "ok" => media' = {disk'})
    BY <1>5, <2>1, <2>2
  <2>4. CASE Finish("refused")
    BY <1>1, <1>2, <2>3, <2>4
  <2>5. ASSUME NEW place \in {"stage", "save_image"}, NEW role, StepTo(place, role),
               place = "save_image" => media' = {disk'}
        PROVE  PlacesKnown' /\ pc' \notin Opening
    <3>1. pc' = place /\ job'.rec = job.rec
      BY <1>0, <2>5, StepToLeads
    <3> QED BY <2>1, <2>5, <3>1 DEF PlacesKnown, Restoring, Opening, Durable
  <2> QED BY <1>1, <2>2, <2>3, <2>4, <2>5
<1>7. CASE SaveImage
  <2> DEFINE e == Before(job.role)
  <2>1. /\ pc = "save_image" /\ e \in Entry /\ e # Marker /\ \A r \in Roles : e # Project(r)
        /\ job.rec.before # job.rec.after /\ media = {disk} /\ job.rec \in Record
    BY <1>0, <1>7, EntryFacts, Distinct
       DEF SaveImage, WithRecord, Places, PlacesKnown, Recorded, Imaged, Durable
  <2>2. PICK o \in Outcomes :
          /\ Write(e, Image(Was), o)
          /\ \/ Finish("refused")
             \/ o = "ok" /\ (StepTo("save_image", "lock") \/ Goto("mark_pending"))
    BY <1>0, <1>7 DEF SaveImage, Roles
  <2>3. Continues /\ (o = "ok" => media' = {disk'}) /\ Yields(disk') = Yields(disk)
    BY <1>5, <2>1, <2>2
  <2>4. CASE Finish("refused")
    BY <1>1, <1>2, <2>3, <2>4
  <2>5. CASE o = "ok" /\ (StepTo("save_image", "lock") \/ Goto("mark_pending"))
    <3>1. pc' \in {"save_image", "mark_pending"} /\ job'.rec = job.rec
      BY <1>0, <2>5, StepToLeads, GotoLeads
    <3>2. PlacesKnown'
      BY <2>1, <2>3, <2>5, <3>1 DEF PlacesKnown, Restoring, Opening, Durable
    <3> QED BY <1>1, <2>1, <2>3, <3>1, <3>2
  <2> QED BY <2>2, <2>4, <2>5
<1> QED BY <1>3, <1>4, <1>6, <1>7

\* While the journal says pending, every disk yields what it takes back.
LEMMA PendingContinues ==
  ASSUME AtomicInv, pc \in Opening \ {"mark_pending"}, Exposing,
         disk'[Marker] = disk[Marker]
  PROVE  /\ Continues /\ Anchored' /\ Yields(disk') = Yields(disk)
         /\ disk'[Marker].phase = "pending"
<1>0. /\ disk \in media /\ Changing(disk) /\ Marked(disk) /\ disk[Marker].phase = "pending"
  BY DEF AtomicInv, ReportInv, RollbackInv, Known, JournalInv, TypeInv, DiskOK, OutlookInv,
         PlacesKnown, JournalAtHand, Opening, Journaled, Replacing, Marked
<1>1. YieldsBefore(disk) /\ YieldsBefore(disk') /\ Yields(disk') = Yields(disk)
  BY <1>0 DEF YieldsBefore, Yields, Marked
<1>2. Changing(disk') /\ JournalOf(disk', disk)
  BY <1>0 DEF Changing, JournalOf, Marked
<1>3. Anchored'
  BY <1>1, AnchorStays DEF Exposing
<1> QED BY <1>0, <1>1, <1>2, <1>3 DEF Continues

\* A commit replaces an entry, or verifies what it has moved.
LEMMA ReplaceContinues ==
  ASSUME OrderedMetadata, Readable, AtomicInv,
         Park \/ VerifyParked \/ Publish \/ VerifyGeneration
  PROVE  /\ Continues /\ PlacesKnown' /\ pc \in Opening
         /\ Yields(disk') = Yields(disk)
         /\ pc' \in Opening => job'.rec = job.rec
<1>o. InOrder
  BY DEF InOrder
<1> USE <1>o
<1>0. /\ TypeInv /\ PlacesKnown /\ disk \in media /\ job \in Job /\ job.role \in Roles
      /\ pc \in WithRecord => job.rec.history \in Histories
      /\ ~ReadFault
  BY NoReadFault
     DEF AtomicInv, ReportInv, RollbackInv, JournalInv, TypeInv, DiskOK, ControlOK, Job,
         Record, OutlookInv
<1>1. /\ pc \in Opening \ {"mark_pending"} /\ media = {disk} /\ job.rec.before # job.rec.after
      /\ job.rec.history \in Histories
  BY <1>0 DEF Park, VerifyParked, Publish, VerifyGeneration, Opening, PlacesKnown, Durable,
              Recorded, Imaged, WithRecord, Places
<1>2. ASSUME Exposing, disk'[Marker] = disk[Marker], NEW place \in Opening \cup {"abort"},
             pc' = place /\ job'.rec = job.rec,
             place # "abort" => place # "mark_pending" /\ media' = {disk'}
      PROVE  /\ Continues /\ PlacesKnown' /\ Yields(disk') = Yields(disk)
             /\ pc' \in Opening => job'.rec = job.rec
  <2>1. /\ Continues /\ Anchored' /\ Yields(disk') = Yields(disk)
        /\ disk'[Marker].phase = "pending"
    BY <1>1, <1>2, PendingContinues
  <2>2. PlacesKnown'
    BY <1>1, <1>2, <2>1, OpeningPlace DEF Opening
  <2> QED BY <1>2, <2>1, <2>2
<1>3. ASSUME UNCHANGED <<disk, media>>, NEW place \in Opening \cup {"abort"}, Goto(place),
             place # "mark_pending"
      PROVE  /\ Continues /\ PlacesKnown' /\ Yields(disk') = Yields(disk)
             /\ pc' \in Opening => job'.rec = job.rec
  <2>1. Exposing /\ media' = {disk'}
    BY <1>1, <1>3 DEF Exposing
  <2> QED BY <1>2, <1>3, <2>1 DEF Goto
<1>4. CASE VerifyParked \/ VerifyGeneration
  <2>1. /\ UNCHANGED <<disk, media>>
        /\ \/ \E b \in BOOLEAN : Goto(IF b THEN "publish" ELSE "abort")
           \/ \E b \in BOOLEAN : Goto(IF b THEN "mark_committed" ELSE "abort")
    BY <1>0, <1>4 DEF VerifyParked, VerifyGeneration, Quiet
  <2>2. \E place \in {"publish", "mark_committed", "abort"} : Goto(place)
    BY <2>1
  <2> QED BY <1>1, <1>3, <2>1, <2>2 DEF Opening
<1>5. CASE Park
  <2> DEFINE from == Project(job.role)
             to == OriginalEntry
  <2>1. PICK o \in Outcomes \cup {"fail"} :
          Rename(from, to, o) /\ Goto(IF o = "ok" THEN "verify_parked" ELSE "abort")
    BY <1>5 DEF Park
  <2>2. Exposing /\ (o = "ok" => media' = {disk'})
    BY <1>0, <2>1, RenameMedia
  <2>3. disk'[Marker] = disk[Marker]
    BY <1>0, <1>5, MarkerStays
  <2>4. \/ Goto("abort")
        \/ o = "ok" /\ Goto("verify_parked")
    BY <2>1
  <2> QED BY <1>1, <1>2, <2>2, <2>3, <2>4 DEF Goto, Opening
<1>6. CASE Publish
  <2> DEFINE from == New(job.rec.history, job.role)
             to == Project(job.role)
  <2>1. PICK o \in Outcomes \cup {"fail"} :
          /\ Rename(from, to, o)
          /\ \/ Goto("abort")
             \/ o = "ok" /\ LockStep
             \/ o = "ok" /\ Goto("verify_generation")
    BY <1>0, <1>6 DEF Publish, Roles
  <2>2. Exposing /\ (o = "ok" => media' = {disk'})
    BY <1>0, <2>1, RenameMedia
  <2>3. disk'[Marker] = disk[Marker]
    BY <1>0, <1>6, MarkerStays
  <2>4. LockStep => pc' \in {"publish", "park"} /\ job'.rec = job.rec
    BY <1>0, StepToLeads DEF LockStep
  <2> QED BY <1>1, <1>2, <2>1, <2>2, <2>3, <2>4 DEF Goto, Opening
<1> QED BY <1>1, <1>4, <1>5, <1>6

\* What the record of a commit makes of the marker.
LEMMA MarkerContents ==
  ASSUME TypeInv, pc \in WithRecord, NEW phase \in {"pending", "committed"}
  PROVE  /\ MarkerOf(phase) # Absent /\ MarkerOf(phase).phase = phase
         /\ MarkerOf(phase).before = job.rec.before /\ MarkerOf(phase).after = job.rec.after
         /\ job.rec \in Record
<1>1. ControlOK /\ job.rec \in Record
  BY DEF TypeInv, ControlOK
<1> QED BY <1>1, RecordFacts, AbsentAssumption DEF MarkerOf

\* The journal of a commit that is given up says pending, if that can be written.
LEMMA AbortContinues ==
  ASSUME OrderedMetadata, AtomicInv, Abort
  PROVE  /\ Continues /\ PlacesKnown' /\ pc \notin Opening /\ pc' \notin Opening
<1>o. InOrder
  BY DEF InOrder
<1> USE <1>o
<1>0. /\ TypeInv /\ PlacesKnown /\ disk \in media /\ job \in Job /\ pc = "abort"
      /\ JournalAtHand /\ Changing(disk) /\ \A d \in media : Changing(d)
  BY DEF AtomicInv, ReportInv, RollbackInv, Known, JournalInv, TypeInv, DiskOK, ControlOK,
         OutlookInv, Abort
<1>1. PICK o \in Outcomes : Write(Marker, MarkerOf("pending"), o)
  BY DEF Abort
<1>2. Exposing /\ Anchored
  BY <1>0, <1>1, WriteMedia DEF PlacesKnown
<1>3. Anchored' => PlacesKnown'
  BY DEF Abort, PlacesKnown, Restoring, Recorded, Imaged, Durable, Opening
<1>4. pc \notin Opening /\ pc' \notin Opening
  BY DEF Abort, Opening
<1>5. CASE UNCHANGED <<disk, media>>
  BY <1>0, <1>2, <1>3, <1>4, <1>5, QuietContinues
<1>6. CASE Put(Marker, MarkerOf("pending"))
  <2>1. /\ Marked(disk') /\ disk'[Marker].phase = "pending" /\ Marked(disk)
        /\ disk'[Marker].before = disk[Marker].before
        /\ disk'[Marker].after = disk[Marker].after
    BY <1>0, <1>6, MarkerContents
       DEF Put, WithRecord, Places, JournalAtHand, Journaled, Marked
  <2>2. YieldsBefore(disk') /\ JournalOf(disk', disk) /\ Changing(disk')
    BY <1>0, <2>1 DEF YieldsBefore, Yields, JournalOf, Changing, Marked
  <2>3. Anchored'
    BY <1>2, <2>2, AnchorStays DEF Exposing
  <2> QED BY <1>2, <1>3, <1>4, <2>2, <2>3 DEF Continues
<1> QED BY <1>1, <1>5, <1>6, WritePut, EntryFacts

\* The journal appears, for a generation that every disk still yields.
LEMMA PendingOutlook ==
  ASSUME OrderedMetadata, AtomicInv, MarkPending
  PROVE  /\ OutlookInv' /\ Exposing /\ Yields(disk') = Yields(disk) /\ pc \in Opening
         /\ pc' \in Opening => job'.rec = job.rec
<1>o. InOrder
  BY DEF InOrder
<1> USE <1>o
<1>0. /\ TypeInv /\ PlacesKnown /\ OutlookInv /\ PrepareKnown /\ disk \in media
      /\ job \in Job /\ pc = "mark_pending" /\ pc \in Opening /\ media = {disk}
      /\ job.rec.before # job.rec.after /\ disk[Marker] = Absent
      /\ \A d \in media : Changing(d)
  BY DEF AtomicInv, ReportInv, RollbackInv, Known, JournalInv, TypeInv, DiskOK, ControlOK,
         OutlookInv, PlacesKnown, Durable, Opening, Recorded, Imaged, HolderKnows, Unmarked,
         MarkPending
<1>1. job.rec \in Record /\ pc \in WithRecord
  BY <1>0 DEF TypeInv, ControlOK, WithRecord, Places
<1>2. Yields(disk) = job.rec.before /\ ProjectOf(disk) = job.rec.before
  <2>1. \A r \in Roles : disk[Project(r)] = job.rec.before[r]
    BY <1>0 DEF PrepareKnown, Preparing, Untouched
  <2>2. ProjectOf(disk) = job.rec.before
    BY <1>1, <2>1 DEF ProjectOf, Record, Generation
  <2> QED BY <1>0, <2>2 DEF Yields
<1>3. PICK o \in Outcomes :
        /\ Write(Marker, MarkerOf("pending"), o)
        /\ \/ o = "fail" /\ Finish("refused")
           \/ o = "seen" /\ Goto("abort")
           \/ o = "ok" /\ (StepTo("park", "manifest") \/ LockStep)
  BY DEF MarkPending, Outcomes
<1>4. Exposing /\ (o = "ok" => media' = {disk'})
  BY <1>0, <1>3, WriteMedia
<1>5. CASE Finish("refused") /\ UNCHANGED <<disk, media>>
  <2>1. Continues /\ Yields(disk') = Yields(disk)
    BY <1>0, <1>5, QuietContinues
  <2>2. PlacesKnown' /\ pc' \notin Opening
    BY <1>5, NoPlace DEF Finish, Restoring, Recorded, Imaged
  <2> QED BY <1>0, <1>4, <2>1, <2>2, ContinuesOutlook DEF OutlookInv
<1>6. CASE Put(Marker, MarkerOf("pending"))
  <2>1. /\ Marked(disk') /\ disk'[Marker].phase = "pending"
        /\ disk'[Marker].before = job.rec.before /\ disk'[Marker].after = job.rec.after
    BY <1>0, <1>1, <1>6, MarkerContents DEF Put, Marked
  <2>2. YieldsBefore(disk') /\ Yields(disk') = Yields(disk) /\ Changing(disk')
    BY <1>0, <1>2, <2>1 DEF YieldsBefore, Yields, Changing, Marked
  <2>3. \A d \in media' : /\ Yields(d) = job.rec.before
                          /\ Marked(d) => d = disk'
                          /\ Changing(d)
    BY <1>0, <1>2, <1>4, <2>2 DEF Exposing, Marked
  <2>4. OneJournal'
    BY <2>1, <2>3 DEF OneJournal, Yields, ProjectOf, Marked
  <2>5. Anchored'
    BY <1>0, <1>4, <2>2, AnchorStays DEF Exposing
  <2>6. pc' \in {"idle", "abort", "park", "publish"} /\ (pc' # "idle" => job'.rec = job.rec)
        /\ (pc' \in Opening => o = "ok")
    <3>1. \A place : Goto(place) => pc' = place /\ job'.rec = job.rec
      BY <1>0, GotoLeads
    <3>2. \A place, role : StepTo(place, role) => pc' = place /\ job'.rec = job.rec
      BY <1>0, StepToLeads
    <3> QED BY <1>3, <3>1, <3>2 DEF LockStep, Finish, Opening
  <2>7. PlacesKnown'
    <3>1. CASE pc' = "idle"
      BY <2>6, <3>1, NoPlace DEF Restoring, Recorded, Imaged
    <3>2. CASE pc' # "idle"
      BY <1>0, <1>4, <2>1, <2>5, <2>6, <3>2, OpeningPlace DEF Opening
    <3> QED BY <3>1, <3>2
  <2>8. (\A d \in media : Changing(d))'
    BY <2>3 DEF Changing, Marked
  <2>9. pc' \in Opening => job'.rec = job.rec
    BY <2>6 DEF Opening
  <2> QED BY <1>0, <1>4, <2>2, <2>4, <2>5, <2>7, <2>8, <2>9 DEF OutlookInv
<1> QED BY <1>3, <1>5, <1>6, WritePut, EntryFacts

\* The commit point: the new generation is in force when the marker is durable,
\* and possible when it is only visible.
LEMMA CommittedOutlook ==
  ASSUME OrderedMetadata, AtomicInv, MarkCommitted
  PROVE  /\ OutlookInv' /\ pc = "mark_committed" /\ pc' \notin Opening /\ media = {disk}
         /\ Yields(disk) = job.rec.before
         /\ \/ Exposing /\ Yields(disk') = Yields(disk)
            \/ media' = {disk'} /\ Yields(disk') = job.rec.after
            \/ /\ media' = {disk, disk'} /\ Yields(disk') = job.rec.after
               /\ Marked(disk) /\ disk[Marker].before = job.rec.before
               /\ disk[Marker].after = job.rec.after
<1>o. InOrder
  BY DEF InOrder
<1> USE <1>o
<1>0. /\ TypeInv /\ PlacesKnown /\ OutlookInv /\ JournalAtHand /\ ReportKnown
      /\ disk \in media /\ job \in Job /\ pc = "mark_committed" /\ media = {disk}
      /\ job.rec.before # job.rec.after /\ disk[Marker].phase = "pending"
      /\ job.rec.after = job.want /\ ProjectOf(disk) = job.want
  BY DEF AtomicInv, ReportInv, RollbackInv, Known, JournalInv, TypeInv, DiskOK, ControlOK,
         OutlookInv, PlacesKnown, ReportKnown, Durable, Opening, Recorded, Imaged,
         MarkCommitted
<1>1. job.rec \in Record /\ pc \in WithRecord /\ \A r \in Roles : Project(r) \in Entry
  BY <1>0, EntryFacts DEF TypeInv, ControlOK, WithRecord, Places
<1>2. /\ Marked(disk) /\ disk[Marker].before = job.rec.before
      /\ disk[Marker].after = job.rec.after /\ Yields(disk) = job.rec.before
  BY <1>0 DEF JournalAtHand, Journaled, Marked, Yields
<1>3. PICK o \in Outcomes :
        /\ Write(Marker, MarkerOf("committed"), o)
        /\ \/ o = "ok" /\ pc' = "clear"
           \/ o \in {"seen", "fail"} /\ Goto("abort")
  BY DEF MarkCommitted, Outcomes
<1>4. Exposing /\ (o = "ok" => media' = {disk'})
      /\ (o = "seen" => media' = media \cup {disk'})
  BY <1>0, <1>3, WriteMedia
<1>5. pc' \notin Opening
  BY <1>3 DEF Goto, Opening
<1>6. CASE o = "fail" /\ UNCHANGED <<disk, media>>
  <2>1. /\ Continues /\ Anchored' /\ Yields(disk') = Yields(disk)
    BY <1>0, <1>4, <1>6, PendingContinues DEF Opening
  <2>2. PlacesKnown'
    BY <1>0, <1>3, <1>6, <2>1, OpeningPlace DEF Goto, Opening
  <2> QED BY <1>0, <1>2, <1>4, <1>5, <2>1, <2>2, ContinuesOutlook DEF OutlookInv
<1>7. CASE o # "fail" /\ Put(Marker, MarkerOf("committed"))
  <2>1. /\ Marked(disk') /\ disk'[Marker].phase = "committed"
        /\ disk'[Marker].before = job.rec.before /\ disk'[Marker].after = job.rec.after
    BY <1>0, <1>1, <1>7, MarkerContents DEF Put, Marked
  <2>2. /\ \A r \in Roles : disk'[Project(r)] = disk[Project(r)]
        /\ ProjectOf(disk') = job.rec.after
    <3>1. \A r \in Roles : disk'[Project(r)] = disk[Project(r)]
      BY <1>1, <1>7, Distinct DEF Put
    <3> QED BY <1>0, <3>1 DEF ProjectOf
  <2>3. Yields(disk') = job.rec.after
    BY <2>1, <2>2 DEF Yields
  <2>4. Changing(disk')
    <3>1. \A r \in Roles : disk'[Project(r)] = job.rec.after[r]
      BY <2>2 DEF ProjectOf
    <3> QED BY <1>0, <2>1, <3>1 DEF Changing
  <2>5. \A d \in media' :
          /\ Marked(d) /\ d[Marker].before = job.rec.before
          /\ d[Marker].after = job.rec.after
          /\ Yields(d) \in {job.rec.before, job.rec.after} /\ Changing(d)
    BY <1>0, <1>2, <1>4, <2>1, <2>3, <2>4 DEF Exposing, OutlookInv
  <2>6. OneJournal' /\ (\A d \in media : Changing(d))'
    BY <2>5 DEF OneJournal, Yields, ProjectOf, Marked, Changing
  <2>7. CASE o = "ok" /\ pc' = "clear"
    <3>1. Settled(Yields(disk))'
      BY <1>4, <2>7 DEF Settled, Yields, ProjectOf
    <3>2. PlacesKnown'
      <4>1. Yields(disk') = ProjectOf(disk')
        BY <2>2, <2>3
      <4> QED BY <2>7, <4>1 DEF PlacesKnown, Restoring, Recorded, Imaged, Durable, Opening,
                                Yields, ProjectOf
    <3> QED BY <1>0, <1>2, <1>4, <1>5, <2>3, <2>6, <2>7, <3>1, <3>2 DEF OutlookInv
  <2>8. CASE o = "seen" /\ Goto("abort")
    <3>1. Anchored'
      <4>1. disk \in media' /\ YieldsBefore(disk)
        BY <1>0, <1>2, <1>4, <2>8 DEF YieldsBefore
      <4> QED BY <4>1 DEF Anchored, YieldsBefore, Yields, ProjectOf, Marked
    <3>2. PlacesKnown'
      <4>1. pc' = "abort" /\ job'.rec = job.rec
        BY <2>8 DEF Goto
      <4> QED BY <1>0, <3>1, <4>1, OpeningPlace DEF Opening
    <3>3. media' = {disk, disk'}
      BY <1>0, <1>4, <2>8
    <3> QED BY <1>0, <1>2, <1>5, <2>3, <2>6, <3>1, <3>2, <3>3 DEF OutlookInv
  <2> QED BY <1>3, <1>7, <2>7, <2>8
<1> QED BY <1>3, <1>6, <1>7, WritePut, EntryFacts
-----------------------------------------------------------------------------
(* The invariant, and the refinement *)

\* A step that leaves the disks alone, and a power loss.
LEMMA EnvironmentOutlook ==
  ASSUME AtomicInv, Begin \/ Crash \/ PowerLoss
  PROVE  /\ OutlookInv' /\ pc' \notin Opening
         /\ \/ UNCHANGED <<disk, media>> /\ Continues
            \/ disk' \in media /\ media' = {disk'}
<1>1. disk \in media /\ OutlookInv
  BY DEF AtomicInv, ReportInv, RollbackInv, JournalInv, TypeInv, DiskOK
<1>2. PlacesKnown' /\ pc' \notin Opening
  <2>1. pc' = "idle" \/ (pc' = "recover" /\ job'.then = "admit")
    BY DEF Begin, Crash, PowerLoss, Finish, NoJob
  <2> QED BY <2>1, NoPlace DEF Restoring, Recorded, Imaged
<1>3. CASE UNCHANGED <<disk, media>>
  <2>1. Continues
    BY <1>1, <1>3, QuietContinues DEF OutlookInv
  <2> QED BY <1>1, <1>2, <1>3, <2>1, ContinuesOutlook DEF OutlookInv
<1>4. CASE disk' \in media /\ media' = {disk'}
  <2>1. OneJournal' /\ (\A d \in media : Changing(d))' /\ Settled(Yields(disk))'
    BY <1>1, <1>4 DEF OutlookInv, OneJournal, Changing, Settled, Yields, ProjectOf, Marked
  <2> QED BY <1>2, <1>4, <2>1 DEF OutlookInv
<1> QED BY <1>3, <1>4 DEF Begin, Crash, PowerLoss, Quiet

LEMMA AtomicStep ==
  ASSUME OrderedMetadata, NoEditor, Readable
  PROVE  AtomicInv /\ [Next]_vars => AtomicInv'
<1>o. InOrder
  BY DEF InOrder
<1> USE <1>o
<1> SUFFICES ASSUME AtomicInv, [Next]_vars PROVE AtomicInv'
  OBVIOUS
<1>1. ReportInv' /\ SpentOK'
  BY ReportStep, SpentStep DEF AtomicInv
<1>2. disk \in media /\ OutlookInv
  BY DEF AtomicInv, ReportInv, RollbackInv, JournalInv, TypeInv, DiskOK
<1>3. Continues /\ PlacesKnown' => OutlookInv'
  BY <1>2, ContinuesOutlook DEF OutlookInv
<1>4. ~Editor
  BY DEF NoEditor, Editor, EditorSaves, EditorWritesOpenFile, EditorRemoves
<1>5. ASSUME UNCHANGED vars PROVE OutlookInv'
  <2>1. UNCHANGED <<disk, media, pc, job>>
    BY <1>5 DEF vars
  <2>2. Continues /\ (Anchored => Anchored')
    BY <1>2, <2>1, QuietContinues DEF OutlookInv
  <2>3. PlacesKnown'
    BY <1>2, <2>1, <2>2 DEF OutlookInv, PlacesKnown, Will, Was, Yields, ProjectOf
  <2> QED BY <1>3, <2>2, <2>3
<1>6. ASSUME Recovery PROVE OutlookInv'
  BY <1>3, <1>6, RecoveryContinues
<1>7. ASSUME Commitment PROVE OutlookInv'
  BY <1>3, <1>7, PrepareContinues, ReplaceContinues, AbortContinues, PendingOutlook,
     CommittedOutlook DEF Commitment
<1>8. ASSUME Begin \/ Crash \/ PowerLoss PROVE OutlookInv'
  BY <1>8, EnvironmentOutlook
<1>9. OutlookInv'
  BY <1>4, <1>5, <1>6, <1>7, <1>8 DEF Next, Holder
<1> QED BY <1>1, <1>9 DEF AtomicInv

\* When only one disk is possible, and the next ones yield the same.
LEMMA SoleViews ==
  ASSUME disk \in media, OutlookInv, (disk \in media /\ OutlookInv)', media = {disk},
         Exposing, Yields(disk') = Yields(disk)
  PROVE  Agreed /\ Agreed' /\ CurrentGeneration' = CurrentGeneration
<1>1. View /\ View'
  BY Views, ViewsNext
<1>2. Agreed
  BY <1>1 DEF View, Divided, YieldsBefore
<1>3. Agreed'
  <2>1. \A c, d \in media' : Yields(c) = Yields(d)
    BY DEF Exposing
  <2> QED BY <1>1, <2>1 DEF View, Divided, YieldsBefore, Yields, ProjectOf
<1> QED BY <1>2, <1>3 DEF Agreed, Yields, ProjectOf

\* Every step replaces the generation as a whole, or not at all.
LEMMA StepIsAtomic ==
  ASSUME OrderedMetadata, NoEditor, Readable, AtomicInv, AtomicInv', [Next]_vars
  PROVE  [Atomic!Next]_(Atomic!vars)
<1>0. /\ TypeInv /\ TypeInv' /\ OutlookInv /\ OutlookInv' /\ disk \in media /\ disk' \in media'
      /\ View /\ View'
  <2>1. /\ TypeInv /\ TypeInv' /\ OutlookInv /\ OutlookInv' /\ disk \in media /\ disk' \in media'
    BY DEF AtomicInv, ReportInv, RollbackInv, JournalInv, TypeInv, DiskOK
  <2> QED BY <2>1, Views, ViewsNext
<1>1. ~Editor
  BY DEF NoEditor, Editor, EditorSaves, EditorWritesOpenFile, EditorRemoves
<1>2. CASE Continues /\ pc \notin Opening /\ pc' \notin Opening
  BY <1>0, <1>2, ContinuesMaps
<1>3. ASSUME job.rec \in Record PROVE job.rec.after \in Generation /\ job.rec.after # None
  BY <1>3, BytesAssumption, AbsentAssumption DEF Record, Generation, Roles, None
<1>4. pc \in Opening => media = {disk} /\ job.rec \in Record
  BY <1>0 DEF OutlookInv, PlacesKnown, Durable, Opening, TypeInv, ControlOK, WithRecord, Places
<1>5. ASSUME Exposing, Yields(disk') = Yields(disk), pc \in Opening,
             pc' \in Opening => job'.rec = job.rec
      PROVE  [Atomic!Next]_(Atomic!vars)
  <2>1. Agreed /\ Agreed' /\ CurrentGeneration' = CurrentGeneration
    BY <1>0, <1>4, <1>5, SoleViews
  <2>2. OpenGeneration = job.rec.after /\ OpenGeneration # None
    BY <1>3, <1>4, <1>5, <2>1 DEF Agreed
  <2>3. OpenGeneration' = IF pc' \in Opening THEN job'.rec.after ELSE None
    BY <2>1 DEF Agreed, Opening
  <2>4. CASE pc' \in Opening
    BY <1>5, <2>1, <2>2, <2>3, <2>4 DEF Atomic!vars
  <2>5. CASE pc' \notin Opening
    BY <2>1, <2>2, <2>3, <2>5, Abandons
  <2> QED BY <2>4, <2>5
<1>6. CASE Recovery
  <2>1. pc \notin Opening
    BY <1>6 DEF Recovery, Recover, Restore, PutBack, Retain, MoveCurrent, VerifyCurrent,
                ReturnCurrent, Unpark, StageImage, PublishImage, Clear, ClearImage, Opening
  <2> QED BY <1>2, <1>6, <2>1, RecoveryContinues
<1>7. CASE Admit \/ Commit \/ Stage \/ SaveImage
  <2>1. /\ Continues /\ pc \notin Opening
        /\ pc' \in Opening => /\ media = {disk} /\ job'.rec = job.rec
                              /\ job.rec \in Record /\ Yields(disk') = Yields(disk)
    BY <1>7, PrepareContinues
  <2>2. CASE pc' \in Opening
    <3>1. Agreed /\ Agreed' /\ CurrentGeneration' = CurrentGeneration
      BY <1>0, <2>1, <2>2, SoleViews DEF Continues
    <3>2. OpenGeneration = None /\ OpenGeneration' = job.rec.after
      BY <2>1, <2>2, <3>1 DEF Agreed, Opening
    <3> QED BY <1>3, <2>1, <2>2, <3>1, <3>2, Proposes
  <2> QED BY <1>2, <2>1, <2>2
<1>8. CASE MarkPending \/ Park \/ VerifyParked \/ Publish \/ VerifyGeneration
  <2>1. Exposing /\ Yields(disk') = Yields(disk) /\ pc \in Opening
        /\ (pc' \in Opening => job'.rec = job.rec)
    BY <1>8, PendingOutlook, ReplaceContinues DEF Continues
  <2> QED BY <1>5, <2>1
<1>9. CASE MarkCommitted
  <2>1. /\ pc \in Opening /\ pc' \notin Opening /\ media = {disk}
        /\ Yields(disk) = job.rec.before
        /\ \/ Exposing /\ Yields(disk') = Yields(disk)
           \/ media' = {disk'} /\ Yields(disk') = job.rec.after
           \/ /\ media' = {disk, disk'} /\ Yields(disk') = job.rec.after
              /\ Marked(disk) /\ disk[Marker].before = job.rec.before
              /\ disk[Marker].after = job.rec.after
    BY <1>9, CommittedOutlook DEF Opening
  <2>2. /\ Agreed /\ CurrentGeneration = job.rec.before
        /\ OpenGeneration = job.rec.after /\ OpenGeneration # None
    <3>1. Agreed
      BY <1>0, <2>1 DEF View, Divided, YieldsBefore
    <3> QED BY <1>3, <1>4, <2>1, <3>1 DEF Agreed
  <2>3. CASE Exposing /\ Yields(disk') = Yields(disk)
    BY <1>5, <2>1, <2>3
  <2>4. CASE media' = {disk'} /\ Yields(disk') = job.rec.after
    <3>1. Agreed'
      <4>1. \A c, d \in media' : Yields(c) = Yields(d)
        BY <2>4
      <4> QED BY <1>0, <4>1 DEF View, Divided, YieldsBefore, Yields, ProjectOf
    <3>2. CurrentGeneration' = job.rec.after /\ OpenGeneration' = None
      BY <2>1, <2>4, <3>1 DEF Agreed, Yields, ProjectOf, Opening
    <3> QED BY <2>2, <3>2, Commits
  <2>5. CASE /\ media' = {disk, disk'} /\ Yields(disk') = job.rec.after
             /\ Marked(disk) /\ disk[Marker].before = job.rec.before
             /\ disk[Marker].after = job.rec.after
    <3>1. job.rec.before # job.rec.after
      BY <1>0, <2>1 DEF OutlookInv, PlacesKnown, Recorded, Imaged, Opening
    <3>2. ~Agreed'
      BY <2>1, <2>5, <3>1 DEF Agreed, Settled, Yields, ProjectOf
    <3>3. PICK e \in media' : /\ Marked(e) /\ CurrentGeneration' = e[Marker].before
                              /\ OpenGeneration' = e[Marker].after
      BY <1>0, <3>2 DEF View, Divided, YieldsBefore, Marked
    <3>4. e[Marker].before = job.rec.before /\ e[Marker].after = job.rec.after
      BY <1>0, <2>5, <3>3 DEF OutlookInv, OneJournal, Marked
    <3> QED BY <2>2, <3>3, <3>4 DEF Atomic!vars
  <2> QED BY <2>1, <2>3, <2>4, <2>5
<1>10. CASE Abort
  BY <1>2, <1>10, AbortContinues
<1>11. ASSUME pc' \notin Opening, Exposing, media' = media, disk' = disk, Continues
       PROVE  [Atomic!Next]_(Atomic!vars)
  BY <1>2, <1>5, <1>11
<1>12. CASE Begin \/ Crash \/ PowerLoss
  <2>1. /\ pc' \notin Opening
        /\ \/ UNCHANGED <<disk, media>> /\ Continues
           \/ disk' \in media /\ media' = {disk'}
    BY <1>12, EnvironmentOutlook
  <2>2. CASE UNCHANGED <<disk, media>> /\ Continues
    BY <1>11, <2>1, <2>2 DEF Continues
  <2>3. CASE disk' \in media /\ media' = {disk'}
    <3>1. CurrentGeneration' = Yields(disk') /\ OpenGeneration' = None
      <4>1. \A c, d \in media' : Yields(c) = Yields(d)
        BY <2>3
      <4>2. Agreed'
        BY <1>0, <4>1 DEF View, Divided, YieldsBefore, Yields, ProjectOf
      <4> QED BY <2>1, <4>2 DEF Agreed, Yields, ProjectOf, Opening
    <3>2. CASE Agreed
      <4>1. CurrentGeneration = Yields(disk')
        BY <2>3, <3>2 DEF Agreed, Settled
      <4> QED BY <3>1, <4>1, Abandons DEF Atomic!vars
    <3>3. ASSUME NEW e \in media, NEW d \in media, Divided(e, d)
          PROVE  [Atomic!Next]_(Atomic!vars)
      <4>1. Marked(e) /\ e[Marker].after # None
        BY <1>0, <3>3, JournalTypes DEF Divided, YieldsBefore
      <4>2. Yields(disk') \in {e[Marker].before, e[Marker].after}
        BY <1>0, <2>3, <4>1 DEF OutlookInv, OneJournal
      <4> QED BY <3>1, <3>3, <4>1, <4>2, Abandons, Commits DEF Divided
    <3> QED BY <1>0, <3>2, <3>3 DEF View
  <2> QED BY <2>1, <2>2, <2>3
<1>13. CASE UNCHANGED vars
  BY <1>13 DEF CurrentGeneration, OpenGeneration, Outlook, Yields, ProjectOf, Atomic!vars, vars
<1> QED BY <1>1, <1>6, <1>7, <1>8, <1>9, <1>10, <1>12, <1>13 DEF Next, Holder, Commitment

LEMMA AtomicInit == Init => AtomicInv /\ Atomic!Init
<1> SUFFICES ASSUME Init PROVE AtomicInv /\ Atomic!Init
  OBVIOUS
<1>1. ReportInv
  <2>1. AdmittedInv /\ ReportKnown
    BY DEF Init, AdmittedInv, ReplacesWhatWasAdmitted, ReportKnown, NoJob, Unmarked,
           Recorded, Imaged, Restoring
  <2> QED BY <2>1, RollbackInit DEF ReportInv
<1>2. SpentOK
  BY DEF Init, SpentOK
<1>3. ~Marked(disk) /\ media = {disk} /\ pc = "idle"
  BY PrivateFacts DEF Init, Marked, Marker
<1>4. PlacesKnown
  BY <1>3 DEF PlacesKnown, Durable, Opening, Restoring, Recorded, Imaged
<1>5. OutlookInv
  BY <1>3, <1>4 DEF OutlookInv, OneJournal, Changing, Settled
<1>6. Yields(disk) \in Generation
  <2>1. PICK g \in Generation :
          disk = [e \in Entry |-> IF e[1] = "project" THEN g[e[3]] ELSE Absent]
    BY DEF Init
  <2>2. \A r \in Roles : disk[Project(r)] = g[r]
    BY <2>1, EntryFacts DEF Project
  <2>3. ProjectOf(disk) = g
    BY <2>2 DEF ProjectOf, Generation
  <2> QED BY <1>3, <2>3 DEF Yields, Marked
<1>7. CurrentGeneration = Yields(disk) /\ OpenGeneration = None
  BY <1>3, SettledView DEF Settled, Opening
<1> QED BY <1>1, <1>2, <1>5, <1>6, <1>7 DEF AtomicInv, Atomic!Init

LEMMA AtomicInvariant ==
  ASSUME OrderedMetadata, NoEditor, Readable PROVE Spec => []AtomicInv
BY AtomicInit, AtomicStep, PTL DEF Spec

\* The journal implements AtomicGeneration: a project that nobody else edits has
\* at every moment one generation, which a command replaces at one point in time
\* or not at all, whatever operation fails, whenever the process is killed and
\* whatever a power loss leaves.
THEOREM JournalReplacesAtomically ==
  ASSUME OrderedMetadata, NoEditor, Readable PROVE Spec => ReplacedAtomically
<1>1. AtomicInv /\ AtomicInv' /\ [Next]_vars => [Atomic!Next]_(Atomic!vars)
  BY StepIsAtomic
<1>2. Init => Atomic!Init
  BY AtomicInit
<1> QED BY <1>1, <1>2, AtomicInvariant, PTL DEF Spec, ReplacedAtomically, Atomic!Spec
=============================================================================
