------------------------------ MODULE Attendance ------------------------------
(***************************************************************************)
(* The register of one day and the absence alerts that follow from it.     *)
(* Staff save sheets (AttendanceService.mark_attendance): in one database  *)
(* transaction each row is loaded and saved in turn, so two sheets         *)
(* interleave row by row and hold row locks until they commit.  After the  *)
(* commit a job is enqueued for every student whose status became absent;  *)
(* Solid Queue's threads run AttendanceNotificationJob, which reads the    *)
(* register again and sends an SMS to each parent.                         *)
(***************************************************************************)
EXTENDS Integers, Sequences, FiniteSets

CONSTANTS
    Requests,   \* requests that save one sheet each
    Students, Parents,
    Enrolled,   \* the students of the classroom
    Phones,     \* for each student, the parents that have a phone number
    Sheets,     \* the sheets staff may submit
    Attempts,   \* retry_on ... attempts: 5
    MaxFaults,  \* bound: crashes, raised errors and switches together
    None

Statuses == {"present", "absent", "late", "excused"}

\* A row of a sheet: a student and a status, None for one the model does not know.
Entry == Students \X (Statuses \cup {None})

ASSUME SheetsAreEntries == Sheets \subseteq Seq(Entry)
ASSUME ClassAndPhones == Enrolled \subseteq Students /\ Phones \in [Students -> SUBSET Parents]
ASSUME Bounds == Attempts \in Nat \ {0} /\ MaxFaults \in Nat
ASSUME FiniteRequests == IsFiniteSet(Requests)
ASSUME NoneIsNoStatus == None \notin Statuses

\* Rows of students of other classes and rows with an unknown status are skipped.
Skipped(e) == e[1] \notin Enrolled \/ e[2] = None

\* The form has one row for each student.
ASSUME OneRowPerStudent ==
    \A rows \in Sheets : \A i, j \in DOMAIN rows :
        rows[i][1] = rows[j][1] /\ ~Skipped(rows[i]) /\ ~Skipped(rows[j]) => i = j

VARIABLES
    row,      \* the register: the committed status of each student, or None
    enabled,  \* Integrations.sms_enabled?
    pc,       \* where each request stands
    sheet,    \* the rows it has left to save, the current one first
    loaded,   \* the status it loaded for the current row
    marked,   \* the statuses of the records it has saved
    written,  \* what its transaction has written, and so locked
    due,      \* students it has to enqueue a job for, in order
    job,      \* the job that request r enqueued for student s
    tries,    \* its executions
    todo,     \* parents its current execution has not come to
    sent,     \* history: messages sent about each student to each parent
    last,     \* history: the status in the last sheet saved
    turns,    \* history: commits that turned the row to absent
    overlapped, \* history: two sheets were being saved at once
    faults

requestVars == <<pc, sheet, loaded, marked, written, due>>
jobVars == <<job, tries, todo, sent>>
history == <<last, turns, overlapped>>
vars == <<row, enabled, requestVars, jobVars, history, faults>>

StatusOrNone == Statuses \cup {None}

TypeOK ==
    /\ row \in [Students -> StatusOrNone] /\ last \in [Students -> StatusOrNone]
    /\ enabled \in BOOLEAN
    /\ pc \in [Requests -> {"idle", "load", "save", "notify", "done"}]
    /\ sheet \in [Requests -> Seq(Entry)] /\ due \in [Requests -> Seq(Students)]
    /\ loaded \in [Requests -> StatusOrNone]
    /\ marked \in [Requests -> [Students -> StatusOrNone]]
    /\ written \in [Requests -> [Students -> StatusOrNone]]
    /\ job \in [Requests -> [Students -> {"none", "queued", "sending", "done", "failed"}]]
    /\ tries \in [Requests -> [Students -> 0 .. Attempts]]
    /\ todo \in [Requests -> [Students -> SUBSET Parents]]
    /\ sent \in [Students -> [Parents -> Nat]]
    /\ turns \in [Students -> Nat] /\ overlapped \in BOOLEAN
    /\ faults \in 0 .. MaxFaults
    \* No two transactions hold the same row.
    /\ \A q, r \in Requests, s \in Students :
           written[q][s] # None /\ written[r][s] # None => q = r

Unwritten == [s \in Students |-> None]

Init ==
    /\ row \in [Students -> {None, "present"}] /\ last = row
    /\ enabled \in BOOLEAN
    /\ pc = [r \in Requests |-> "idle"]
    /\ sheet = [r \in Requests |-> <<>>] /\ due = [r \in Requests |-> <<>>]
    /\ loaded = [r \in Requests |-> None]
    /\ marked = [r \in Requests |-> Unwritten]
    /\ written = [r \in Requests |-> Unwritten]
    /\ job = [r \in Requests |-> [s \in Students |-> "none"]]
    /\ tries = [r \in Requests |-> [s \in Students |-> 0]]
    /\ todo = [r \in Requests |-> [s \in Students |-> {}]]
    /\ sent = [s \in Students |-> [p \in Parents |-> 0]]
    /\ turns = [s \in Students |-> 0] /\ overlapped = FALSE /\ faults = 0

-----------------------------------------------------------------------------
(* Saving a sheet.                                                         *)

Student(r) == Head(sheet[r])[1]
Status(r) == Head(sheet[r])[2]

Submit(r, rows) ==
    /\ pc[r] = "idle"
    /\ pc' = [pc EXCEPT ![r] = "load"]
    /\ sheet' = [sheet EXCEPT ![r] = rows]
    /\ overlapped' = (overlapped \/ \E q \in Requests : pc[q] \notin {"idle", "done"})
    /\ UNCHANGED <<row, enabled, loaded, marked, written, due, jobVars, last, turns, faults>>

SkipRow(r) ==
    /\ pc[r] = "load" /\ sheet[r] # <<>> /\ Skipped(Head(sheet[r]))
    /\ sheet' = [sheet EXCEPT ![r] = Tail(@)]
    /\ UNCHANGED <<row, enabled, pc, loaded, marked, written, due, jobVars, history, faults>>

\* find_or_initialize_by: the committed row, or a new one.
LoadRow(r) ==
    /\ pc[r] = "load" /\ sheet[r] # <<>> /\ ~Skipped(Head(sheet[r]))
    /\ loaded' = [loaded EXCEPT ![r] = row[Student(r)]]
    /\ pc' = [pc EXCEPT ![r] = "save"]
    /\ UNCHANGED <<row, enabled, sheet, marked, written, due, jobVars, history, faults>>

\* A row another transaction has written: the statement waits for its end.
Holders(r) == {q \in Requests \ {r} : written[q][Student(r)] # None}

\* Roll back and answer "Could not save attendance", or 500.
Refuse(r) ==
    /\ pc' = [pc EXCEPT ![r] = "done"]
    /\ marked' = [marked EXCEPT ![r] = Unwritten]
    /\ written' = [written EXCEPT ![r] = Unwritten]
    /\ due' = [due EXCEPT ![r] = <<>>]
    /\ UNCHANGED <<row, enabled, sheet, loaded, jobVars, history>>

\* A new row whose student and date exist by now: validation or unique index.
RefuseDuplicate(r) ==
    /\ pc[r] = "save" /\ Holders(r) = {}
    /\ loaded[r] = None /\ row[Student(r)] # None
    /\ Refuse(r)
    /\ UNCHANGED faults

\* Mutant: the change is from the default status, whatever was loaded.
StatusNotDefault(r) == Status(r) # "present"

\* saved_change_to_status?: against the status loaded, "present" for a new row.
StatusChanged(r) == Status(r) # (IF loaded[r] = None THEN "present" ELSE loaded[r])

\* Mutant: absences are only reported for new rows (after_commit on: :create).
NotifiableIfNew(r) == Status(r) = "absent" /\ loaded[r] = None

\* Mutant: saved_change_to_status? is not asked.
NotifiableAlways(r) == Status(r) = "absent"

\* enqueue_absence_notification
Notifiable(r) == Status(r) = "absent" /\ StatusChanged(r)

\* What the statement stores: an UPDATE sets the columns that differ from those
\* loaded, so a status equal to the one loaded leaves the row's own.
Stored(r) ==
    IF loaded[r] = None \/ StatusChanged(r) THEN Status(r) ELSE row[Student(r)]

SaveRow(r) ==
    /\ pc[r] = "save" /\ Holders(r) = {}
    /\ loaded[r] # None \/ row[Student(r)] = None
    /\ written' = [written EXCEPT ![r][Student(r)] = Stored(r)]
    /\ marked' = [marked EXCEPT ![r][Student(r)] = Status(r)]
    /\ due' = [due EXCEPT ![r] = IF Notifiable(r) THEN Append(@, Student(r)) ELSE @]
    /\ sheet' = [sheet EXCEPT ![r] = Tail(@)]
    /\ pc' = [pc EXCEPT ![r] = "load"]
    /\ UNCHANGED <<row, enabled, loaded, jobVars, history, faults>>

\* Every transaction of a set that waits only for one another: the database picks
\* a victim, and the request answers 500.
Deadlocked(r) ==
    \E C \in SUBSET Requests :
        /\ r \in C
        /\ \A q \in C : pc[q] = "save" /\ Holders(q) # {}
        /\ C = UNION {Holders(q) : q \in C}

Victim(r) == Deadlocked(r) /\ Refuse(r) /\ UNCHANGED faults

\* The transaction commits; "Attendance saved." once its callbacks have run.
Commit(r) ==
    /\ pc[r] = "load" /\ sheet[r] = <<>>
    /\ row' = [s \in Students |->
                  IF written[r][s] # None THEN written[r][s] ELSE row[s]]
    /\ last' = [s \in Students |->
                   IF marked[r][s] # None THEN marked[r][s] ELSE last[s]]
    /\ turns' = [s \in Students |->
                    IF row'[s] = "absent" /\ row[s] # "absent" THEN turns[s] + 1
                                                               ELSE turns[s]]
    /\ written' = [written EXCEPT ![r] = Unwritten]
    /\ pc' = [pc EXCEPT ![r] = "notify"]
    /\ UNCHANGED <<enabled, sheet, loaded, marked, due, jobVars, overlapped, faults>>

\* AttendanceNotificationJob.perform_later, one record after the other.
Enqueue(r) ==
    /\ pc[r] = "notify" /\ due[r] # <<>>
    /\ job' = [job EXCEPT ![r][Head(due[r])] = "queued"]
    /\ due' = [due EXCEPT ![r] = Tail(@)]
    /\ UNCHANGED <<row, enabled, pc, sheet, loaded, marked, written, tries, todo, sent,
                   history, faults>>

Answer(r) ==
    /\ pc[r] = "notify" /\ due[r] = <<>>
    /\ pc' = [pc EXCEPT ![r] = "done"]
    /\ UNCHANGED <<row, enabled, sheet, loaded, marked, written, due, jobVars,
                   history, faults>>

-----------------------------------------------------------------------------
(* The job, executed by Solid Queue.                                       *)

AfterJob(r, s, state) ==
    /\ job' = [job EXCEPT ![r][s] = state]
    /\ UNCHANGED <<row, enabled, requestVars, sent, history>>

\* A worker claims the job and reads the register, which may have been corrected;
\* it loads the student's parents if there is something to send.
Perform(r, s) ==
    /\ job[r][s] = "queued"
    /\ tries' = [tries EXCEPT ![r][s] = @ + 1]
    /\ \/ /\ row[s] = "absent" /\ enabled
          /\ todo' = [todo EXCEPT ![r][s] = Phones[s]]
          /\ AfterJob(r, s, "sending")
       \/ /\ row[s] # "absent" \/ ~enabled
          /\ UNCHANGED todo
          /\ AfterJob(r, s, "done")
    /\ UNCHANGED faults

\* SmsService.send_single asks for the integration again.
Send(r, s, p) ==
    /\ job[r][s] = "sending" /\ p \in todo[r][s]
    /\ todo' = [todo EXCEPT ![r][s] = @ \ {p}]
    /\ sent' = IF enabled THEN [sent EXCEPT ![s][p] = @ + 1] ELSE sent
    /\ UNCHANGED <<row, enabled, requestVars, job, tries, history, faults>>

\* Mutant: the execution raises after its last message, and is retried.
FinishRaising(r, s) ==
    /\ job[r][s] = "sending" /\ todo[r][s] = {}
    /\ UNCHANGED <<tries, todo, faults>>
    /\ AfterJob(r, s, IF tries[r][s] < Attempts THEN "queued" ELSE "failed")

Finish(r, s) ==
    /\ job[r][s] = "sending" /\ todo[r][s] = {}
    /\ UNCHANGED <<tries, todo, faults>>
    /\ AfterJob(r, s, "done")

-----------------------------------------------------------------------------
(* Faults.                                                                 *)

Fault == faults < MaxFaults /\ faults' = faults + 1

\* The request's thread dies, or a statement of it raises: before the commit
\* everything is undone, after it the jobs not yet enqueued are lost.
Crash(r) ==
    /\ Fault
    /\ \/ pc[r] \in {"load", "save"} /\ Refuse(r)
       \/ /\ pc[r] = "notify"
          /\ pc' = [pc EXCEPT ![r] = "done"]
          /\ due' = [due EXCEPT ![r] = <<>>]
          /\ UNCHANGED <<row, enabled, sheet, loaded, marked, written, jobVars, history>>

\* Mutant: the attempts are not counted.
RetryForever(r, s) ==
    /\ Fault
    /\ job[r][s] = "sending"
    /\ todo' = [todo EXCEPT ![r][s] = {}]
    /\ UNCHANGED tries
    /\ AfterJob(r, s, "queued")

\* An execution raises: the job starts over until its attempts are used up.
Retry(r, s) ==
    /\ Fault
    /\ job[r][s] = "sending"
    /\ todo' = [todo EXCEPT ![r][s] = {}]
    /\ UNCHANGED tries
    /\ AfterJob(r, s, IF tries[r][s] < Attempts THEN "queued" ELSE "failed")

\* The worker is killed: Solid Queue fails the job it had claimed.
Kill(r, s) ==
    /\ Fault
    /\ job[r][s] = "sending"
    /\ todo' = [todo EXCEPT ![r][s] = {}]
    /\ UNCHANGED tries
    /\ AfterJob(r, s, "failed")

\* The worker is stopped before it is done: Solid Queue releases the job, which
\* starts over without having used up an attempt.
Release(r, s) ==
    /\ Fault
    /\ job[r][s] = "sending"
    /\ todo' = [todo EXCEPT ![r][s] = {}]
    /\ tries' = [tries EXCEPT ![r][s] = @ - 1]
    /\ AfterJob(r, s, "queued")

\* Flipper.enable(:sms), Flipper.disable(:sms).
Switch ==
    /\ Fault
    /\ enabled' = ~enabled
    /\ UNCHANGED <<row, requestVars, jobVars, history>>

Save(r) ==
    \/ SkipRow(r) \/ LoadRow(r) \/ RefuseDuplicate(r) \/ SaveRow(r) \/ Victim(r)
    \/ Commit(r) \/ Enqueue(r) \/ Answer(r)

Work(r, s) ==
    \/ Perform(r, s) \/ Finish(r, s)
    \/ \E p \in Parents : Send(r, s, p)

\* Every sheet is saved and the queue is empty.
Rest ==
    /\ \A r \in Requests : pc[r] = "done"
    /\ \A r \in Requests, s \in Students : job[r][s] \notin {"queued", "sending"}
    /\ UNCHANGED vars

Next ==
    \/ \E r \in Requests : Save(r) \/ Crash(r) \/ \E rows \in Sheets : Submit(r, rows)
    \/ \E r \in Requests, s \in Students :
           Work(r, s) \/ Retry(r, s) \/ Kill(r, s) \/ Release(r, s)
    \/ Switch
    \/ Rest

Spec == Init /\ [][Next]_vars

\* Puma threads finish the requests they have taken, and Solid Queue polls until
\* its queue is empty.
FairSpec ==
    /\ Spec
    /\ \A r \in Requests : WF_vars(Save(r))
    /\ \A r \in Requests, s \in Students : WF_vars(Work(r, s))

-----------------------------------------------------------------------------
(* Properties.                                                             *)

\* The job that r owes, or has enqueued, for s may still send.
Pending(r, s) ==
    \/ pc[r] = "notify" /\ \E i \in DOMAIN due[r] : due[r][i] = s
    \/ job[r][s] \in {"queued", "sending"}

\* As long as nothing fails, a student who stands absent in the register has had
\* every parent with a phone alerted, or a job for it is on its way - although a
\* job may have found the absence corrected and the absence come back since
\* (attendance.rb:37-42, attendance_notification_job.rb:18-21).
NoSilentAbsence ==
    \A s \in Students :
        faults = 0 /\ enabled /\ row[s] = "absent" =>
            \/ \A p \in Phones[s] : sent[s][p] > 0
            \/ \E r \in Requests : Pending(r, s)

\* A message about a student goes out at most once for each sheet that marked the
\* student absent, and again for each fault: a retry starts with the first parent
\* (attendance_notification_job.rb:6, sms_service.rb:40-46).
Absences(s) == {r \in Requests : marked[r][s] = "absent"}

AlertsBounded ==
    \A s \in Students, p \in Parents :
        sent[s][p] <= Cardinality(Absences(s)) + faults

\* As long as sheets are saved one at a time, once for each time the register turned to
\* absent: saving the same sheet again alerts nobody (attendance.rb:39).
OneAlertPerTurn ==
    ~overlapped => \A s \in Students, p \in Parents : sent[s][p] <= turns[s] + faults

\* As long as no two sheets are saved at once, the register shows what the last sheet
\* that was saved said (attendances_controller.rb:49, "Attendance saved.").  Of two
\* that overlap, the later may leave a status of the other's where it loaded the row
\* before the other committed it (attendance_service.rb:28).
LastOfApartStands == ~overlapped => row = last

\* A parent is eventually alerted of an absence that is not corrected.
AbsenceIsAlerted ==
    \A s \in Students : \A p \in Phones[s] :
        (enabled /\ row[s] = "absent") ~> (sent[s][p] > 0 \/ row[s] # "absent")
=============================================================================
