--------------------------- MODULE AttendanceProofs ---------------------------
(* Proofs about Attendance: typing with exclusive row locks, that no        *)
(* absence is silent, and how often an absence is reported.                 *)
EXTENDS Attendance, FiniteSetTheorems, TLAPS

-----------------------------------------------------------------------------
(* Sequences.                                                              *)

In(x, q) == \E i \in DOMAIN q : q[i] = x

LEMMA InAppend ==
  ASSUME NEW S, NEW q \in Seq(S), NEW y \in S, NEW x
  PROVE  /\ Append(q, y) \in Seq(S)
         /\ In(x, Append(q, y)) <=> In(x, q) \/ x = y
<1>1. /\ Append(q, y) \in Seq(S) /\ Len(Append(q, y)) = Len(q) + 1 /\ Len(q) \in Nat
      /\ \A i \in 1 .. Len(q) : Append(q, y)[i] = q[i]
      /\ Append(q, y)[Len(q) + 1] = y
  OBVIOUS
<1>2. DOMAIN q = 1 .. Len(q) /\ DOMAIN Append(q, y) = 1 .. Len(q) + 1
  BY <1>1
<1>3. ASSUME In(x, Append(q, y)) PROVE In(x, q) \/ x = y
  BY <1>1, <1>2, <1>3 DEF In
<1>4. ASSUME In(x, q) PROVE In(x, Append(q, y))
  BY <1>1, <1>2, <1>4 DEF In
<1>5. ASSUME x = y PROVE In(x, Append(q, y))
  <2>1. Len(q) + 1 \in DOMAIN Append(q, y)
    BY <1>1, <1>2
  <2> QED
    BY <1>1, <1>5, <2>1 DEF In
<1> QED
  BY <1>1, <1>3, <1>4, <1>5

LEMMA InTail ==
  ASSUME NEW S, NEW q \in Seq(S), q # <<>>, NEW x
  PROVE  /\ Head(q) \in S /\ Tail(q) \in Seq(S) /\ In(Head(q), q)
         /\ In(x, q) <=> In(x, Tail(q)) \/ x = Head(q)
<1>1. /\ Tail(q) \in Seq(S) /\ Len(Tail(q)) = Len(q) - 1
      /\ Len(q) \in Nat /\ Len(q) > 0
      /\ \A i \in 1 .. Len(q) - 1 : Tail(q)[i] = q[i + 1]
      /\ Head(q) = q[1] /\ Head(q) \in S
  OBVIOUS
<1>2. DOMAIN q = 1 .. Len(q) /\ DOMAIN Tail(q) = 1 .. Len(q) - 1
  BY <1>1
<1>3. ASSUME In(x, q), x # Head(q) PROVE In(x, Tail(q))
  <2>1. PICK i \in 1 .. Len(q) : q[i] = x
    BY <1>2, <1>3 DEF In
  <2>2. i - 1 \in 1 .. Len(q) - 1 /\ Tail(q)[i - 1] = x
    BY <1>1, <1>3, <2>1
  <2> QED
    BY <1>2, <2>2 DEF In
<1>4. ASSUME In(x, Tail(q)) PROVE In(x, q)
  <2>1. PICK i \in 1 .. Len(q) - 1 : Tail(q)[i] = x
    BY <1>2, <1>4 DEF In
  <2>2. i + 1 \in 1 .. Len(q) /\ q[i + 1] = x
    BY <1>1, <2>1
  <2> QED
    BY <1>2, <2>2 DEF In
<1>5. In(Head(q), q)
  BY <1>1, <1>2 DEF In
<1> QED
  BY <1>1, <1>3, <1>4, <1>5

Distinct(q) == \A i, j \in DOMAIN q : q[i] = q[j] => i = j

LEMMA DistinctAppend ==
  ASSUME NEW S, NEW q \in Seq(S), NEW y \in S, Distinct(q), ~In(y, q)
  PROVE  Distinct(Append(q, y))
<1>1. /\ Len(q) \in Nat /\ DOMAIN q = 1 .. Len(q)
      /\ DOMAIN Append(q, y) = 1 .. Len(q) + 1
      /\ \A i \in 1 .. Len(q) : Append(q, y)[i] = q[i]
      /\ Append(q, y)[Len(q) + 1] = y
  OBVIOUS
<1>2. \A i \in 1 .. Len(q) : q[i] # y
  BY <1>1 DEF In
<1> QED
  BY <1>1, <1>2 DEF Distinct

LEMMA DistinctTail ==
  ASSUME NEW S, NEW q \in Seq(S), q # <<>>, Distinct(q)
  PROVE  Distinct(Tail(q)) /\ ~In(Head(q), Tail(q))
<1>1. /\ Len(q) \in Nat /\ Len(q) > 0 /\ DOMAIN q = 1 .. Len(q)
      /\ DOMAIN Tail(q) = 1 .. Len(q) - 1
      /\ \A i \in 1 .. Len(q) - 1 : i + 1 \in 1 .. Len(q) /\ Tail(q)[i] = q[i + 1]
      /\ Head(q) = q[1]
  OBVIOUS
<1>2. ASSUME NEW i \in 1 .. Len(q) - 1, NEW j \in 1 .. Len(q) - 1,
             Tail(q)[i] = Tail(q)[j]
      PROVE  i = j
  <2>1. i + 1 = j + 1
    BY <1>1, <1>2 DEF Distinct
  <2> QED
    BY <2>1
<1>3. ASSUME NEW i \in 1 .. Len(q) - 1 PROVE Tail(q)[i] # Head(q)
  <2>1. q[i + 1] # q[1]
    BY <1>1 DEF Distinct
  <2> QED
    BY <1>1, <2>1
<1> QED
  BY <1>1, <1>2, <1>3 DEF Distinct, In

JobStates == {"none", "queued", "sending", "done", "failed"}

\* One entry of a two-dimensional function changes.
LEMMA NestedUpdate ==
  ASSUME NEW A, NEW B, NEW S, NEW f \in [A -> [B -> S]], NEW a \in A, NEW b \in B,
         NEW v \in S
  PROVE  /\ [f EXCEPT ![a][b] = v] \in [A -> [B -> S]]
         /\ \A x \in A, y \in B : [f EXCEPT ![a][b] = v][x][y] =
                                       IF x = a /\ y = b THEN v ELSE f[x][y]
  OBVIOUS

-----------------------------------------------------------------------------
(* Typing.                                                                 *)

LEMMA InitTypeOK == Init => TypeOK
<1> SUFFICES ASSUME Init PROVE TypeOK
  OBVIOUS
<1> USE DEF Init
<1>1. /\ row \in [Students -> StatusOrNone] /\ last \in [Students -> StatusOrNone]
      /\ loaded \in [Requests -> StatusOrNone]
  BY DEF StatusOrNone, Statuses
<1>2. /\ marked \in [Requests -> [Students -> StatusOrNone]]
      /\ written \in [Requests -> [Students -> StatusOrNone]]
      /\ \A q, r \in Requests, s \in Students :
             written[q][s] # None /\ written[r][s] # None => q = r
  BY DEF StatusOrNone, Unwritten
<1>3. sheet \in [Requests -> Seq(Entry)] /\ due \in [Requests -> Seq(Students)]
  OBVIOUS
<1>4. tries \in [Requests -> [Students -> 0 .. Attempts]] /\ faults \in 0 .. MaxFaults
  BY Bounds
<1> QED
  BY <1>1, <1>2, <1>3, <1>4 DEF TypeOK

\* The row a request is at.
LEMMA CurrentRow ==
  ASSUME TypeOK, NEW r \in Requests, sheet[r] # <<>>
  PROVE  /\ Head(sheet[r]) \in Entry /\ Student(r) \in Students
         /\ Status(r) \in StatusOrNone /\ Tail(sheet[r]) \in Seq(Entry)
<1>1. Head(sheet[r]) \in Entry /\ Tail(sheet[r]) \in Seq(Entry)
  BY InTail DEF TypeOK
<1> QED
  BY <1>1 DEF Entry, Student, Status, StatusOrNone

\* Saving happens only at a row that is not skipped.
Saving == \A r \in Requests : pc[r] = "save" =>
              sheet[r] # <<>> /\ ~Skipped(Head(sheet[r]))

\* A request has at most one row left for a student, and none for one it marked;
\* it reports a student at most once, and only what it marked absent.
RowsOnce(r) ==
    /\ Distinct(due[r])
    /\ \A i \in DOMAIN sheet[r] : ~Skipped(sheet[r][i]) =>
           marked[r][sheet[r][i][1]] = None
    /\ \A i, j \in DOMAIN sheet[r] :
           sheet[r][i][1] = sheet[r][j][1] /\ ~Skipped(sheet[r][i])
               /\ ~Skipped(sheet[r][j]) => i = j
    /\ pc[r] = "idle" => due[r] = <<>> /\ marked[r] = Unwritten

JobOnce(r, s) ==
    /\ In(s, due[r]) => marked[r][s] = "absent" /\ job[r][s] = "none"
    /\ job[r][s] # "none" => marked[r][s] = "absent" /\ pc[r] \in {"notify", "done"}
    /\ job[r][s] = "none" => tries[r][s] = 0
    /\ job[r][s] = "queued" => tries[r][s] < Attempts
    /\ job[r][s] = "sending" => tries[r][s] > 0

Once == \A r \in Requests : RowsOnce(r) /\ \A s \in Students : JobOnce(r, s)

Typed == TypeOK /\ Saving

LEMMA RefuseTyped ==
  ASSUME Typed, NEW r \in Requests, Refuse(r), faults' \in 0 .. MaxFaults
  PROVE  Typed'
<1>1. Unwritten \in [Students -> StatusOrNone] /\ <<>> \in Seq(Students)
  BY DEF Unwritten, StatusOrNone
<1> QED
  BY <1>1 DEF Typed, Saving, TypeOK, Refuse, history, jobVars, Unwritten

\* A job moves on; requests and the register stay.
LEMMA AfterJobTyped ==
  ASSUME Typed, NEW r \in Requests, NEW s \in Students,
         NEW state \in {"queued", "sending", "done", "failed"}, AfterJob(r, s, state),
         tries' \in [Requests -> [Students -> 0 .. Attempts]],
         todo' \in [Requests -> [Students -> SUBSET Parents]],
         faults' \in 0 .. MaxFaults
  PROVE  Typed'
BY DEF Typed, Saving, TypeOK, AfterJob, history, requestVars

LEMMA TypedStep == Typed /\ Once /\ [Next]_vars => Typed'
<1> SUFFICES ASSUME Typed, Once, [Next]_vars PROVE Typed'
  OBVIOUS
<1>0. TypeOK /\ Saving /\ (Fault => faults' \in 0 .. MaxFaults)
  BY Bounds DEF Typed, TypeOK, Fault
<1>1. ASSUME NEW r \in Requests, NEW rows \in Sheets, Submit(r, rows) PROVE Typed'
  BY <1>0, <1>1, SheetsAreEntries DEF Typed, Saving, TypeOK, Submit, jobVars
<1>2. ASSUME NEW r \in Requests, SkipRow(r) PROVE Typed'
  <2>1. Tail(sheet[r]) \in Seq(Entry)
    BY <1>0, <1>2, CurrentRow DEF SkipRow
  <2> QED
    BY <1>0, <1>2, <2>1 DEF Typed, Saving, TypeOK, SkipRow, jobVars, history
<1>3. ASSUME NEW r \in Requests, LoadRow(r) PROVE Typed'
  <2>1. row[Student(r)] \in StatusOrNone
    BY <1>0, <1>3, CurrentRow DEF LoadRow, TypeOK
  <2> QED
    BY <1>0, <1>3, <2>1 DEF Typed, Saving, TypeOK, LoadRow, jobVars, history
<1>4. ASSUME NEW r \in Requests, SaveRow(r) PROVE Typed'
  <2> DEFINE s == Student(r)
  <2>1. /\ s \in Students /\ Status(r) \in StatusOrNone /\ Tail(sheet[r]) \in Seq(Entry)
        /\ Append(due[r], s) \in Seq(Students)
    BY <1>0, <1>4, CurrentRow, InAppend DEF SaveRow, Saving, TypeOK
  <2>2. Stored(r) \in StatusOrNone
    BY <1>0, <2>1 DEF Stored, TypeOK
  <2>3. \A q \in Requests \ {r} : written[q][s] = None
    BY <1>4 DEF SaveRow, Holders
  <2>4. /\ marked' \in [Requests -> [Students -> StatusOrNone]]
        /\ written' \in [Requests -> [Students -> StatusOrNone]]
        /\ due' \in [Requests -> Seq(Students)]
        /\ sheet' \in [Requests -> Seq(Entry)]
    BY <1>0, <1>4, <2>1, <2>2 DEF SaveRow, TypeOK
  <2>5. \A p, q \in Requests, t \in Students :
           written'[p][t] # None /\ written'[q][t] # None => p = q
    <3>1. \A q \in Requests, t \in Students :
             written'[q][t] # None => written[q][t] # None \/ (q = r /\ t = s)
      <4>1. written' = [written EXCEPT ![r][s] = Stored(r)]
        BY <1>4 DEF SaveRow
      <4>2. written \in [Requests -> [Students -> StatusOrNone]]
        BY <1>0 DEF TypeOK
      <4>3. \A q \in Requests, t \in Students :
               written'[q][t] = IF q = r /\ t = s THEN Stored(r) ELSE written[q][t]
        BY <2>1, <2>2, <4>1, <4>2, NestedUpdate
      <4> QED
        BY <4>3
    <3>2. \A p, q \in Requests, t \in Students :
             written[p][t] # None /\ written[q][t] # None => p = q
      BY <1>0 DEF TypeOK
    <3>3. \A q \in Requests : written[q][s] # None => q = r
      BY <2>3
    <3> QED
      BY <3>1, <3>2, <3>3
  <2> QED
    BY <1>0, <1>4, <2>4, <2>5 DEF Typed, Saving, TypeOK, SaveRow, jobVars, history
<1>5. ASSUME NEW r \in Requests, RefuseDuplicate(r) \/ Victim(r) PROVE Typed'
  BY <1>0, <1>5, RefuseTyped DEF RefuseDuplicate, Victim, TypeOK
<1>6. ASSUME NEW r \in Requests, Commit(r) PROVE Typed'
  <2>1. /\ row' \in [Students -> StatusOrNone] /\ last' \in [Students -> StatusOrNone]
        /\ turns' \in [Students -> Nat]
    BY <1>0, <1>6 DEF Commit, TypeOK
  <2>2. written' = [written EXCEPT ![r] = Unwritten] /\ UNCHANGED <<marked, due, sheet>>
    BY <1>6 DEF Commit
  <2>3. /\ written' \in [Requests -> [Students -> StatusOrNone]]
        /\ \A q, p \in Requests, s \in Students :
               written'[q][s] # None /\ written'[p][s] # None => q = p
    BY <1>0, <2>2 DEF TypeOK, Unwritten, StatusOrNone
  <2> QED
    BY <1>0, <1>6, <2>1, <2>2, <2>3 DEF Typed, Saving, TypeOK, Commit, jobVars
<1>7. ASSUME NEW r \in Requests, Enqueue(r) PROVE Typed'
  <2>1. Head(due[r]) \in Students /\ Tail(due[r]) \in Seq(Students)
    BY <1>0, <1>7, InTail DEF Enqueue, TypeOK
  <2>2. job' \in [Requests -> [Students -> {"none", "queued", "sending", "done", "failed"}]]
    BY <1>0, <1>7, <2>1, NestedUpdate, SMTT(30) DEF TypeOK, Enqueue
  <2>3. due' \in [Requests -> Seq(Students)]
    BY <1>0, <1>7, <2>1 DEF TypeOK, Enqueue
  <2>4. /\ UNCHANGED <<row, enabled, pc, sheet, loaded, marked, written, tries, todo>>
        /\ UNCHANGED <<sent, last, turns, overlapped, faults>>
    BY <1>7 DEF Enqueue, history
  <2>5. TypeOK'
    BY <1>0, <2>2, <2>3, <2>4 DEF TypeOK
  <2>6. Saving'
    BY <1>0, <2>4 DEF Saving
  <2> QED
    BY <2>5, <2>6 DEF Typed
<1>8. ASSUME NEW r \in Requests, Answer(r) PROVE Typed'
  BY <1>0, <1>8 DEF Typed, Saving, TypeOK, Answer, jobVars, history
<1>9. ASSUME NEW r \in Requests, Crash(r) PROVE Typed'
  <2>1. CASE Refuse(r)
    BY <1>0, <1>9, <2>1, RefuseTyped DEF Crash
  <2>2. CASE ~Refuse(r)
    <3>1. /\ pc' = [pc EXCEPT ![r] = "done"] /\ due' = [due EXCEPT ![r] = <<>>]
          /\ UNCHANGED <<row, enabled, sheet, loaded, marked, written, job, tries, todo>>
          /\ UNCHANGED <<sent, last, turns, overlapped>>
          /\ faults' \in 0 .. MaxFaults
      BY <1>0, <1>9, <2>2 DEF Crash, jobVars, history
    <3>2. due' \in [Requests -> Seq(Students)]
      BY <1>0, <3>1 DEF TypeOK
    <3>3. TypeOK'
      BY <1>0, <3>1, <3>2 DEF TypeOK
    <3>4. Saving'
      BY <1>0, <3>1 DEF Saving, TypeOK
    <3> QED
      BY <3>3, <3>4 DEF Typed
  <2> QED
    BY <2>1, <2>2
<1>10. ASSUME NEW r \in Requests, NEW s \in Students, Perform(r, s) PROVE Typed'
  <2>1. Phones[s] \in SUBSET Parents
    BY ClassAndPhones
  <2>2. todo' \in [Requests -> [Students -> SUBSET Parents]]
    <3>1. [todo EXCEPT ![r][s] = Phones[s]] \in [Requests -> [Students -> SUBSET Parents]]
      BY <1>0, <2>1, NestedUpdate, SMTT(30) DEF TypeOK
    <3> QED
      BY <1>0, <1>10, <3>1 DEF Perform, TypeOK
  <2>3. tries' \in [Requests -> [Students -> 0 .. Attempts]]
    <3>1. tries[r][s] + 1 \in 0 .. Attempts
      BY <1>0, <1>10, Bounds DEF Perform, TypeOK, Once, JobOnce
    <3>2. tries' = [tries EXCEPT ![r][s] = tries[r][s] + 1]
      BY <1>10 DEF Perform
    <3> QED
      BY <1>0, <3>1, <3>2, NestedUpdate DEF TypeOK
  <2> QED
    BY <1>0, <1>10, <2>2, <2>3, AfterJobTyped DEF Perform, TypeOK
<1>11. ASSUME NEW r \in Requests, NEW s \in Students, NEW p \in Parents, Send(r, s, p)
       PROVE  Typed'
  BY <1>0, <1>11 DEF Typed, Saving, TypeOK, Send, requestVars, history
<1>12. ASSUME NEW r \in Requests, NEW s \in Students, Finish(r, s) PROVE Typed'
  BY <1>0, <1>12, AfterJobTyped DEF Finish, TypeOK
<1>13. ASSUME NEW r \in Requests, NEW s \in Students, Retry(r, s) \/ Kill(r, s)
       PROVE  Typed'
  <2>1. /\ todo' \in [Requests -> [Students -> SUBSET Parents]]
        /\ tries' \in [Requests -> [Students -> 0 .. Attempts]]
        /\ faults' \in 0 .. MaxFaults
    <3>1. [todo EXCEPT ![r][s] = {}] \in [Requests -> [Students -> SUBSET Parents]]
      BY <1>0, NestedUpdate DEF TypeOK
    <3> QED
      BY <1>0, <1>13, <3>1 DEF Retry, Kill, TypeOK
  <2> QED
    BY <1>0, <1>13, <2>1, AfterJobTyped DEF Retry, Kill
<1>14. ASSUME NEW r \in Requests, NEW s \in Students, Release(r, s) PROVE Typed'
  <2>1. tries[r][s] - 1 \in 0 .. Attempts
    BY <1>0, <1>14, Bounds DEF Release, TypeOK, Once, JobOnce
  <2>2. tries' \in [Requests -> [Students -> 0 .. Attempts]]
    <3>1. tries' = [tries EXCEPT ![r][s] = tries[r][s] - 1]
      BY <1>14 DEF Release
    <3> QED
      BY <1>0, <2>1, <3>1, NestedUpdate DEF TypeOK
  <2>3. todo' \in [Requests -> [Students -> SUBSET Parents]]
    <3>1. [todo EXCEPT ![r][s] = {}] \in [Requests -> [Students -> SUBSET Parents]]
      BY <1>0, NestedUpdate DEF TypeOK
    <3> QED
      BY <1>14, <3>1 DEF Release
  <2> QED
    BY <1>0, <1>14, <2>2, <2>3, AfterJobTyped DEF Release, Fault
<1>15. CASE Switch
  BY <1>0, <1>15 DEF Typed, Saving, TypeOK, Switch, requestVars, jobVars, history
<1>16. CASE UNCHANGED vars
  BY <1>0, <1>16 DEF Typed, Saving, TypeOK, vars, requestVars, jobVars, history
<1> QED
  BY <1>1, <1>2, <1>3, <1>4, <1>5, <1>6, <1>7, <1>8, <1>9, <1>10, <1>11, <1>12, <1>13,
     <1>14, <1>15, <1>16 DEF Next, Save, Work, Rest

LEMMA TailIndex ==
  ASSUME NEW S, NEW q \in Seq(S), q # <<>>
  PROVE  /\ 1 \in DOMAIN q /\ Head(q) = q[1]
         /\ \A i \in DOMAIN Tail(q) : i + 1 \in DOMAIN q /\ Tail(q)[i] = q[i + 1]
         /\ \A i, j \in DOMAIN Tail(q) : i + 1 = j + 1 => i = j
         /\ \A i \in DOMAIN Tail(q) : i + 1 # 1
<1>1. /\ Len(q) \in Nat /\ Len(q) > 0 /\ DOMAIN q = 1 .. Len(q)
      /\ DOMAIN Tail(q) = 1 .. Len(q) - 1
      /\ \A i \in 1 .. Len(q) - 1 : Tail(q)[i] = q[i + 1]
      /\ Head(q) = q[1]
  OBVIOUS
<1> QED
  BY <1>1

\* What Once says of a request depends on its own variables only.
LEMMA RowsOnceLocal ==
  ASSUME NEW r, RowsOnce(r), due'[r] = due[r], sheet'[r] = sheet[r],
         marked'[r] = marked[r], pc'[r] = pc[r]
  PROVE  RowsOnce(r)'
BY DEF RowsOnce, Distinct, Skipped, Unwritten

LEMMA JobOnceLocal ==
  ASSUME NEW r, NEW s, JobOnce(r, s), due'[r] = due[r], marked'[r] = marked[r],
         pc'[r] = pc[r], job'[r][s] = job[r][s], tries'[r][s] = tries[r][s]
  PROVE  JobOnce(r, s)'
BY DEF JobOnce, In

\* A step of request r that leaves the jobs alone.
LEMMA OnceOfOne ==
  ASSUME Once, TypeOK, NEW r \in Requests, UNCHANGED <<job, tries>>,
         \A q \in Requests \ {r} : /\ due'[q] = due[q] /\ sheet'[q] = sheet[q]
                                   /\ marked'[q] = marked[q] /\ pc'[q] = pc[q],
         RowsOnce(r)', \A s \in Students : JobOnce(r, s)'
  PROVE  Once'
<1>1. ASSUME NEW q \in Requests, q # r PROVE RowsOnce(q)'
  BY <1>1, RowsOnceLocal DEF Once
<1>2. ASSUME NEW q \in Requests, NEW s \in Students, q # r PROVE JobOnce(q, s)'
  BY <1>2, JobOnceLocal DEF Once
<1> QED
  BY <1>1, <1>2 DEF Once

\* The job of r and s moves on; requests stay.
LEMMA OnceOfJob ==
  ASSUME Once, TypeOK, NEW r \in Requests, NEW s \in Students, UNCHANGED requestVars,
         \A q \in Requests, t \in Students :
             q # r \/ t # s => job'[q][t] = job[q][t] /\ tries'[q][t] = tries[q][t],
         JobOnce(r, s)'
  PROVE  Once'
<1>1. ASSUME NEW q \in Requests PROVE RowsOnce(q)'
  BY <1>1, RowsOnceLocal DEF Once, requestVars
<1>2. ASSUME NEW q \in Requests, NEW t \in Students, q # r \/ t # s
      PROVE  JobOnce(q, t)'
  BY <1>2, JobOnceLocal DEF Once, requestVars
<1> QED
  BY <1>1, <1>2 DEF Once

LEMMA RefuseOnce ==
  ASSUME Once, TypeOK, NEW r \in Requests, Refuse(r), pc[r] \in {"load", "save"}
  PROVE  Once'
<1>1. /\ due'[r] = <<>> /\ marked'[r] = Unwritten /\ pc'[r] = "done"
      /\ sheet'[r] = sheet[r] /\ UNCHANGED <<job, tries>>
  BY DEF Refuse, TypeOK, jobVars
<1>2. RowsOnce(r)'
  <2>1. \A i \in DOMAIN sheet[r] : ~Skipped(sheet[r][i]) => sheet[r][i][1] \in Students
    BY ClassAndPhones DEF Skipped
  <2> QED
    BY <1>1, <2>1 DEF Once, RowsOnce, Distinct, Skipped, Unwritten
<1>3. ASSUME NEW s \in Students PROVE JobOnce(r, s)'
  BY <1>1, <1>3, Bounds DEF Once, JobOnce, In
<1> QED
  BY <1>1, <1>2, <1>3, OnceOfOne DEF Refuse, TypeOK

LEMMA OnceStep == Typed /\ Once /\ [Next]_vars => Once'
<1> SUFFICES ASSUME Typed, Once, [Next]_vars PROVE Once'
  OBVIOUS
<1>0. TypeOK /\ Saving
  BY DEF Typed
<1>1. ASSUME NEW r \in Requests, NEW rows \in Sheets, Submit(r, rows) PROVE Once'
  <2>1. /\ due'[r] = <<>> /\ marked'[r] = Unwritten /\ sheet'[r] = rows
        /\ pc'[r] = "load" /\ UNCHANGED <<job, tries>>
    BY <1>0, <1>1 DEF Submit, TypeOK, Once, RowsOnce, jobVars
  <2>2. \A i \in DOMAIN rows : ~Skipped(rows[i]) => rows[i][1] \in Students
    BY ClassAndPhones DEF Skipped
  <2>3. RowsOnce(r)'
    BY <2>1, <2>2, OneRowPerStudent DEF RowsOnce, Distinct, Skipped, Unwritten
  <2>4. ASSUME NEW s \in Students PROVE JobOnce(r, s)'
    BY <1>1, <2>1, <2>4, Bounds DEF Submit, Once, JobOnce, In
  <2> QED
    BY <1>0, <1>1, <2>1, <2>3, <2>4, OnceOfOne DEF Submit, TypeOK
<1>2. ASSUME NEW r \in Requests, SkipRow(r) PROVE Once'
  <2>1. /\ due'[r] = due[r] /\ marked'[r] = marked[r] /\ sheet'[r] = Tail(sheet[r])
        /\ pc'[r] = pc[r] /\ UNCHANGED <<job, tries>> /\ sheet[r] # <<>>
        /\ sheet[r] \in Seq(Entry)
    BY <1>0, <1>2 DEF SkipRow, TypeOK, jobVars
  <2>2. RowsOnce(r)'
    BY <2>1, TailIndex DEF Once, RowsOnce, Distinct, Skipped, Unwritten
  <2>3. ASSUME NEW s \in Students PROVE JobOnce(r, s)'
    BY <2>1, <2>3, JobOnceLocal DEF Once
  <2> QED
    BY <1>0, <1>2, <2>1, <2>2, <2>3, OnceOfOne DEF SkipRow, TypeOK
<1>3. ASSUME NEW r \in Requests, LoadRow(r) \/ Answer(r) PROVE Once'
  <2>1. /\ UNCHANGED <<due, marked, sheet, job, tries>>
        /\ pc[r] # "idle" /\ pc'[r] # "idle"
        /\ pc[r] = "notify" => pc'[r] = "done"
        /\ pc[r] # "done" /\ (pc[r] = "notify" \/ pc[r] = "load")
    BY <1>0, <1>3 DEF LoadRow, Answer, TypeOK, jobVars
  <2>2. RowsOnce(r)'
    BY <2>1 DEF Once, RowsOnce, Distinct, Skipped, Unwritten
  <2>3. ASSUME NEW s \in Students PROVE JobOnce(r, s)'
    BY <2>1, <2>3, Bounds DEF Once, JobOnce, In
  <2> QED
    BY <1>0, <1>3, <2>1, <2>2, <2>3, OnceOfOne DEF LoadRow, Answer, TypeOK
<1>4. ASSUME NEW r \in Requests, SaveRow(r) PROVE Once'
  <2> DEFINE s == Student(r)
  <2>1. /\ sheet[r] # <<>> /\ ~Skipped(sheet[r][1]) /\ s = sheet[r][1][1]
        /\ s \in Students /\ sheet[r] \in Seq(Entry) /\ Status(r) \in StatusOrNone
        /\ 1 \in DOMAIN sheet[r] /\ pc[r] = "save"
    BY <1>0, <1>4, CurrentRow, TailIndex DEF SaveRow, Saving, TypeOK, Student
  <2>2. marked[r][s] = None /\ ~In(s, due[r]) /\ due[r] \in Seq(Students)
    BY <1>0, <2>1, NoneIsNoStatus DEF Once, RowsOnce, JobOnce, TypeOK, Statuses
  <2>3. /\ due'[r] = IF Notifiable(r) THEN Append(due[r], s) ELSE due[r]
        /\ sheet'[r] = Tail(sheet[r]) /\ pc'[r] = "load"
        /\ \A t \in Students : marked'[r][t] = IF t = s THEN Status(r) ELSE marked[r][t]
        /\ UNCHANGED <<job, tries>>
    BY <1>0, <1>4, <2>1 DEF SaveRow, TypeOK, jobVars
  <2>4. RowsOnce(r)'
    <3>1. Distinct(due'[r])
      BY <2>1, <2>2, <2>3, DistinctAppend DEF Once, RowsOnce
    <3>2. ASSUME NEW i \in DOMAIN sheet'[r], ~Skipped(sheet'[r][i])
          PROVE  marked'[r][sheet'[r][i][1]] = None
      <4>1. /\ i + 1 \in DOMAIN sheet[r] /\ sheet'[r][i] = sheet[r][i + 1] /\ i + 1 # 1
        BY <2>1, <2>3, <3>2, TailIndex
      <4>2. sheet[r][i + 1][1] # s
        BY <2>1, <3>2, <4>1 DEF Once, RowsOnce
      <4>3. sheet[r][i + 1][1] \in Students
        BY <3>2, <4>1, ClassAndPhones DEF Skipped
      <4> QED
        BY <2>3, <3>2, <4>1, <4>2, <4>3 DEF Once, RowsOnce
    <3>3. \A i, j \in DOMAIN sheet'[r] :
             sheet'[r][i][1] = sheet'[r][j][1] /\ ~Skipped(sheet'[r][i])
                 /\ ~Skipped(sheet'[r][j]) => i = j
      BY <2>1, <2>3, TailIndex DEF Once, RowsOnce
    <3> QED
      BY <2>3, <3>1, <3>2, <3>3 DEF RowsOnce, Distinct, Skipped
  <2>5. ASSUME NEW t \in Students PROVE JobOnce(r, t)'
    <3>1. job[r][t] = "none"
      BY <2>1, <2>5 DEF Once, JobOnce
    <3>2. In(t, due'[r]) => In(t, due[r]) \/ (t = s /\ Status(r) = "absent")
      BY <2>1, <2>2, <2>3, InAppend DEF Notifiable
    <3>3. In(t, due'[r]) => marked'[r][t] = "absent"
      BY <2>2, <2>3, <2>5, <3>2 DEF Once, JobOnce
    <3> QED
      BY <2>3, <2>5, <3>1, <3>3, Bounds DEF Once, JobOnce, In
  <2> QED
    BY <1>0, <1>4, <2>3, <2>4, <2>5, OnceOfOne DEF SaveRow, TypeOK
<1>5. ASSUME NEW r \in Requests, RefuseDuplicate(r) \/ Victim(r) PROVE Once'
  <2>1. pc[r] \in {"load", "save"} /\ Refuse(r)
    BY <1>5 DEF RefuseDuplicate, Victim, Deadlocked
  <2> QED
    BY <1>0, <2>1, RefuseOnce
<1>6. ASSUME NEW r \in Requests, Commit(r) PROVE Once'
  <2>1. /\ UNCHANGED <<due, marked, sheet, job, tries>>
        /\ pc[r] = "load" /\ pc'[r] = "notify"
    BY <1>0, <1>6 DEF Commit, TypeOK, jobVars
  <2>2. RowsOnce(r)'
    BY <2>1 DEF Once, RowsOnce, Distinct, Skipped, Unwritten
  <2>3. ASSUME NEW s \in Students PROVE JobOnce(r, s)'
    BY <2>1, <2>3, Bounds DEF Once, JobOnce, In
  <2> QED
    BY <1>0, <1>6, <2>1, <2>2, <2>3, OnceOfOne DEF Commit, TypeOK
<1>7. ASSUME NEW r \in Requests, Enqueue(r) PROVE Once'
  <2> DEFINE s == Head(due[r])
  <2>1. /\ pc[r] = "notify" /\ due[r] \in Seq(Students) /\ due[r] # <<>>
        /\ s \in Students /\ In(s, due[r]) /\ Tail(due[r]) \in Seq(Students)
        /\ UNCHANGED <<pc, sheet, marked, tries>>
        /\ due' = [due EXCEPT ![r] = Tail(@)] /\ job' = [job EXCEPT ![r][s] = "queued"]
    BY <1>0, <1>7, InTail DEF Enqueue, TypeOK
  <2>2. Distinct(Tail(due[r])) /\ ~In(s, Tail(due[r]))
    BY <2>1, DistinctTail DEF Once, RowsOnce
  <2>3. due'[r] = Tail(due[r]) /\ \A q \in Requests \ {r} : due'[q] = due[q]
    BY <1>0, <2>1 DEF TypeOK
  <2>4. \A q \in Requests, t \in Students :
           job'[q][t] = IF q = r /\ t = s THEN "queued" ELSE job[q][t]
    <3> DEFINE States == {"none", "queued", "sending", "done", "failed"}
    <3>1. job \in [Requests -> [Students -> States]] /\ "queued" \in States
      BY <1>0 DEF TypeOK
    <3>2. s \in Students /\ job' = [job EXCEPT ![r][s] = "queued"]
      BY <2>1
    <3> HIDE DEF States, s
    <3> QED
      BY <3>1, <3>2, NestedUpdate
  <2>5. ASSUME NEW q \in Requests PROVE RowsOnce(q)'
    <3>1. CASE q = r
      BY <2>1, <2>2, <2>3, <3>1 DEF Once, RowsOnce, Distinct, Skipped, Unwritten
    <3>2. CASE q # r
      BY <2>1, <2>3, <3>2, RowsOnceLocal DEF Once
    <3> QED
      BY <3>1, <3>2
  <2>6. ASSUME NEW q \in Requests, NEW t \in Students PROVE JobOnce(q, t)'
    <3>1. CASE q # r
      BY <2>1, <2>3, <2>4, <3>1, JobOnceLocal DEF Once
    <3>2. CASE q = r /\ t # s
      <4>1. In(t, due'[r]) => In(t, due[r])
        BY <2>1, <2>3, InTail
      <4> QED
        BY <2>1, <2>4, <3>2, <4>1 DEF Once, JobOnce, In
    <3>3. CASE q = r /\ t = s
      <4>1. /\ ~In(s, due'[r]) /\ job'[r][s] = "queued" /\ pc'[r] = "notify"
            /\ tries'[r][s] = 0 /\ marked'[r][s] = "absent"
        BY <2>1, <2>2, <2>3, <2>4 DEF Once, JobOnce
      <4> QED
        BY <3>3, <4>1, Bounds DEF JobOnce, In
    <3> QED
      BY <3>1, <3>2, <3>3
  <2> QED
    BY <2>5, <2>6 DEF Once
<1>8. ASSUME NEW r \in Requests, Crash(r) PROVE Once'
  <2>1. CASE Refuse(r) /\ pc[r] \in {"load", "save"}
    BY <1>0, <2>1, RefuseOnce
  <2>2. CASE ~(Refuse(r) /\ pc[r] \in {"load", "save"})
    <3>1. /\ pc[r] = "notify" /\ pc'[r] = "done" /\ due'[r] = <<>>
          /\ UNCHANGED <<sheet, marked, job, tries>>
      BY <1>0, <1>8, <2>2 DEF Crash, TypeOK, jobVars
    <3>2. RowsOnce(r)'
      BY <3>1 DEF Once, RowsOnce, Distinct, Skipped, Unwritten
    <3>3. ASSUME NEW s \in Students PROVE JobOnce(r, s)'
      BY <3>1, <3>3, Bounds DEF Once, JobOnce, In
    <3>4. \A q \in Requests \ {r} : due'[q] = due[q] /\ pc'[q] = pc[q]
      BY <1>0, <1>8, <2>2 DEF Crash, TypeOK
    <3> QED
      BY <1>0, <3>1, <3>2, <3>3, <3>4, OnceOfOne
  <2> QED
    BY <2>1, <2>2
<1>9. ASSUME NEW r \in Requests, NEW s \in Students,
             Perform(r, s) \/ Finish(r, s) \/ Retry(r, s) \/ Kill(r, s) \/ Release(r, s)
      PROVE  Once'
  <2>1. PICK state \in {"queued", "sending", "done", "failed"}, n \in Int :
           /\ AfterJob(r, s, state) /\ tries' = [tries EXCEPT ![r][s] = n]
           /\ state = "queued" => n < Attempts
           /\ state = "sending" => n > 0
           /\ job[r][s] # "none"
    <3>1. tries[r][s] \in Int /\ tries = [tries EXCEPT ![r][s] = tries[r][s]]
          /\ tries[r][s] <= Attempts /\ tries[r][s] >= 0
      BY <1>0, Bounds DEF TypeOK
    <3>2. CASE Perform(r, s)
      <4>1. tries' = [tries EXCEPT ![r][s] = tries[r][s] + 1] /\ job[r][s] = "queued"
        BY <3>2 DEF Perform
      <4>2. AfterJob(r, s, "sending") \/ AfterJob(r, s, "done")
        BY <3>2 DEF Perform
      <4>3. tries[r][s] + 1 \in Int /\ tries[r][s] + 1 > 0
        BY <3>1
      <4> QED
        BY <4>1, <4>2, <4>3
    <3>3. CASE Finish(r, s) \/ Kill(r, s)
      BY <3>1, <3>3 DEF Finish, Kill
    <3>4. CASE Retry(r, s)
      BY <3>1, <3>4 DEF Retry
    <3>5. CASE Release(r, s)
      <4>1. tries' = [tries EXCEPT ![r][s] = tries[r][s] - 1] /\ job[r][s] = "sending"
        BY <3>5 DEF Release
      <4>2. AfterJob(r, s, "queued")
        BY <3>5 DEF Release
      <4>3. tries[r][s] - 1 \in Int /\ tries[r][s] - 1 < Attempts
        BY <3>1, Bounds
      <4> QED
        BY <4>1, <4>2, <4>3
    <3> QED
      BY <1>9, <3>2, <3>3, <3>4, <3>5
  <2>2. job' = [job EXCEPT ![r][s] = state] /\ UNCHANGED requestVars
    BY <2>1 DEF AfterJob
  <2>3. \A q \in Requests, t \in Students :
           /\ q # r \/ t # s => job'[q][t] = job[q][t] /\ tries'[q][t] = tries[q][t]
           /\ job'[r][s] = state /\ tries'[r][s] = n
    BY <1>0, <2>1, <2>2 DEF TypeOK
  <2>4. JobOnce(r, s)'
    BY <2>1, <2>2, <2>3 DEF Once, JobOnce, In, requestVars
  <2> QED
    BY <1>0, <2>2, <2>3, <2>4, OnceOfJob
<1>10. ASSUME UNCHANGED <<requestVars, job, tries>> PROVE Once'
  BY <1>10, RowsOnceLocal, JobOnceLocal DEF Once, requestVars
<1>11. ASSUME NEW r \in Requests, NEW s \in Students, NEW p \in Parents, Send(r, s, p)
       PROVE  UNCHANGED <<requestVars, job, tries>>
  BY <1>11 DEF Send
<1>12. CASE Switch \/ UNCHANGED vars
  BY <1>10, <1>12 DEF Switch, vars, jobVars
<1> QED
  BY <1>1, <1>2, <1>3, <1>4, <1>5, <1>6, <1>7, <1>8, <1>9, <1>10, <1>11, <1>12
     DEF Next, Save, Work, Rest

LEMMA InitOnce == Init => Once
<1> SUFFICES ASSUME Init, NEW r \in Requests PROVE RowsOnce(r) /\ \A s \in Students : JobOnce(r, s)
  BY DEF Once
<1> QED
  BY Bounds DEF Init, RowsOnce, JobOnce, Distinct, In, Unwritten

LEMMA InitTyped == Init => Typed
  BY InitTypeOK DEF Init, Typed, Saving

\* Every reachable state is well typed: no two transactions hold a row, and no
\* job is executed more often than its attempts allow.
THEOREM Typing == Spec => []TypeOK
<1>1. Init => Typed /\ Once
  BY InitTyped, InitOnce
<1>2. Typed /\ Once /\ [Next]_vars => (Typed /\ Once)'
  BY TypedStep, OnceStep
<1>3. Typed /\ Once => TypeOK
  BY DEF Typed
<1> QED
  BY <1>1, <1>2, <1>3, PTL DEF Spec

-----------------------------------------------------------------------------
(* No absence is silent.                                                   *)

\* The job r owes or has enqueued for s will come to p.
Covers(r, s, p) ==
    \/ pc[r] = "notify" /\ In(s, due[r])
    \/ job[r][s] = "queued"
    \/ job[r][s] = "sending" /\ p \in todo[r][s]

Reaching ==
    faults = 0 /\ enabled =>
        \A s \in Students : row[s] = "absent" =>
            \A p \in Phones[s] : sent[s][p] > 0 \/ \E r \in Requests : Covers(r, s, p)

\* An absence a transaction is about to commit is either new, and then a job is
\* due for it, or it stands in the register already, and the lock keeps it there.
Owed ==
    \A r \in Requests, s \in Students :
        /\ written[r][s] # None => pc[r] \in {"load", "save"}
        /\ written[r][s] = "absent" => In(s, due[r]) \/ row[s] = "absent"

LEMMA OwedStep == Typed /\ Once /\ Owed /\ [Next]_vars => Owed'
<1> SUFFICES ASSUME Typed, Once, Owed, [Next]_vars PROVE Owed'
  OBVIOUS
<1>0. TypeOK /\ Saving
  BY DEF Typed
<1>1. ASSUME UNCHANGED <<written, row>>,
             \A r \in Requests : /\ due'[r] = due[r]
                                 /\ pc[r] \in {"load", "save"} => pc'[r] \in {"load", "save"}
      PROVE  Owed'
  BY <1>1 DEF Owed, In
<1>2. ASSUME NEW r \in Requests,
             SkipRow(r) \/ LoadRow(r) \/ (\E rows \in Sheets : Submit(r, rows))
      PROVE  Owed'
  BY <1>0, <1>1, <1>2 DEF SkipRow, LoadRow, Submit, TypeOK
<1>3. ASSUME NEW r \in Requests, SaveRow(r) PROVE Owed'
  <2> DEFINE s == Student(r)
  <2>1. /\ s \in Students /\ Stored(r) \in StatusOrNone /\ pc[r] = "save"
        /\ due[r] \in Seq(Students)
    <3>1. sheet[r] # <<>> /\ pc[r] = "save"
      BY <1>0, <1>3 DEF SaveRow, Saving
    <3> QED
      BY <1>0, <3>1, CurrentRow DEF Stored, TypeOK
  <2>2. Stored(r) = "absent" => Notifiable(r) \/ row[s] = "absent"
    BY DEF Stored, Notifiable, StatusChanged
  <2>3. /\ \A q \in Requests, t \in Students :
              written'[q][t] = IF q = r /\ t = s THEN Stored(r) ELSE written[q][t]
        /\ due'[r] = IF Notifiable(r) THEN Append(due[r], s) ELSE due[r]
        /\ \A q \in Requests \ {r} : due'[q] = due[q] /\ pc'[q] = pc[q]
        /\ pc'[r] = "load" /\ UNCHANGED row
    <3>1. written' = [written EXCEPT ![r][s] = Stored(r)]
      BY <1>3 DEF SaveRow
    <3>2. written \in [Requests -> [Students -> StatusOrNone]]
      BY <1>0 DEF TypeOK
    <3>3. \A q \in Requests, t \in Students :
             written'[q][t] = IF q = r /\ t = s THEN Stored(r) ELSE written[q][t]
      BY <2>1, <3>1, <3>2, NestedUpdate
    <3> QED
      BY <1>0, <1>3, <3>3 DEF SaveRow, TypeOK
  <2>4. \A t : In(t, due[r]) => In(t, due'[r])
    BY <2>1, <2>3, InAppend
  <2>5. Notifiable(r) => In(s, due'[r])
    BY <2>1, <2>3, InAppend
  <2>6. ASSUME NEW q \in Requests, NEW t \in Students
        PROVE  /\ written'[q][t] # None => pc'[q] \in {"load", "save"}
               /\ written'[q][t] = "absent" => In(t, due'[q]) \/ row'[t] = "absent"
    BY <2>1, <2>2, <2>3, <2>4, <2>5, <2>6 DEF Owed
  <2> QED
    BY <2>6 DEF Owed, In
<1>4. ASSUME NEW r \in Requests, Refuse(r) PROVE Owed'
  BY <1>0, <1>4, NoneIsNoStatus DEF Refuse, Owed, TypeOK, Unwritten, In, Statuses
<1>5. ASSUME NEW r \in Requests, Commit(r) PROVE Owed'
  <2>1. ASSUME NEW q \in Requests, NEW s \in Students, q # r
        PROVE  /\ written'[q][s] = written[q][s] /\ due'[q] = due[q] /\ pc'[q] = pc[q]
               /\ written[q][s] # None => row'[s] = row[s]
    BY <1>0, <1>5, <2>1 DEF Commit, TypeOK
  <2>2. \A s \in Students : written'[r][s] = None
    BY <1>0, <1>5 DEF Commit, TypeOK, Unwritten
  <2>3. ASSUME NEW q \in Requests, NEW s \in Students
        PROVE  /\ written'[q][s] # None => pc'[q] \in {"load", "save"}
               /\ written'[q][s] = "absent" => In(s, due'[q]) \/ row'[s] = "absent"
    BY <2>1, <2>2, <2>3, NoneIsNoStatus DEF Owed, Statuses
  <2> QED
    BY <2>3 DEF Owed, In
<1>6. ASSUME NEW r \in Requests, UNCHANGED <<written, row>>, pc[r] = "notify",
             \A q \in Requests \ {r} : due'[q] = due[q] /\ pc'[q] = pc[q]
      PROVE  Owed'
  <2>1. \A s \in Students : written[r][s] = None
    BY <1>6 DEF Owed
  <2> QED
    BY <1>6, <2>1, NoneIsNoStatus DEF Owed, In, Statuses
<1>7. ASSUME NEW r \in Requests, Enqueue(r) \/ Answer(r) PROVE Owed'
  BY <1>0, <1>6, <1>7 DEF Enqueue, Answer, TypeOK
<1>8. ASSUME NEW r \in Requests, Crash(r) PROVE Owed'
  <2>1. CASE Refuse(r)
    BY <1>4, <2>1
  <2>2. CASE ~Refuse(r)
    BY <1>0, <1>6, <1>8, <2>2 DEF Crash, TypeOK
  <2> QED
    BY <2>1, <2>2
<1>9. ASSUME UNCHANGED <<requestVars, row>> PROVE Owed'
  BY <1>1, <1>9 DEF requestVars
<1>10. ASSUME NEW r \in Requests, NEW s \in Students,
              Work(r, s) \/ Retry(r, s) \/ Kill(r, s) \/ Release(r, s)
       PROVE  UNCHANGED <<requestVars, row>>
  BY <1>10 DEF Work, Perform, Send, Finish, Retry, Kill, Release, AfterJob
<1>11. CASE Switch \/ UNCHANGED vars
  BY <1>9, <1>11 DEF Switch, vars
<1> QED
  BY <1>2, <1>3, <1>4, <1>5, <1>7, <1>8, <1>9, <1>10, <1>11
     DEF Next, Save, Rest, RefuseDuplicate, Victim

\* What a step has to show when it is no fault: an absence in the register after
\* it is covered, or was uncovered in the register before it.
LEMMA ReachingKept ==
  ASSUME Reaching, TypeOK, UNCHANGED <<enabled, faults>>,
         \A s \in Students : \A p \in Phones[s] :
             row'[s] = "absent" =>
                 \/ row[s] = "absent" /\ ~(sent[s][p] > 0)
                        /\ \A r \in Requests : ~Covers(r, s, p)
                 \/ sent'[s][p] > 0 \/ \E r \in Requests : Covers(r, s, p)'
  PROVE  Reaching'
BY DEF Reaching

LEMMA ReachingStep ==
  Typed /\ Once /\ Owed /\ Reaching /\ [Next]_vars => Reaching'
<1> SUFFICES ASSUME Typed, Once, Owed, Reaching, [Next]_vars PROVE Reaching'
  OBVIOUS
<1>0. TypeOK
  BY DEF Typed
\* A step that neither adds an absence nor takes a job from its way.
<1>1. ASSUME UNCHANGED <<enabled, faults, sent>>,
             \A s \in Students : row'[s] = "absent" => row[s] = "absent",
             \A r \in Requests, s \in Students : \A p \in Phones[s] :
                 Covers(r, s, p) => Covers(r, s, p)'
      PROVE  Reaching'
  BY <1>0, <1>1, ReachingKept
<1>2. ASSUME UNCHANGED <<enabled, faults, sent, row, job, todo>>,
             \A r \in Requests : /\ due'[r] = due[r] \/ pc[r] # "notify"
                                 /\ pc[r] = "notify" => pc'[r] = "notify" \/ due[r] = <<>>
      PROVE  Reaching'
  <2>1. \A r \in Requests, s \in Students : \A p \in Phones[s] :
           Covers(r, s, p) => Covers(r, s, p)'
    BY <1>2 DEF Covers, In
  <2> QED
    BY <1>1, <1>2, <2>1
<1>3. ASSUME NEW r \in Requests,
             \/ SkipRow(r) \/ LoadRow(r) \/ SaveRow(r) \/ Answer(r)
             \/ \E rows \in Sheets : Submit(r, rows)
      PROVE  Reaching'
  BY <1>0, <1>2, <1>3 DEF SkipRow, LoadRow, SaveRow, Answer, Submit, TypeOK, jobVars, history
<1>4. ASSUME NEW r \in Requests, RefuseDuplicate(r) \/ Victim(r) PROVE Reaching'
  <2>1. pc[r] = "save" /\ Refuse(r) /\ UNCHANGED faults
    BY <1>4 DEF RefuseDuplicate, Victim, Deadlocked
  <2> QED
    BY <1>0, <1>2, <2>1 DEF Refuse, TypeOK, jobVars
<1>5. ASSUME NEW r \in Requests, Commit(r) PROVE Reaching'
  <2>1. /\ UNCHANGED <<enabled, faults, sent, due, job, todo>>
        /\ pc[r] = "load" /\ pc'[r] = "notify"
        /\ \A q \in Requests \ {r} : pc'[q] = pc[q]
        /\ \A s \in Students :
              row'[s] = IF written[r][s] # None THEN written[r][s] ELSE row[s]
    BY <1>0, <1>5 DEF Commit, TypeOK, jobVars
  <2>2. ASSUME NEW s \in Students, NEW p \in Phones[s], row'[s] = "absent",
               row[s] = "absent" =>
                   sent[s][p] > 0 \/ \E q \in Requests : Covers(q, s, p)
        PROVE  sent'[s][p] > 0 \/ \E q \in Requests : Covers(q, s, p)'
    <3>1. \A q \in Requests : Covers(q, s, p) => Covers(q, s, p)'
      BY <2>1 DEF Covers, In
    <3>2. row[s] = "absent" \/ In(s, due[r])
      BY <2>1, <2>2 DEF Owed
    <3>3. In(s, due[r]) => Covers(r, s, p)'
      BY <2>1 DEF Covers, In
    <3> QED
      BY <2>1, <2>2, <3>1, <3>2, <3>3
  <2> QED
    BY <1>0, <2>1, <2>2, ReachingKept
<1>6. ASSUME NEW r \in Requests, Enqueue(r) PROVE Reaching'
  <2> DEFINE h == Head(due[r])
  <2>1. /\ due[r] \in Seq(Students) /\ due[r] # <<>> /\ h \in Students
        /\ UNCHANGED <<enabled, faults, sent, row, pc, todo>>
        /\ due'[r] = Tail(due[r]) /\ \A q \in Requests \ {r} : due'[q] = due[q]
    BY <1>0, <1>6, InTail DEF Enqueue, TypeOK, history
  <2>2. \A q \in Requests, s \in Students :
           job'[q][s] = job[q][s] \/ (q = r /\ s = h /\ job'[q][s] = "queued")
    <3>1. job' = [job EXCEPT ![r][h] = "queued"]
      BY <1>6 DEF Enqueue
    <3> QED
      BY <1>0, <2>1, <3>1 DEF TypeOK
  <2>3. job'[r][h] = "queued"
    BY <1>0, <1>6, <2>1 DEF Enqueue, TypeOK
  <2>4. ASSUME NEW q \in Requests, NEW s \in Students, NEW p \in Phones[s], Covers(q, s, p)
        PROVE  Covers(q, s, p)'
    <3>1. q = r /\ In(s, due[r]) => s = h \/ In(s, due'[r])
      BY <2>1, InTail
    <3> QED
      BY <2>1, <2>2, <2>3, <2>4, <3>1 DEF Covers, In
  <2> QED
    BY <1>1, <2>1, <2>4
<1>7. ASSUME NEW r \in Requests, NEW s \in Students, Perform(r, s) PROVE Reaching'
  <2>1. /\ UNCHANGED <<enabled, faults, sent, row, pc, due>> /\ job[r][s] = "queued"
        /\ \A q \in Requests, t \in Students :
              q # r \/ t # s => job'[q][t] = job[q][t] /\ todo'[q][t] = todo[q][t]
        /\ row[s] = "absent" /\ enabled =>
              job'[r][s] = "sending" /\ todo'[r][s] = Phones[s]
    <3>1. UNCHANGED <<enabled, faults, sent, row, pc, due>> /\ job[r][s] = "queued"
      BY <1>7 DEF Perform, AfterJob, requestVars
    <3>2. CASE row[s] = "absent" /\ enabled
      <4>1. /\ job' = [job EXCEPT ![r][s] = "sending"]
            /\ todo' = [todo EXCEPT ![r][s] = Phones[s]]
        BY <1>7, <3>2 DEF Perform, AfterJob
      <4> QED
        BY <1>0, <3>1, <4>1 DEF TypeOK
    <3>3. CASE ~(row[s] = "absent" /\ enabled)
      <4>1. job' = [job EXCEPT ![r][s] = "done"] /\ todo' = todo
        BY <1>7, <3>3 DEF Perform, AfterJob
      <4> QED
        BY <1>0, <3>1, <3>3, <4>1 DEF TypeOK
    <3> QED
      BY <3>2, <3>3
  <2>2. CASE ~enabled
    BY <2>1, <2>2 DEF Reaching
  <2>3. ASSUME enabled, NEW t \in Students, NEW p \in Phones[t], row'[t] = "absent",
               NEW q \in Requests, Covers(q, t, p)
        PROVE  Covers(q, t, p)'
    BY <2>1, <2>3 DEF Covers, In
  <2>4. CASE enabled
    BY <1>0, <2>1, <2>3, <2>4, ReachingKept
  <2> QED
    BY <1>0, <2>2, <2>4 DEF TypeOK
<1>8. ASSUME NEW r \in Requests, NEW s \in Students, NEW p \in Parents, Send(r, s, p)
      PROVE  Reaching'
  <2>1. /\ UNCHANGED <<enabled, faults, row, pc, due, job>>
        /\ job[r][s] = "sending" /\ p \in todo[r][s]
        /\ \A q \in Requests, t \in Students : \A o \in todo[q][t] :
              ~(q = r /\ t = s /\ o = p) => o \in todo'[q][t]
    BY <1>0, <1>8 DEF Send, TypeOK, requestVars, history
  <2>2. enabled => /\ sent'[s][p] > 0
                   /\ \A t \in Students, o \in Parents : sent[t][o] > 0 => sent'[t][o] > 0
    BY <1>0, <1>8 DEF Send, TypeOK
  <2>3. CASE ~enabled
    BY <2>1, <2>3 DEF Reaching
  <2>4. ASSUME enabled, NEW t \in Students, NEW o \in Phones[t],
               NEW q \in Requests, Covers(q, t, o)
        PROVE  sent'[t][o] > 0 \/ Covers(q, t, o)'
    BY <2>1, <2>2, <2>4 DEF Covers, In
  <2>5. \A t \in Students : Phones[t] \subseteq Parents
    BY ClassAndPhones
  <2>6. CASE enabled
    BY <1>0, <2>1, <2>2, <2>4, <2>5, <2>6, ReachingKept
  <2> QED
    BY <1>0, <2>3, <2>6 DEF TypeOK
<1>9. ASSUME NEW r \in Requests, NEW s \in Students, Finish(r, s) PROVE Reaching'
  <2>1. /\ UNCHANGED <<enabled, faults, sent, row, pc, due, todo>>
        /\ job[r][s] = "sending" /\ todo[r][s] = {}
        /\ \A q \in Requests, t \in Students :
              q # r \/ t # s => job'[q][t] = job[q][t]
    BY <1>0, <1>9 DEF Finish, AfterJob, TypeOK, requestVars
  <2>2. \A q \in Requests, t \in Students : \A p \in Phones[t] :
           Covers(q, t, p) => Covers(q, t, p)'
    BY <2>1 DEF Covers, In
  <2> QED
    BY <1>1, <2>1, <2>2
<1>10. ASSUME Fault PROVE Reaching'
  <2>1. faults' > 0
    BY <1>0, <1>10, Bounds DEF Fault, TypeOK
  <2> QED
    BY <2>1 DEF Reaching
<1>11. CASE UNCHANGED vars
  BY <1>2, <1>11 DEF vars, requestVars, jobVars
<1> QED
  BY <1>3, <1>4, <1>5, <1>6, <1>7, <1>8, <1>9, <1>10, <1>11
     DEF Next, Save, Work, Rest, Crash, Retry, Kill, Release, Switch

\* As long as nothing fails, every absence in the register has been reported to
\* every parent with a phone, or a job that will is on its way - however sheets
\* overlap, wait for each other and deadlock, and whenever jobs run.
THEOREM AbsencesAreReported == Spec => []NoSilentAbsence
<1>1. Init => Typed /\ Once /\ Owed /\ Reaching
  <2>1. Init => Owed /\ Reaching
    BY NoneIsNoStatus DEF Init, Owed, Reaching, Unwritten, Statuses
  <2> QED
    BY <2>1, InitTyped, InitOnce
<1>2. Typed /\ Once /\ Owed /\ Reaching /\ [Next]_vars
        => (Typed /\ Once /\ Owed /\ Reaching)'
  BY TypedStep, OnceStep, OwedStep, ReachingStep
<1>3. Reaching => NoSilentAbsence
  <2>1. \A r \in Requests, s \in Students, p \in Parents : Covers(r, s, p) => Pending(r, s)
    BY DEF Covers, Pending, In
  <2> QED
    BY <2>1, ClassAndPhones DEF Reaching, NoSilentAbsence
<1> QED
  BY <1>1, <1>2, <1>3, PTL DEF Spec

-----------------------------------------------------------------------------
(* How often an absence is reported.                                       *)

\* Requests that report s, and those of them that may still send to p.
Reporting(s) == {r \in Requests : In(s, due[r]) \/ job[r][s] # "none"}
Sending(s, p) ==
    {r \in Requests : \/ In(s, due[r]) \/ job[r][s] = "queued"
                      \/ job[r][s] = "sending" /\ p \in todo[r][s]}

\* Every message sent, and every one to come, is due to a report or to a fault.
SentBound(s, p) ==
    sent[s][p] + Cardinality(Sending(s, p)) <= Cardinality(Reporting(s)) + faults

SentBounded == \A s \in Students, p \in Parents : SentBound(s, p)

LEMMA RequestSets ==
  ASSUME NEW A \in SUBSET Requests, NEW B \in SUBSET Requests
  PROVE  /\ Cardinality(A) \in Nat /\ Cardinality(B) \in Nat
         /\ A \subseteq B => Cardinality(A) <= Cardinality(B)
         /\ \A r : A \subseteq B \cup {r} => Cardinality(A) <= Cardinality(B) + 1
         /\ \A r \in Requests \ A : A \cup {r} \subseteq B =>
                                        Cardinality(A) + 1 <= Cardinality(B)
<1>1. /\ IsFiniteSet(A) /\ IsFiniteSet(B)
      /\ Cardinality(A) \in Nat /\ Cardinality(B) \in Nat
  BY FiniteRequests, FS_Subset, FS_CardinalityType
<1>2. A \subseteq B => Cardinality(A) <= Cardinality(B)
  BY <1>1, FS_Subset
<1>3. ASSUME NEW r, A \subseteq B \cup {r} PROVE Cardinality(A) <= Cardinality(B) + 1
  <2>1. /\ IsFiniteSet(B \cup {r})
        /\ Cardinality(B \cup {r}) = IF r \in B THEN Cardinality(B) ELSE Cardinality(B) + 1
    BY <1>1, FS_AddElement
  <2>2. Cardinality(A) <= Cardinality(B \cup {r})
    BY <1>3, <2>1, FS_Subset
  <2> QED
    BY <1>1, <2>1, <2>2
<1>4. ASSUME NEW r \in Requests \ A, A \cup {r} \subseteq B
      PROVE  Cardinality(A) + 1 <= Cardinality(B)
  <2>1. Cardinality(A \cup {r}) = Cardinality(A) + 1
    BY <1>1, <1>4, FS_AddElement
  <2>2. Cardinality(A \cup {r}) <= Cardinality(B)
    BY <1>1, <1>4, FS_Subset
  <2> QED
    BY <2>1, <2>2
<1> QED
  BY <1>1, <1>2, <1>3, <1>4

\* The ways a step may keep the bound: with no new message to come; with a message
\* to come and a report that accounts for it; with a report and its message
\* undone together; with a message sent; with a fault.
LEMMA SentBoundKept ==
  ASSUME TypeOK, TypeOK', NEW s \in Students, NEW p \in Parents, SentBound(s, p),
         NEW r \in Requests,
         \/ /\ sent'[s][p] = sent[s][p] /\ faults' >= faults
            /\ Sending(s, p)' \subseteq Sending(s, p) /\ Reporting(s) \subseteq Reporting(s)'
         \/ /\ sent'[s][p] = sent[s][p] /\ faults' >= faults
            /\ Sending(s, p)' \subseteq Sending(s, p) \cup {r}
            /\ r \notin Reporting(s) /\ Reporting(s) \cup {r} \subseteq Reporting(s)'
         \/ /\ sent'[s][p] = sent[s][p] /\ faults' >= faults
            /\ r \in Sending(s, p) /\ Sending(s, p)' \subseteq Sending(s, p) \ {r}
            /\ Reporting(s) \subseteq Reporting(s)' \cup {r}
         \/ /\ sent'[s][p] = sent[s][p] + 1 /\ faults' = faults
            /\ r \in Sending(s, p) /\ Sending(s, p)' \subseteq Sending(s, p) \ {r}
            /\ Reporting(s) \subseteq Reporting(s)'
         \/ /\ sent'[s][p] = sent[s][p] /\ faults' = faults + 1
            /\ Sending(s, p)' \subseteq Sending(s, p) \cup {r}
            /\ Reporting(s) \subseteq Reporting(s)'
  PROVE  SentBound(s, p)'
<1> DEFINE A == Sending(s, p)
           B == Reporting(s)
           A1 == Sending(s, p)'
           B1 == Reporting(s)'
<1>1. /\ A \in SUBSET Requests /\ B \in SUBSET Requests
      /\ A1 \in SUBSET Requests /\ B1 \in SUBSET Requests
  BY DEF Sending, Reporting
<1>2. /\ sent[s][p] \in Nat /\ sent'[s][p] \in Nat /\ faults \in Nat /\ faults' \in Nat
  BY Bounds DEF TypeOK
<1>3. sent[s][p] + Cardinality(A) <= Cardinality(B) + faults
  BY DEF SentBound
<1> HIDE DEF A, B, A1, B1
<1>4. /\ Cardinality(A) \in Nat /\ Cardinality(B) \in Nat
      /\ Cardinality(A1) \in Nat /\ Cardinality(B1) \in Nat
  BY <1>1, RequestSets
<1>5. /\ A1 \subseteq A => Cardinality(A1) <= Cardinality(A)
      /\ A1 \subseteq A \cup {r} => Cardinality(A1) <= Cardinality(A) + 1
      /\ r \in A /\ A1 \subseteq A \ {r} => Cardinality(A1) + 1 <= Cardinality(A)
  <2>1. r \in A /\ A1 \subseteq A \ {r} => r \in Requests \ A1 /\ A1 \cup {r} \subseteq A
    BY <1>1
  <2> QED
    BY <1>1, <2>1, RequestSets
<1>6. /\ B \subseteq B1 => Cardinality(B) <= Cardinality(B1)
      /\ B \subseteq B1 \cup {r} => Cardinality(B) <= Cardinality(B1) + 1
      /\ r \notin B /\ B \cup {r} \subseteq B1 => Cardinality(B) + 1 <= Cardinality(B1)
  BY <1>1, RequestSets
<1>7. sent'[s][p] + Cardinality(A1) <= Cardinality(B1) + faults'
  BY <1>2, <1>3, <1>4, <1>5, <1>6 DEF A, B, A1, B1
<1> QED
  BY <1>7 DEF SentBound, A1, B1

LEMMA SentBoundedStep ==
  Typed /\ Once /\ SentBounded /\ [Next]_vars => SentBounded'
<1> SUFFICES ASSUME Typed, Once, SentBounded, [Next]_vars,
                    NEW s \in Students, NEW p \in Parents
             PROVE  SentBound(s, p)'
  BY DEF SentBounded
<1>0. TypeOK /\ TypeOK' /\ SentBound(s, p) /\ Typed'
  BY TypedStep DEF Typed, SentBounded
<1>1. /\ faults \in Nat /\ (UNCHANGED faults => faults' >= faults)
      /\ (Fault => faults' = faults + 1 /\ faults' >= faults)
  BY <1>0, Bounds DEF TypeOK, Fault
<1>2. ASSUME NEW r \in Requests, UNCHANGED <<due, job, sent, faults>>,
             todo' = todo
      PROVE  SentBound(s, p)'
  <2>1. Sending(s, p)' = Sending(s, p) /\ Reporting(s)' = Reporting(s)
    BY <1>2 DEF Sending, Reporting, In
  <2> QED
    BY <1>0, <1>1, <1>2, <2>1, SentBoundKept
<1>3. ASSUME NEW r \in Requests,
             \/ SkipRow(r) \/ LoadRow(r) \/ Commit(r) \/ Answer(r)
             \/ \E rows \in Sheets : Submit(r, rows)
      PROVE  SentBound(s, p)'
  BY <1>2, <1>3 DEF SkipRow, LoadRow, Commit, Answer, Submit, jobVars
<1>4. ASSUME NEW r \in Requests, SaveRow(r) PROVE SentBound(s, p)'
  <2>1. /\ UNCHANGED <<job, todo, sent, faults>> /\ pc[r] = "save"
        /\ sheet[r] # <<>> /\ ~Skipped(Head(sheet[r])) /\ due[r] \in Seq(Students)
        /\ due' = [due EXCEPT ![r] = IF Notifiable(r) THEN Append(@, Student(r)) ELSE @]
    BY <1>0, <1>4 DEF SaveRow, Typed, Saving, TypeOK, jobVars
  <2>2. /\ Student(r) \in Students
        /\ \A t : In(t, due'[r]) <=> In(t, due[r]) \/ (Notifiable(r) /\ t = Student(r))
        /\ \A q \in Requests \ {r} : due'[q] = due[q]
    BY <1>0, <2>1, CurrentRow, InAppend, SMTT(30) DEF TypeOK
  <2>3. CASE Notifiable(r) /\ s = Student(r)
    <3>1. marked[r][s] = None
      <4>1. 1 \in DOMAIN sheet[r] /\ Head(sheet[r]) = sheet[r][1]
        BY <1>0, <2>1, TailIndex DEF TypeOK
      <4> QED
        BY <2>1, <2>3, <4>1 DEF Once, RowsOnce, Student
    <3>2. r \notin Reporting(s)
      BY <3>1, NoneIsNoStatus DEF Once, JobOnce, Reporting, Statuses
    <3>3. /\ Sending(s, p)' \subseteq Sending(s, p) \cup {r}
          /\ Reporting(s) \cup {r} \subseteq Reporting(s)'
      BY <2>1, <2>2, <2>3 DEF Sending, Reporting, In
    <3> QED
      BY <1>0, <1>1, <2>1, <3>2, <3>3, SentBoundKept
  <2>4. CASE ~(Notifiable(r) /\ s = Student(r))
    <3>1. Sending(s, p)' = Sending(s, p) /\ Reporting(s)' = Reporting(s)
      <4>1. \A q \in Requests : In(s, due'[q]) <=> In(s, due[q])
        BY <2>2, <2>4
      <4> QED
        BY <2>1, <4>1 DEF Sending, Reporting, In
    <3> QED
      BY <1>0, <1>1, <2>1, <3>1, SentBoundKept
  <2> QED
    BY <2>3, <2>4
\* Due reports are undone, before any job of the request exists or with a fault.
<1>5. ASSUME NEW r \in Requests, UNCHANGED <<job, todo, sent>>, faults' >= faults,
             due'[r] = <<>>, \A q \in Requests \ {r} : due'[q] = due[q]
      PROVE  SentBound(s, p)'
  <2>1. ~In(s, due'[r])
    BY <1>5 DEF In
  <2>2. CASE In(s, due[r])
    <3>1. job[r][s] = "none"
      BY <2>2 DEF Once, JobOnce
    <3>2. /\ r \in Sending(s, p) /\ Sending(s, p)' \subseteq Sending(s, p) \ {r}
          /\ Reporting(s) \subseteq Reporting(s)' \cup {r}
      BY <1>5, <2>1, <2>2, <3>1 DEF Sending, Reporting, In
    <3> QED
      BY <1>0, <1>5, <3>2, SentBoundKept
  <2>3. CASE ~In(s, due[r])
    <3>1. Sending(s, p)' = Sending(s, p) /\ Reporting(s)' = Reporting(s)
      <4>1. \A q \in Requests : In(s, due'[q]) <=> In(s, due[q])
        BY <1>5, <2>1, <2>3
      <4> QED
        BY <1>5, <4>1 DEF Sending, Reporting, In
    <3> QED
      BY <1>0, <1>5, <3>1, SentBoundKept
  <2> QED
    BY <2>2, <2>3
<1>6. ASSUME NEW r \in Requests, Refuse(r), UNCHANGED faults \/ Fault PROVE SentBound(s, p)'
  BY <1>0, <1>1, <1>5, <1>6 DEF Refuse, TypeOK, jobVars
<1>7. ASSUME NEW r \in Requests, Crash(r), ~Refuse(r) PROVE SentBound(s, p)'
  BY <1>0, <1>1, <1>5, <1>7 DEF Crash, TypeOK, jobVars
<1>8. ASSUME NEW r \in Requests, Enqueue(r) PROVE SentBound(s, p)'
  <2> DEFINE h == Head(due[r])
  <2>1. /\ due[r] \in Seq(Students) /\ due[r] # <<>> /\ h \in Students
        /\ UNCHANGED <<todo, sent, faults>>
        /\ due'[r] = Tail(due[r]) /\ \A q \in Requests \ {r} : due'[q] = due[q]
        /\ In(h, due[r])
    BY <1>0, <1>8, InTail DEF Enqueue, TypeOK
  <2>2. \A q \in Requests, t \in Students :
           job'[q][t] = IF q = r /\ t = h THEN "queued" ELSE job[q][t]
    <3>1. job' = [job EXCEPT ![r][h] = "queued"]
      BY <1>8 DEF Enqueue
    <3>2. job \in [Requests -> [Students -> JobStates]] /\ "queued" \in JobStates
      BY <1>0 DEF TypeOK, JobStates
    <3>3. ASSUME NEW k \in Students
          PROVE  \A q \in Requests, t \in Students : [job EXCEPT ![r][k] = "queued"][q][t] =
                    IF q = r /\ t = k THEN "queued" ELSE job[q][t]
      BY <3>2, NestedUpdate
    <3> QED
      BY <2>1, <3>1, <3>3
  <2>3. In(s, due[r]) <=> In(s, due'[r]) \/ s = h
    BY <2>1, InTail
  <2>4. Sending(s, p)' \subseteq Sending(s, p) /\ Reporting(s) \subseteq Reporting(s)'
    BY <2>1, <2>2, <2>3 DEF Sending, Reporting, In
  <2> QED
    BY <1>0, <1>1, <2>1, <2>4, SentBoundKept
\* A job moves on; it may start over only with a fault.
<1>9. ASSUME NEW r \in Requests, NEW t \in Students,
             NEW state \in {"queued", "sending", "done", "failed"}, AfterJob(r, t, state),
             \A q \in Requests : q # r => todo'[q] = todo[q],
             \A u \in Students : u # t => todo'[r][u] = todo[r][u],
             job[r][t] \in {"queued", "sending"},
             \/ faults' = faults + 1
             \/ /\ UNCHANGED faults
                /\ state # "queued" /\ (state = "sending" => job[r][t] = "queued")
      PROVE  SentBound(s, p)'
  <2>1. /\ UNCHANGED <<due, sent>>
        /\ \A q \in Requests, u \in Students :
              job'[q][u] = IF q = r /\ u = t THEN state ELSE job[q][u]
    <3>1. job' = [job EXCEPT ![r][t] = state] /\ UNCHANGED <<due, sent>>
      BY <1>9 DEF AfterJob, requestVars
    <3>2. job \in [Requests -> [Students -> JobStates]] /\ state \in JobStates
      BY <1>0, <1>9 DEF TypeOK, JobStates
    <3>3. \A q \in Requests, u \in Students : [job EXCEPT ![r][t] = state][q][u] =
             IF q = r /\ u = t THEN state ELSE job[q][u]
      BY <1>9, <3>2, NestedUpdate
    <3> QED
      BY <3>1, <3>3
  <2>2. Reporting(s) \subseteq Reporting(s)'
    BY <1>9, <2>1 DEF Reporting, In
  <2>3. Sending(s, p)' \subseteq Sending(s, p) \cup {r}
    BY <1>9, <2>1 DEF Sending, In
  <2>4. UNCHANGED faults => Sending(s, p)' \subseteq Sending(s, p)
    BY <1>9, <1>1, <2>1 DEF Sending, In
  <2> QED
    BY <1>0, <1>1, <1>9, <2>1, <2>2, <2>3, <2>4, SentBoundKept
<1>10. ASSUME NEW r \in Requests, NEW t \in Students,
              Perform(r, t) \/ Finish(r, t) \/ Retry(r, t) \/ Kill(r, t) \/ Release(r, t)
       PROVE  SentBound(s, p)'
  <2>1. /\ \A q \in Requests : q # r => todo'[q] = todo[q]
        /\ \A u \in Students : u # t => todo'[r][u] = todo[r][u]
        /\ job[r][t] \in {"queued", "sending"}
    <3>1. job[r][t] \in {"queued", "sending"}
      BY <1>10 DEF Perform, Finish, Retry, Kill, Release
    <3>2. \/ todo' = todo
          \/ \E P \in {{}, Phones[t]} : todo' = [todo EXCEPT ![r][t] = P]
      BY <1>10 DEF Perform, Finish, Retry, Kill, Release
    <3>3. todo \in [Requests -> [Students -> SUBSET Parents]]
      BY <1>0 DEF TypeOK
    <3> QED
      BY <3>1, <3>2, <3>3
  <2>2. \/ Fault /\ \E state \in {"queued", "failed"} : AfterJob(r, t, state)
        \/ /\ UNCHANGED faults
           /\ \/ AfterJob(r, t, "sending") /\ job[r][t] = "queued"
              \/ AfterJob(r, t, "done")
    BY <1>10 DEF Perform, Finish, Retry, Kill, Release
  <2> QED
    BY <1>1, <1>9, <2>1, <2>2
<1>11. ASSUME NEW r \in Requests, NEW t \in Students, NEW o \in Parents, Send(r, t, o)
       PROVE  SentBound(s, p)'
  <2>1. /\ UNCHANGED <<due, job, faults>> /\ job[r][t] = "sending" /\ o \in todo[r][t]
        /\ \A q \in Requests, u \in Students :
              todo'[q][u] = IF q = r /\ u = t THEN todo[r][t] \ {o} ELSE todo[q][u]
    <3>1. todo' = [todo EXCEPT ![r][t] = todo[r][t] \ {o}]
      BY <1>11 DEF Send
    <3>2. UNCHANGED <<due, job, faults>> /\ job[r][t] = "sending" /\ o \in todo[r][t]
      BY <1>11 DEF Send, requestVars
    <3>3. todo \in [Requests -> [Students -> SUBSET Parents]]
      BY <1>0 DEF TypeOK
    <3> QED
      BY <3>1, <3>2, <3>3
  <2>2. Reporting(s)' = Reporting(s) /\ Sending(s, p)' \subseteq Sending(s, p)
    BY <2>1 DEF Reporting, Sending, In
  <2>3. CASE t = s /\ o = p /\ enabled
    <3>1. ~In(s, due[r])
      BY <2>1, <2>3 DEF Once, JobOnce
    <3>2. r \in Sending(s, p) /\ Sending(s, p)' \subseteq Sending(s, p) \ {r}
      BY <2>1, <2>3, <3>1 DEF Sending, In
    <3>3. sent'[s][p] = sent[s][p] + 1
      BY <1>0, <1>11, <2>3 DEF Send, TypeOK
    <3> QED
      BY <1>0, <2>1, <2>2, <3>2, <3>3, SentBoundKept
  <2>4. CASE ~(t = s /\ o = p /\ enabled)
    <3>1. sent'[s][p] = sent[s][p]
      BY <1>0, <1>11, <2>4 DEF Send, TypeOK
    <3> QED
      BY <1>0, <1>1, <2>1, <2>2, <3>1, SentBoundKept
  <2> QED
    BY <2>3, <2>4
<1>12. CASE Switch \/ UNCHANGED vars
  <2>1. /\ UNCHANGED <<due, job, todo, sent>> /\ (faults' = faults \/ faults' = faults + 1)
    BY <1>12 DEF Switch, Fault, vars, requestVars, jobVars
  <2>2. Sending(s, p)' = Sending(s, p) /\ Reporting(s)' = Reporting(s)
    BY <2>1 DEF Sending, Reporting, In
  <2>3. /\ sent[s][p] \in Nat /\ Cardinality(Sending(s, p)) \in Nat
        /\ Cardinality(Reporting(s)) \in Nat
    <3>1. Sending(s, p) \in SUBSET Requests /\ Reporting(s) \in SUBSET Requests
      BY DEF Sending, Reporting
    <3>2. sent[s][p] \in Nat
      BY <1>0 DEF TypeOK
    <3> QED
      BY <3>1, <3>2, RequestSets
  <2> QED
    BY <1>0, <1>1, <2>1, <2>2, <2>3 DEF SentBound
<1> QED
  BY <1>3, <1>4, <1>6, <1>7, <1>8, <1>10, <1>11, <1>12
     DEF Next, Save, Work, Rest, RefuseDuplicate, Victim, Crash

\* A parent hears of a student at most once for each sheet that marked the student
\* absent, and once more for each fault, whatever sheets overlap and jobs repeat.
THEOREM AlertsAreBounded == Spec => []AlertsBounded
<1>1. Init => Typed /\ Once /\ SentBounded
  <2>1. ASSUME Init PROVE SentBounded
    <3>1. ASSUME NEW s \in Students, NEW p \in Parents PROVE SentBound(s, p)
      <4>1. Sending(s, p) = {} /\ Reporting(s) = {} /\ sent[s][p] = 0 /\ faults = 0
        BY <2>1 DEF Init, Sending, Reporting, In
      <4> QED
        BY <4>1, FS_EmptySet DEF SentBound
    <3> QED
      BY <3>1 DEF SentBounded
  <2> QED
    BY <2>1, InitTyped, InitOnce
<1>2. Typed /\ Once /\ SentBounded /\ [Next]_vars => (Typed /\ Once /\ SentBounded)'
  BY TypedStep, OnceStep, SentBoundedStep
<1>3. ASSUME Typed, Once, SentBounded PROVE AlertsBounded
  <2> SUFFICES ASSUME NEW s \in Students, NEW p \in Parents
               PROVE  sent[s][p] <= Cardinality(Absences(s)) + faults
    BY DEF AlertsBounded
  <2>1. Reporting(s) \subseteq Absences(s)
    BY <1>3 DEF Once, JobOnce, Reporting, Absences
  <2>2. /\ Cardinality(Reporting(s)) <= Cardinality(Absences(s))
        /\ Cardinality(Reporting(s)) \in Nat /\ Cardinality(Absences(s)) \in Nat
        /\ Cardinality(Sending(s, p)) \in Nat
    <3>1. /\ Reporting(s) \in SUBSET Requests /\ Absences(s) \in SUBSET Requests
          /\ Sending(s, p) \in SUBSET Requests
      BY DEF Reporting, Absences, Sending
    <3> QED
      BY <2>1, <3>1, RequestSets
  <2>3. sent[s][p] \in Nat /\ faults \in Nat
    BY <1>3, Bounds DEF Typed, TypeOK
  <2> QED
    BY <1>3, <2>2, <2>3 DEF SentBounded, SentBound
<1> QED
  BY <1>1, <1>2, <1>3, PTL DEF Spec

-----------------------------------------------------------------------------
(* Sheets saved one at a time.                                             *)

Early == {"load", "save"}

\* While request r saves: it holds what it marked, it loaded the row as it still is, and
\* whoever it will report was not absent before.
Kept(r) ==
    /\ pc[r] \in Early => /\ written[r] = marked[r]
                          /\ \A s \in Students : In(s, due[r]) => row[s] # "absent"
    /\ pc[r] = "save" => loaded[r] = row[Student(r)]

Apart ==
    /\ \A r \in Requests : pc[r] \notin Early => written[r] = Unwritten
    /\ ~overlapped =>
          /\ row = last
          /\ \A q, r \in Requests :
                pc[q] \notin {"idle", "done"} /\ pc[r] \notin {"idle", "done"} => q = r
          /\ \A r \in Requests : Kept(r)

\* A step of the request that is being served: the others have not begun or are over.
LEMMA ApartOfOne ==
  ASSUME Apart, NEW r \in Requests, pc[r] \notin {"idle", "done"}, UNCHANGED overlapped,
         \A q \in Requests \ {r} : pc'[q] = pc[q] /\ written'[q] = written[q],
         pc'[r] \in Early \/ written'[r] = Unwritten,
         ~overlapped => row' = last' /\ Kept(r)'
  PROVE  Apart'
<1>1. ASSUME NEW q \in Requests, pc'[q] \notin Early PROVE written'[q] = Unwritten
  BY <1>1 DEF Apart
<1>2. ASSUME ~overlapped, NEW q \in Requests, q # r
      PROVE  pc'[q] \in {"idle", "done"} /\ Kept(q)'
  <2>1. pc'[q] \in {"idle", "done"}
    BY <1>2 DEF Apart
  <2> QED
    BY <2>1 DEF Kept, Early
<1> QED
  BY <1>1, <1>2 DEF Apart, Unwritten

LEMMA ApartStep == Typed /\ Once /\ Apart /\ [Next]_vars => Apart'
<1> SUFFICES ASSUME Typed, Once, Apart, [Next]_vars PROVE Apart'
  OBVIOUS
<1>0. TypeOK /\ Saving
  BY DEF Typed
<1>1. ASSUME NEW r \in Requests, NEW rows \in Sheets, Submit(r, rows) PROVE Apart'
  <2>1. /\ pc[r] = "idle" /\ pc' = [pc EXCEPT ![r] = "load"]
        /\ overlapped' = (overlapped \/ \E q \in Requests : pc[q] \notin {"idle", "done"})
        /\ UNCHANGED <<row, last, loaded, marked, written, due>>
    BY <1>1 DEF Submit
  <2>2. due[r] = <<>> /\ marked[r] = Unwritten /\ written[r] = Unwritten
    BY <2>1 DEF Once, RowsOnce, Apart, Early
  <2>3. \A q \in Requests : pc'[q] = IF q = r THEN "load" ELSE pc[q]
    BY <1>0, <2>1 DEF TypeOK
  <2>4. Kept(r)'
    BY <2>1, <2>2, <2>3 DEF Kept, Early, In
  <2>5. ASSUME ~overlapped', NEW q \in Requests, q # r
        PROVE  pc'[q] \in {"idle", "done"} /\ Kept(q)'
    BY <2>1, <2>3, <2>5 DEF Kept, Early
  <2> QED
    BY <2>1, <2>3, <2>4, <2>5 DEF Apart, Unwritten, Early
<1>2. ASSUME NEW r \in Requests, SkipRow(r) PROVE Apart'
  <2>1. /\ pc[r] = "load" /\ UNCHANGED <<pc, row, last, overlapped, marked, written, due>>
    BY <1>2 DEF SkipRow, history
  <2>2. ~overlapped => Kept(r)'
    BY <2>1 DEF Apart, Kept, Early, In
  <2> QED
    BY <2>1, <2>2, ApartOfOne DEF Apart, Early
<1>3. ASSUME NEW r \in Requests, LoadRow(r) PROVE Apart'
  <2>1. /\ pc[r] = "load" /\ UNCHANGED <<row, last, overlapped, sheet, marked, written, due>>
        /\ pc'[r] = "save" /\ (\A q \in Requests \ {r} : pc'[q] = pc[q])
        /\ loaded'[r] = row[Student(r)]
    BY <1>0, <1>3 DEF LoadRow, history, TypeOK
  <2>2. ~overlapped => Kept(r)'
    BY <2>1 DEF Apart, Kept, Early, In, Student
  <2> QED
    BY <2>1, <2>2, ApartOfOne DEF Apart, Early
<1>4. ASSUME NEW r \in Requests, SaveRow(r) PROVE Apart'
  <2> DEFINE s == Student(r)
  <2>1. /\ pc[r] = "save" /\ pc'[r] = "load" /\ UNCHANGED <<row, last, overlapped>>
        /\ \A q \in Requests \ {r} : pc'[q] = pc[q] /\ written'[q] = written[q]
    BY <1>0, <1>4 DEF SaveRow, history, TypeOK
  <2>2. /\ s \in Students /\ Status(r) # None /\ due[r] \in Seq(Students)
        /\ written[r] \in [Students -> StatusOrNone]
        /\ marked[r] \in [Students -> StatusOrNone]
    BY <1>0, <2>1, CurrentRow DEF Saving, Skipped, Status, TypeOK
  <2>3. /\ written'[r] = [written[r] EXCEPT ![s] = Stored(r)]
        /\ marked'[r] = [marked[r] EXCEPT ![s] = Status(r)]
        /\ due'[r] = IF Notifiable(r) THEN Append(due[r], s) ELSE due[r]
    BY <1>0, <1>4 DEF SaveRow, TypeOK
  <2>4. ASSUME ~overlapped PROVE Kept(r)'
    <3>1. /\ loaded[r] = row[s] /\ written[r] = marked[r]
          /\ \A t \in Students : In(t, due[r]) => row[t] # "absent"
      BY <2>1, <2>4 DEF Apart, Kept, Early
    <3>2. Stored(r) = Status(r)
      BY <2>2, <3>1 DEF Stored, StatusChanged
    <3>3. Notifiable(r) => row[s] # "absent"
      BY <3>1, NoneIsNoStatus DEF Notifiable, StatusChanged, Statuses
    <3>4. \A t \in Students : In(t, due'[r]) => row[t] # "absent"
      BY <2>2, <2>3, <3>1, <3>3, InAppend
    <3>5. written'[r] = marked'[r]
      BY <2>3, <3>1, <3>2
    <3> QED
      BY <2>1, <3>4, <3>5 DEF Kept, In
  <2> QED
    BY <2>1, <2>4, ApartOfOne DEF Apart, Early
<1>5. ASSUME NEW r \in Requests, Refuse(r), pc[r] \in Early PROVE Apart'
  <2>1. /\ pc'[r] = "done" /\ written'[r] = Unwritten /\ UNCHANGED <<row, last, overlapped>>
        /\ \A q \in Requests \ {r} : pc'[q] = pc[q] /\ written'[q] = written[q]
    BY <1>0, <1>5 DEF Refuse, history, TypeOK
  <2> QED
    BY <1>5, <2>1, ApartOfOne DEF Apart, Kept, Early
<1>6. ASSUME NEW r \in Requests, Commit(r) PROVE Apart'
  <2>1. /\ pc[r] = "load" /\ pc'[r] = "notify" /\ written'[r] = Unwritten
        /\ UNCHANGED overlapped
        /\ \A q \in Requests \ {r} : pc'[q] = pc[q] /\ written'[q] = written[q]
    BY <1>0, <1>6 DEF Commit, TypeOK
  <2>2. ~overlapped => row' = last'
    BY <1>6, <2>1 DEF Commit, Apart, Kept, Early
  <2> QED
    BY <2>1, <2>2, ApartOfOne DEF Kept, Early
<1>7. ASSUME NEW r \in Requests, pc[r] = "notify", pc'[r] \in {"notify", "done"},
             UNCHANGED <<row, last, written, overlapped>>,
             \A q \in Requests \ {r} : pc'[q] = pc[q]
      PROVE  Apart'
  <2>1. written'[r] = Unwritten
    BY <1>7 DEF Apart, Early
  <2> QED
    BY <1>7, <2>1, ApartOfOne DEF Apart, Kept, Early
<1>8. ASSUME NEW r \in Requests, Enqueue(r) \/ Answer(r) PROVE Apart'
  BY <1>0, <1>7, <1>8 DEF Enqueue, Answer, history, TypeOK
<1>9. ASSUME NEW r \in Requests, Crash(r) PROVE Apart'
  BY <1>0, <1>5, <1>7, <1>9 DEF Crash, history, TypeOK, Early
<1>10. ASSUME NEW r \in Requests, RefuseDuplicate(r) \/ Victim(r) PROVE Apart'
  BY <1>5, <1>10 DEF RefuseDuplicate, Victim, Deadlocked, Early
<1>11. ASSUME UNCHANGED <<row, requestVars, last, overlapped>> PROVE Apart'
  BY <1>11 DEF Apart, Kept, Student, In, Unwritten, requestVars
<1>12. ASSUME NEW r \in Requests, NEW s \in Students,
              \/ Work(r, s) \/ Retry(r, s) \/ Kill(r, s) \/ Release(r, s)
       PROVE  Apart'
  BY <1>11, <1>12 DEF Work, Perform, Finish, Send, Retry, Kill, Release, AfterJob, history
<1>13. CASE Switch \/ UNCHANGED vars
  BY <1>11, <1>13 DEF Switch, vars, history
<1> QED
  BY <1>1, <1>2, <1>3, <1>4, <1>6, <1>8, <1>9, <1>10, <1>12, <1>13 DEF Next, Save, Rest

LEMMA ApartAlways == Spec => [](Typed /\ Once /\ Apart)
<1>1. Init => Apart
  BY DEF Init, Apart, Kept, Early
<1> QED
  BY <1>1, InitTyped, InitOnce, TypedStep, OnceStep, ApartStep, PTL DEF Spec

\* As long as no two sheets are saved at once, the register shows what the last sheet
\* saved said: an UPDATE leaves a column alone only when the row it loaded, and so the
\* row there is, has that status already (attendance_service's find_or_initialize_by).
THEOREM LastSheetStands == Spec => []LastOfApartStands
<1>1. Apart => LastOfApartStands
  BY DEF Apart, LastOfApartStands
<1> QED
  BY <1>1, ApartAlways, PTL

\* Requests that reported s and have committed: the register turned for each of them.
Told(s) == {r \in Requests : pc[r] \notin Early /\ (In(s, due[r]) \/ job[r][s] # "none")}

ToldByTurns ==
    ~overlapped => \A s \in Students : Cardinality(Told(s)) <= turns[s]

LEMMA ToldStep == Typed /\ Once /\ Apart /\ ToldByTurns /\ [Next]_vars => ToldByTurns'
<1> SUFFICES ASSUME Typed, Once, Apart, ToldByTurns, [Next]_vars, ~overlapped',
                    NEW s \in Students
             PROVE  Cardinality(Told(s)') <= turns'[s]
  BY DEF ToldByTurns
<1>0. TypeOK /\ Saving /\ turns[s] \in Nat /\ Told(s) \in SUBSET Requests
      /\ Told(s)' \in SUBSET Requests
  BY DEF Typed, TypeOK, Told
<1>1. ASSUME ~overlapped, Told(s)' \subseteq Told(s), turns'[s] = turns[s]
      PROVE  Cardinality(Told(s)') <= turns'[s]
  <2>1. Cardinality(Told(s)') <= Cardinality(Told(s)) /\ Cardinality(Told(s)) \in Nat
        /\ Cardinality(Told(s)') \in Nat
    BY <1>0, <1>1, RequestSets
  <2>2. Cardinality(Told(s)) <= turns[s]
    BY <1>1 DEF ToldByTurns
  <2> QED
    BY <1>0, <1>1, <2>1, <2>2
<1>2. ASSUME NEW r \in Requests, NEW rows \in Sheets, Submit(r, rows)
      PROVE  Cardinality(Told(s)') <= turns'[s]
  <2>1. pc'[r] = "load" /\ UNCHANGED <<due, job, turns>> /\ ~overlapped
        /\ \A q \in Requests \ {r} : pc'[q] = pc[q]
    BY <1>0, <1>2 DEF Submit, TypeOK, jobVars
  <2>2. Told(s)' \subseteq Told(s)
    BY <2>1 DEF Told, Early, In
  <2> QED
    BY <1>1, <2>1, <2>2
<1>3. ASSUME NEW r \in Requests, UNCHANGED <<job, history>>, due'[r] = due[r] \/ due'[r] = <<>>,
             pc[r] \in Early => pc'[r] \in Early \/ due'[r] = <<>>,
             \A q \in Requests \ {r} : pc'[q] = pc[q] /\ due'[q] = due[q]
      PROVE  Cardinality(Told(s)') <= turns'[s]
  <2>1. ~In(s, <<>>)
    BY DEF In
  <2>2. pc[r] \in Early => job[r][s] = "none"
    BY DEF Once, JobOnce, Early
  <2>3. Told(s)' \subseteq Told(s)
    BY <1>3, <2>1, <2>2 DEF Told, In
  <2> QED
    BY <1>1, <1>3, <2>3 DEF history
<1>4. ASSUME NEW r \in Requests,
             SkipRow(r) \/ LoadRow(r) \/ Refuse(r) \/ Answer(r) \/ (Crash(r) /\ ~Refuse(r))
      PROVE  Cardinality(Told(s)') <= turns'[s]
  BY <1>0, <1>3, <1>4
     DEF SkipRow, LoadRow, Refuse, Answer, Crash, TypeOK, jobVars, history, Early
<1>5. ASSUME NEW r \in Requests, SaveRow(r) PROVE Cardinality(Told(s)') <= turns'[s]
  <2>1. /\ pc'[r] = "load" /\ UNCHANGED <<job, turns, overlapped>>
        /\ \A q \in Requests \ {r} : pc'[q] = pc[q] /\ due'[q] = due[q]
    BY <1>0, <1>5 DEF SaveRow, TypeOK, jobVars, history
  <2>2. Told(s)' \subseteq Told(s)
    BY <2>1 DEF Told, Early, In
  <2> QED
    BY <1>1, <2>1, <2>2
<1>6. ASSUME NEW r \in Requests, Commit(r) PROVE Cardinality(Told(s)') <= turns'[s]
  <2>1. /\ pc[r] = "load" /\ pc'[r] = "notify" /\ UNCHANGED <<due, job, overlapped>>
        /\ \A q \in Requests \ {r} : pc'[q] = pc[q]
        /\ row'[s] = IF written[r][s] # None THEN written[r][s] ELSE row[s]
        /\ turns'[s] = IF row'[s] = "absent" /\ row[s] # "absent" THEN turns[s] + 1
                                                               ELSE turns[s]
    BY <1>0, <1>6 DEF Commit, TypeOK, jobVars
  <2>2. CASE In(s, due[r])
    <3>1. marked[r][s] = "absent" /\ written[r] = marked[r] /\ row[s] # "absent"
      BY <2>1, <2>2 DEF Once, JobOnce, Apart, Kept, Early
    <3>2. turns'[s] = turns[s] + 1
      BY <2>1, <3>1, NoneIsNoStatus DEF Statuses
    <3>3. Told(s)' \subseteq Told(s) \cup {r}
      BY <2>1 DEF Told, Early, In
    <3>4. Cardinality(Told(s)') <= Cardinality(Told(s)) + 1 /\ Cardinality(Told(s)) \in Nat
          /\ Cardinality(Told(s)') \in Nat
      BY <1>0, <3>3, RequestSets
    <3>5. Cardinality(Told(s)) <= turns[s]
      BY <2>1 DEF ToldByTurns
    <3> QED
      BY <1>0, <3>2, <3>4, <3>5
  <2>3. CASE ~In(s, due[r])
    <3>1. Told(s)' \subseteq Told(s)
      BY <2>1, <2>3 DEF Told, Early, In, Once, JobOnce
    <3>2. Cardinality(Told(s)') <= Cardinality(Told(s)) /\ Cardinality(Told(s)) \in Nat
          /\ Cardinality(Told(s)') \in Nat
      BY <1>0, <3>1, RequestSets
    <3>3. Cardinality(Told(s)) <= turns[s]
      BY <2>1 DEF ToldByTurns
    <3> QED
      BY <1>0, <2>1, <3>2, <3>3
  <2> QED
    BY <2>2, <2>3
<1>7. ASSUME NEW r \in Requests, Enqueue(r) PROVE Cardinality(Told(s)') <= turns'[s]
  <2> DEFINE h == Head(due[r])
  <2>1. /\ due[r] \in Seq(Students) /\ due[r] # <<>> /\ h \in Students
        /\ pc[r] = "notify" /\ UNCHANGED <<pc, turns, overlapped>>
        /\ due'[r] = Tail(due[r]) /\ \A q \in Requests \ {r} : due'[q] = due[q]
        /\ In(h, due[r]) /\ (In(s, Tail(due[r])) => In(s, due[r]))
    BY <1>0, <1>7, InTail DEF Enqueue, TypeOK, history
  <2>2. \A q \in Requests, t \in Students : job'[q][t] # "none" =>
           job[q][t] # "none" \/ (q = r /\ t = h)
    BY <1>0, <1>7, <2>1 DEF Enqueue, TypeOK
  <2>3. Told(s)' \subseteq Told(s)
    BY <2>1, <2>2 DEF Told, Early, In
  <2> QED
    BY <1>1, <2>1, <2>3
<1>8. ASSUME NEW r \in Requests, NEW t \in Students, NEW state, AfterJob(r, t, state),
             job[r][t] # "none"
      PROVE  Cardinality(Told(s)') <= turns'[s]
  <2>1. /\ UNCHANGED <<due, pc, turns, overlapped>>
        /\ job' = [job EXCEPT ![r][t] = state]
    BY <1>8 DEF AfterJob, requestVars, history
  <2>2. \A q \in Requests, u \in Students : job'[q][u] # "none" => job[q][u] # "none"
    BY <1>0, <1>8, <2>1 DEF TypeOK
  <2>3. Told(s)' \subseteq Told(s)
    BY <2>1, <2>2 DEF Told, Early, In
  <2> QED
    BY <1>1, <2>1, <2>3
<1>9. ASSUME NEW r \in Requests, NEW t \in Students,
             Perform(r, t) \/ Finish(r, t) \/ Retry(r, t) \/ Kill(r, t) \/ Release(r, t)
      PROVE  Cardinality(Told(s)') <= turns'[s]
  BY <1>8, <1>9 DEF Perform, Finish, Retry, Kill, Release
<1>10. ASSUME UNCHANGED <<pc, due, job, history>> PROVE Cardinality(Told(s)') <= turns'[s]
  <2>1. Told(s)' \subseteq Told(s)
    BY <1>10 DEF Told, Early, In
  <2> QED
    BY <1>1, <1>10, <2>1 DEF history
<1>11. ASSUME NEW r \in Requests, NEW t \in Students, NEW p \in Parents, Send(r, t, p)
       PROVE  Cardinality(Told(s)') <= turns'[s]
  BY <1>10, <1>11 DEF Send, requestVars
<1>12. CASE Switch \/ UNCHANGED vars
  BY <1>10, <1>12 DEF Switch, requestVars, jobVars, vars
<1> QED
  BY <1>2, <1>4, <1>5, <1>6, <1>7, <1>9, <1>11, <1>12
     DEF Next, Save, Work, Rest, RefuseDuplicate, Victim, Crash

\* As long as sheets are saved one at a time, a parent hears of a student at most once
\* for each time the register turned to absent, and once more for each fault: a sheet
\* saved again reports nobody (saved_change_to_status? in attendance.rb).
THEOREM OneAlertForEachTurn == Spec => []OneAlertPerTurn
<1>1. Init => SentBounded /\ ToldByTurns
  <2> SUFFICES ASSUME Init, NEW s \in Students
               PROVE  /\ Cardinality(Told(s)) <= turns[s]
                      /\ \A p \in Parents : SentBound(s, p)
    BY DEF SentBounded, ToldByTurns
  <2>1. \A p \in Parents : /\ Sending(s, p) = {} /\ Reporting(s) = {} /\ Told(s) = {}
                           /\ sent[s][p] = 0 /\ faults = 0 /\ turns[s] = 0
    BY DEF Init, Sending, Reporting, Told, In
  <2>2. Told(s) = {} /\ turns[s] = 0
    BY DEF Init, Told, In
  <2> QED
    BY <2>1, <2>2, FS_EmptySet DEF SentBound
<1>2. ASSUME Typed, Once, SentBounded, ToldByTurns PROVE OneAlertPerTurn
  <2> SUFFICES ASSUME ~overlapped, NEW s \in Students, NEW p \in Parents
               PROVE  sent[s][p] <= turns[s] + faults
    BY DEF OneAlertPerTurn
  <2> DEFINE Untold == Reporting(s) \ Told(s)
  <2>1. /\ Told(s) \in SUBSET Requests /\ Untold \in SUBSET Requests
        /\ Sending(s, p) \in SUBSET Requests
        /\ Reporting(s) = Told(s) \cup Untold /\ Told(s) \cap Untold = {}
    BY DEF Told, Reporting, Sending
  <2>2. Untold \subseteq Sending(s, p)
    BY <1>2 DEF Told, Reporting, Sending, Once, JobOnce, Early
  <2>3. /\ Cardinality(Untold) <= Cardinality(Sending(s, p))
        /\ Cardinality(Told(s)) \in Nat /\ Cardinality(Untold) \in Nat
        /\ Cardinality(Sending(s, p)) \in Nat
    BY <2>1, <2>2, RequestSets
  <2>4. Cardinality(Reporting(s)) = Cardinality(Told(s)) + Cardinality(Untold)
    <3>1. IsFiniteSet(Told(s)) /\ IsFiniteSet(Untold)
      BY <2>1, FiniteRequests, FS_Subset
    <3> HIDE DEF Untold
    <3>2. /\ Cardinality(Told(s) \cup Untold) =
                Cardinality(Told(s)) + Cardinality(Untold) - Cardinality(Told(s) \cap Untold)
          /\ Cardinality(Told(s) \cap Untold) = 0
      BY <2>1, <3>1, FS_Union, FS_EmptySet
    <3> QED
      BY <2>1, <2>3, <3>2
  <2>5. sent[s][p] + Cardinality(Sending(s, p)) <= Cardinality(Reporting(s)) + faults
    BY <1>2 DEF SentBounded, SentBound
  <2>6. Cardinality(Told(s)) <= turns[s]
    BY <1>2 DEF ToldByTurns
  <2>7. sent[s][p] \in Nat /\ faults \in Nat /\ turns[s] \in Nat
    BY <1>2, Bounds DEF Typed, TypeOK
  <2> QED
    BY <2>3, <2>4, <2>5, <2>6, <2>7
<1> QED
  BY <1>1, <1>2, SentBoundedStep, ToldStep, ApartAlways, PTL DEF Spec
=============================================================================
