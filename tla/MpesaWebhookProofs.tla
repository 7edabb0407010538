------------------------- MODULE MpesaWebhookProofs -------------------------
(* Proofs about MpesaWebhook: typing, that it implements PaymentIntake, and *)
(* the bound on how often one payment is recorded.                          *)
EXTENDS MpesaWebhook, FiniteSetTheorems, TLAPS

-----------------------------------------------------------------------------
(* Typing.                                                                 *)

LEMMA InitTypeOK == Init => TypeOK
  BY Bounds DEF Init, TypeOK

LEMMA TypeOKStep == TypeOK /\ [Next]_vars => TypeOK'
<1> SUFFICES ASSUME TypeOK, [Next]_vars PROVE TypeOK'
  OBVIOUS
<1> USE NoneIsNoPayload DEF TypeOK
<1>1. ASSUME NEW w \in Threads, NEW c \in Callbacks, Deliver(w, c) PROVE TypeOK'
  BY <1>1 DEF Deliver
<1>2. ASSUME NEW w \in Threads, VerifySignature(w) PROVE TypeOK'
  BY <1>2 DEF VerifySignature, Refuse, Finish, Goto
<1>3. ASSUME NEW w \in Threads, CheckDuplicate(w) PROVE TypeOK'
  <2>1. callback[w] \in Callbacks /\ callback[w].payment \in Payments
    BY <1>3 DEF CheckDuplicate, Payments
  <2> QED
    BY <1>3, <2>1 DEF CheckDuplicate, Accept, Finish, Goto
<1>4. ASSUME NEW w \in Threads, ProcessCallback(w) PROVE TypeOK'
  BY <1>4 DEF ProcessCallback, Refuse, Finish, Goto
<1>5. ASSUME NEW w \in Threads, RecordTransaction(w) PROVE TypeOK'
  BY <1>5 DEF RecordTransaction, Refuse, Finish, Goto
<1>6. ASSUME NEW w \in Threads, WriteKey(w) PROVE TypeOK'
  <2>1. /\ callback[w] \in Callbacks /\ callback[w].payment \in Payments
        /\ Key(callback[w]) \in Keys
    BY <1>6 DEF WriteKey, Payments, Keys
  <2> QED
    BY <1>6, <2>1 DEF WriteKey, Accept, Finish
<1>7. ASSUME NEW w \in Threads, Die(w) PROVE TypeOK'
  BY <1>7, Bounds DEF Die, Fault, Refuse, Finish
<1>8. ASSUME NEW k \in Keys, DropKey(k) PROVE TypeOK'
  BY <1>8, Bounds DEF DropKey, Fault
<1>9. CASE Switch
  BY <1>9, Bounds DEF Switch, Fault
<1>10. CASE UNCHANGED vars
  BY <1>10 DEF vars
<1> QED
  BY <1>1, <1>2, <1>3, <1>4, <1>5, <1>6, <1>7, <1>8, <1>9, <1>10 DEF Next, Handle

\* Every reachable state is well typed; a busy thread has a payload.
THEOREM Typing == Spec => []TypeOK
  BY InitTypeOK, TypeOKStep, PTL DEF Spec

-----------------------------------------------------------------------------
(* MpesaWebhook implements PaymentIntake.                                  *)

\* A key is in the cache, and a thread about to write one, only when the payment
\* has been recorded.
Backed ==
    /\ \A c \in Callbacks :
          Key(c) # <<>> /\ Key(c) \in cache => copies[c.payment] > 0
    /\ \A w \in Threads : pc[w] = "write" => copies[callback[w].payment] > 0

LEMMA BackedStep ==
  KeysIdentify => (TypeOK /\ Backed /\ [Next]_vars => Backed')
<1> SUFFICES ASSUME KeysIdentify, TypeOK, Backed, [Next]_vars PROVE Backed'
  OBVIOUS
<1> USE DEF TypeOK, Backed
<1>0. \A c \in Callbacks : c.payment \in Payments
  BY DEF Payments
<1>1. ASSUME NEW w \in Threads, NEW c \in Callbacks, Deliver(w, c) PROVE Backed'
  BY <1>1 DEF Deliver
<1>2. ASSUME NEW w \in Threads, VerifySignature(w) \/ CheckDuplicate(w) PROVE Backed'
  BY <1>2 DEF VerifySignature, CheckDuplicate, Refuse, Accept, Finish, Goto
<1>3. ASSUME NEW w \in Threads, ProcessCallback(w) \/ Die(w) PROVE Backed'
  BY <1>3 DEF ProcessCallback, Die, Refuse, Finish, Goto
<1>4. ASSUME NEW w \in Threads, RecordTransaction(w) PROVE Backed'
  <2>1. CASE Refuse(w) /\ UNCHANGED copies
    BY <1>4, <2>1 DEF RecordTransaction, Refuse, Finish
  <2>2. CASE Goto(w, "write") /\ copies' = [copies EXCEPT ![callback[w].payment] = @ + 1]
    <3>1. callback[w] \in Callbacks
      BY <1>4 DEF RecordTransaction
    <3>2. \A p \in Payments : copies[p] > 0 => copies'[p] > 0
      BY <2>2
    <3>3. copies'[callback[w].payment] > 0
      BY <1>0, <2>2, <3>1
    <3>4. \A v \in Threads : pc[v] = "write" => callback[v] \in Callbacks
      OBVIOUS
    <3> QED
      BY <1>0, <1>4, <2>2, <3>1, <3>2, <3>3, <3>4 DEF RecordTransaction, Goto
  <2> QED
    BY <1>4, <2>1, <2>2 DEF RecordTransaction
<1>5. ASSUME NEW w \in Threads, WriteKey(w) PROVE Backed'
  <2>1. callback[w] \in Callbacks /\ copies[callback[w].payment] > 0
    BY <1>5 DEF WriteKey
  <2>2. ASSUME NEW c \in Callbacks, Key(c) # <<>>, Key(c) \in cache'
        PROVE  copies[c.payment] > 0
    BY <1>5, <2>1, <2>2 DEF WriteKey, KeysIdentify
  <2> QED
    BY <1>5, <2>2 DEF WriteKey, Accept, Finish
<1>6. ASSUME NEW k \in Keys, DropKey(k) PROVE Backed'
  BY <1>6 DEF DropKey
<1>7. CASE Switch \/ UNCHANGED vars
  BY <1>7 DEF Switch, vars
<1> QED
  BY <1>1, <1>2, <1>3, <1>4, <1>5, <1>6, <1>7 DEF Next, Handle

Recorded == {p \in Payments : copies[p] > 0}

LEMMA IntakeStep ==
  KeysIdentify => (TypeOK /\ Backed /\ [Next]_vars =>
                      [Intake!Next]_<<Recorded, accepted>>)
<1> SUFFICES ASSUME KeysIdentify, TypeOK, Backed, [Next]_vars
             PROVE  Intake!Next \/ UNCHANGED <<Recorded, accepted>>
  OBVIOUS
<1> USE DEF TypeOK, Recorded
<1>0. \A c \in Callbacks : c.payment \in Payments
  BY DEF Payments
<1>1. ASSUME NEW w \in Threads, RecordTransaction(w), copies' # copies
      PROVE  Intake!Next \/ UNCHANGED <<Recorded, accepted>>
  <2> DEFINE p == callback[w].payment
  <2>1. /\ copies' = [copies EXCEPT ![p] = @ + 1] /\ UNCHANGED accepted
        /\ p \in Payments
    BY <1>0, <1>1 DEF RecordTransaction
  <2>2. Recorded' = Recorded \cup {p}
    BY <2>1
  <2> QED
    BY <2>1, <2>2 DEF Intake!Next, Intake!Record
<1>2. ASSUME NEW w \in Threads, Accept(w), UNCHANGED copies, callback[w] \in Callbacks,
             copies[callback[w].payment] > 0
      PROVE  Intake!Next
  <2>1. callback[w].payment \in Recorded /\ Recorded' = Recorded
    BY <1>0, <1>2
  <2> QED
    BY <1>0, <1>2, <2>1 DEF Intake!Next, Intake!Accept, Accept
<1>3. ASSUME NEW w \in Threads, CheckDuplicate(w)
      PROVE  Intake!Next \/ UNCHANGED <<Recorded, accepted>>
  BY <1>2, <1>3 DEF CheckDuplicate, Backed
<1>4. ASSUME NEW w \in Threads, WriteKey(w) PROVE Intake!Next
  BY <1>2, <1>4 DEF WriteKey, Backed
<1>5. ASSUME UNCHANGED <<copies, accepted>>
      PROVE  UNCHANGED <<Recorded, accepted>>
  BY <1>5
<1> QED
  BY <1>1, <1>3, <1>4, <1>5 DEF Next, Handle, Deliver, VerifySignature,
     ProcessCallback, RecordTransaction, Die, DropKey, Switch, Refuse, vars

\* A payment the endpoint answered with 200 is recorded and stays recorded, under
\* any interleaving of threads, deaths, dropped keys and switches of the
\* integration, provided the ids of different payments differ.
THEOREM ImplementsIntake ==
  ASSUME KeysIdentify
  PROVE  Spec => NothingAcceptedIsLost
<1>1. Init => Intake!Init /\ TypeOK /\ Backed
  BY InitTypeOK DEF Init, Intake!Init, Backed
<1>2. TypeOK /\ Backed /\ [Next]_vars => (TypeOK /\ Backed)'
  BY TypeOKStep, BackedStep
<1>3. TypeOK /\ Backed /\ [Next]_vars =>
        [Intake!Next]_<<{p \in Payments : copies[p] > 0}, accepted>>
  BY IntakeStep DEF Recorded
<1> QED
  BY <1>1, <1>2, <1>3, PTL DEF Spec, NothingAcceptedIsLost, Intake!Spec

-----------------------------------------------------------------------------
(* How often a payment can be recorded.                                    *)

\* Threads past the duplicate check that have not recorded p yet, and threads
\* that have and still owe the cache its key.
Ahead(p) == {w \in Threads : /\ pc[w] \in {"process", "record"}
                             /\ callback[w].payment = p}
Writing(p) == {w \in Threads : pc[w] = "write" /\ callback[w].payment = p}

T == Cardinality(Threads)

\* As long as the key k of p is missing, only threads that still owe the key
\* count beyond the faults; once it is there, only those already ahead may add.
Bounded(p, k) ==
    /\ k \notin cache => copies[p] <= T * faults + Cardinality(Writing(p))
    /\ k \in cache => copies[p] + Cardinality(Ahead(p)) <= T * (faults + 1)

KeyOf(p, k) == k # <<>> /\ \A c \in Callbacks : c.payment = p => Key(c) = k

AllBounded == \A p \in Payments, k \in Keys : KeyOf(p, k) => Bounded(p, k)

\* The threads at work for a payment are finitely many, and at most all of them.
LEMMA ThreadSets ==
  ASSUME NEW A \in SUBSET Threads, NEW B \in SUBSET Threads
  PROVE  /\ T \in Nat /\ Cardinality(A) \in Nat /\ Cardinality(B) \in Nat
         /\ A \cap B = {} => Cardinality(A) + Cardinality(B) <= T
         /\ A \subseteq B => Cardinality(A) <= Cardinality(B)
         /\ \A w \in Threads : A \subseteq B \cup {w} =>
                                  Cardinality(A) <= Cardinality(B) + 1
         /\ \A w \in Threads \ A : A \cup {w} \subseteq B =>
                                      Cardinality(A) + 1 <= Cardinality(B)
         /\ \A w \in Threads : T >= 1
<1>1. IsFiniteSet(Threads) /\ IsFiniteSet(A) /\ IsFiniteSet(B) /\ T \in Nat
      /\ Cardinality(A) \in Nat /\ Cardinality(B) \in Nat
  BY FiniteThreads, FS_Subset, FS_CardinalityType DEF T
<1>2. ASSUME A \cap B = {} PROVE Cardinality(A) + Cardinality(B) <= T
  <2>1. Cardinality(A \cup B) = Cardinality(A) + Cardinality(B)
    <3>1. Cardinality(A \cap B) = 0
      BY <1>2, FS_EmptySet
    <3>2. Cardinality(A \cup B) = Cardinality(A) + Cardinality(B) - Cardinality(A \cap B)
      BY <1>1, FS_Union
    <3> QED
      BY <1>1, <3>1, <3>2
  <2>2. Cardinality(A \cup B) <= T
    BY <1>1, FS_Subset DEF T
  <2> QED
    BY <2>1, <2>2
<1>3. A \subseteq B => Cardinality(A) <= Cardinality(B)
  BY <1>1, FS_Subset
<1>4. ASSUME NEW w \in Threads, A \subseteq B \cup {w}
      PROVE  Cardinality(A) <= Cardinality(B) + 1
  <2>1. IsFiniteSet(B \cup {w}) /\ Cardinality(B \cup {w}) <= Cardinality(B) + 1
    <3>1. /\ IsFiniteSet(B \cup {w})
          /\ Cardinality(B \cup {w}) =
               IF w \in B THEN Cardinality(B) ELSE Cardinality(B) + 1
      BY <1>1, FS_AddElement
    <3> QED
      BY <1>1, <3>1
  <2>2. Cardinality(A) <= Cardinality(B \cup {w}) /\ Cardinality(B \cup {w}) \in Nat
    BY <1>4, <2>1, FS_Subset, FS_CardinalityType
  <2> QED
    BY <1>1, <2>1, <2>2
<1>5. ASSUME NEW w \in Threads \ A, A \cup {w} \subseteq B
      PROVE  Cardinality(A) + 1 <= Cardinality(B)
  <2>1. Cardinality(A \cup {w}) = Cardinality(A) + 1
    BY <1>1, FS_AddElement
  <2> QED
    BY <1>1, <1>5, <2>1, FS_Subset
<1>6. ASSUME NEW w \in Threads PROVE T >= 1
  BY <1>1, FS_EmptySet DEF T
<1> QED
  BY <1>1, <1>2, <1>3, <1>4, <1>5, <1>6

LEMMA AllBoundedStep == TypeOK /\ AllBounded /\ [Next]_vars => AllBounded'
<1> SUFFICES ASSUME TypeOK, AllBounded, [Next]_vars,
                    NEW p \in Payments, NEW k \in Keys, KeyOf(p, k)
             PROVE  Bounded(p, k)'
  BY DEF AllBounded, KeyOf
<1> USE DEF TypeOK
<1>0. Bounded(p, k)
  BY DEF AllBounded
<1> DEFINE A == Cardinality(Ahead(p))
           B == Cardinality(Writing(p))
           A1 == Cardinality(Ahead(p)')
           B1 == Cardinality(Writing(p)')
<1>1. /\ A \in Nat /\ B \in Nat /\ A1 \in Nat /\ B1 \in Nat /\ T \in Nat
      /\ A + B <= T
      /\ Ahead(p)' \subseteq Ahead(p) => A1 <= A
      /\ Writing(p) \subseteq Writing(p)' => B <= B1
  BY ThreadSets DEF Ahead, Writing
<1>2. copies[p] \in Nat /\ faults \in Nat
  BY Bounds
<1>3. T * faults \in Nat /\ T * (faults + 1) = T * faults + T
  BY <1>1, <1>2
\* A step that records nothing, writes no key and is no fault.
<1>4. ASSUME UNCHANGED <<copies, cache, faults>>, Writing(p) \subseteq Writing(p)',
             Ahead(p)' \subseteq Ahead(p) \/ k \notin cache
      PROVE  Bounded(p, k)'
  BY <1>0, <1>1, <1>2, <1>3, <1>4 DEF Bounded, T
\* A fault.
<1>5. ASSUME UNCHANGED copies, cache' \subseteq cache, faults' = faults + 1, T >= 1,
             Ahead(p)' \subseteq Ahead(p), B <= B1 + 1
      PROVE  Bounded(p, k)'
  <2>1. T * (faults' + 1) = T * faults + T + T /\ T * faults' = T * faults + T
    BY <1>1, <1>2, <1>5
  <2> QED
    BY <1>0, <1>1, <1>2, <1>3, <1>5, <2>1 DEF Bounded, T
<1>6. ASSUME NEW w \in Threads, NEW c \in Callbacks, Deliver(w, c)
      PROVE  Bounded(p, k)'
  BY <1>4, <1>6 DEF Deliver, Ahead, Writing
<1>7. ASSUME NEW w \in Threads, VerifySignature(w) PROVE Bounded(p, k)'
  BY <1>4, <1>7 DEF VerifySignature, Refuse, Finish, Goto, Ahead, Writing
<1>8. ASSUME NEW w \in Threads, CheckDuplicate(w) PROVE Bounded(p, k)'
  <2>1. Ahead(p)' \subseteq Ahead(p) \/ k \notin cache
    <3>1. callback[w] \in Callbacks
      BY <1>8 DEF CheckDuplicate
    <3>2. CASE callback[w].payment = p
      BY <1>8, <3>1, <3>2
         DEF CheckDuplicate, KeyOf, Accept, Finish, Goto, Ahead
    <3>3. CASE callback[w].payment # p
      BY <1>8, <3>3 DEF CheckDuplicate, Accept, Finish, Goto, Ahead
    <3> QED
      BY <3>2, <3>3
  <2>2. Writing(p) \subseteq Writing(p)'
    BY <1>8 DEF CheckDuplicate, Accept, Finish, Goto, Writing
  <2> QED
    BY <1>4, <1>8, <2>1, <2>2 DEF CheckDuplicate
<1>9. ASSUME NEW w \in Threads, ProcessCallback(w) PROVE Bounded(p, k)'
  BY <1>4, <1>9 DEF ProcessCallback, Refuse, Finish, Goto, Ahead, Writing
<1>10. ASSUME NEW w \in Threads, RecordTransaction(w) PROVE Bounded(p, k)'
  <2>0. Writing(p) \subseteq Writing(p)' /\ Ahead(p)' \subseteq Ahead(p)
    BY <1>10 DEF RecordTransaction, Refuse, Finish, Goto, Ahead, Writing
  <2>1. CASE UNCHANGED copies
    BY <1>4, <1>10, <2>0, <2>1 DEF RecordTransaction
  <2>2. CASE Goto(w, "write") /\ copies' = [copies EXCEPT ![callback[w].payment] = @ + 1]
    <3>1. CASE callback[w].payment # p
      <4>1. copies'[p] = copies[p]
        BY <2>2, <3>1
      <4> QED
        BY <1>0, <1>1, <1>2, <1>3, <1>10, <2>0, <4>1 DEF Bounded, RecordTransaction, T
    <3>2. CASE callback[w].payment = p
      <4>1. copies'[p] = copies[p] + 1
        BY <2>2, <3>2
      <4>2. w \notin Writing(p) /\ Writing(p) \cup {w} \subseteq Writing(p)'
        BY <1>10, <2>2, <3>2 DEF RecordTransaction, Goto, Writing
      <4>3. w \notin Ahead(p)' /\ Ahead(p)' \cup {w} \subseteq Ahead(p)
        BY <1>10, <2>2, <3>2 DEF RecordTransaction, Goto, Ahead
      <4>4. B + 1 <= B1
        BY <4>2, ThreadSets DEF Writing
      <4>5. A1 + 1 <= A
        BY <4>3, ThreadSets DEF Ahead
      <4> QED
        BY <1>0, <1>1, <1>2, <1>3, <1>10, <4>1, <4>4, <4>5
           DEF Bounded, RecordTransaction, T
    <3> QED
      BY <3>1, <3>2
  <2> QED
    BY <1>10, <2>1, <2>2 DEF RecordTransaction
<1>11. ASSUME NEW w \in Threads, WriteKey(w) PROVE Bounded(p, k)'
  <2>1. Ahead(p)' \subseteq Ahead(p)
    BY <1>11 DEF WriteKey, Accept, Finish, Ahead
  <2>2. k \notin cache' => k \notin cache /\ Writing(p) \subseteq Writing(p)'
    <3>1. callback[w] \in Callbacks
      BY <1>11 DEF WriteKey
    <3>2. callback[w].payment = p => k \in cache'
      BY <1>11, <3>1 DEF WriteKey, KeyOf
    <3> QED
      BY <1>11, <3>2 DEF WriteKey, Accept, Finish, Writing
  <2>3. copies' = copies /\ faults' = faults
    BY <1>11 DEF WriteKey
  <2> QED
    BY <1>0, <1>1, <1>2, <1>3, <2>1, <2>2, <2>3 DEF Bounded, T
<1>12. ASSUME NEW w \in Threads, Die(w) PROVE Bounded(p, k)'
  <2>1. /\ Ahead(p)' \subseteq Ahead(p)
        /\ Writing(p) \subseteq Writing(p)' \cup {w}
    BY <1>12 DEF Die, Refuse, Finish, Ahead, Writing
  <2>2. B <= B1 + 1 /\ T >= 1
    BY <2>1, ThreadSets DEF Writing
  <2> QED
    BY <1>5, <1>12, <2>1, <2>2 DEF Die, Fault
<1>13. ASSUME UNCHANGED <<copies, pc, callback>>, cache' \subseteq cache, Fault
       PROVE  Bounded(p, k)'
  <2>1. Ahead(p)' = Ahead(p) /\ Writing(p)' = Writing(p) /\ faults' = faults + 1
    BY <1>13 DEF Ahead, Writing, Fault
  <2>2. T * (faults' + 1) = T * faults + T + T /\ T * faults' = T * faults + T
    BY <1>1, <1>2, <2>1
  <2> QED
    BY <1>0, <1>1, <1>2, <1>3, <1>13, <2>1, <2>2 DEF Bounded, T
<1>14. CASE UNCHANGED vars
  BY <1>4, <1>14 DEF vars, Ahead, Writing
<1> QED
  BY <1>6, <1>7, <1>8, <1>9, <1>10, <1>11, <1>12, <1>13, <1>14
     DEF Next, Handle, DropKey, Switch

\* With n threads and f faults so far, a payment that always carries the same ids
\* is recorded at most n * (f + 1) times, however often it is delivered.
THEOREM BoundedDuplicates == Spec => []DuplicatesBounded
<1>1. Init => TypeOK /\ AllBounded
  <2>1. \A p : Cardinality(Writing(p)) \in Nat
    BY ThreadSets DEF Writing
  <2>2. T \in Nat
    BY FiniteThreads, FS_CardinalityType DEF T
  <2>3. T * 0 = 0
    BY <2>2
  <2> QED
    BY <2>1, <2>2, <2>3, InitTypeOK DEF Init, AllBounded, Bounded
<1>2. TypeOK /\ AllBounded /\ [Next]_vars => (TypeOK /\ AllBounded)'
  BY TypeOKStep, AllBoundedStep
<1>3. TypeOK /\ AllBounded => DuplicatesBounded
  <2> SUFFICES ASSUME TypeOK, AllBounded, NEW p \in Payments, OneKey(p)
               PROVE  copies[p] <= T * (faults + 1)
    BY DEF DuplicatesBounded, T
  <2>1. PICK k \in Keys : KeyOf(p, k)
    BY DEF OneKey, KeyOf
  <2>2. Bounded(p, k)
    BY <2>1 DEF AllBounded
  <2>3. /\ Cardinality(Writing(p)) \in Nat /\ Cardinality(Writing(p)) <= T
        /\ Cardinality(Ahead(p)) \in Nat /\ T \in Nat
        /\ copies[p] \in Nat /\ faults \in Nat
    <3>1. Writing(p) \subseteq Threads /\ Threads \subseteq Threads
      BY DEF Writing
    <3> QED
      BY <3>1, ThreadSets, Bounds DEF TypeOK, Writing, Ahead, T
  <2>4. T * (faults + 1) = T * faults + T /\ T * faults \in Nat
    BY <2>3
  <2> QED
    BY <2>2, <2>3, <2>4 DEF Bounded
<1> QED
  BY <1>1, <1>2, <1>3, PTL DEF Spec
=============================================================================
