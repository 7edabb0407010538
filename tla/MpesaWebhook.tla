---------------------------- MODULE MpesaWebhook ----------------------------
(***************************************************************************)
(* The M-Pesa callback (POST /transactions/mpesa_callback).  The provider  *)
(* may deliver the callback of a payment any number of times; each Puma    *)
(* thread handles one delivery at a time, and between its steps - test the *)
(* cache, process, save the transaction, write the cache - other threads   *)
(* take theirs.  Rails.cache may drop a key, the integration may be        *)
(* switched, and a thread may die.                                         *)
(***************************************************************************)
EXTENDS Integers, Sequences, FiniteSets

CONSTANTS
    Threads,     \* Puma threads that handle callbacks
    PaymentIds,  \* payments as the provider knows them
    Ids,         \* receipts, checkout request ids and transaction ids
    Callbacks,   \* the payloads the provider may deliver
    Local,       \* Rails.env.local?: development and test
    SecretSet,   \* MPESA_WEBHOOK_SECRET is set
    MaxCopies,   \* bound: transactions recorded for one payment
    MaxFaults,   \* bound: deaths, dropped keys and switches together
    None

\* A payload: the payment it reports (which the code never sees), the three ids
\* it may carry, its amount, whether a student is found for its phone number (or
\* for the one the code falls back to), and whether its signature is right.  A
\* payload without a single parameter is left out: it is refused.
Payload == [payment : PaymentIds, receipt : Ids \cup {None},
            checkout : Ids \cup {None}, transaction : Ids \cup {None},
            amount : Nat \cup {None}, payer : BOOLEAN, signed : BOOLEAN]

ASSUME CallbacksArePayloads == Callbacks \subseteq Payload
ASSUME NoneIsNoPayload == None \notin Callbacks
ASSUME FiniteThreads == IsFiniteSet(Threads)
ASSUME Switches == Local \in BOOLEAN /\ SecretSet \in BOOLEAN
ASSUME Bounds == MaxCopies \in Nat /\ MaxFaults \in Nat

Payments == {c.payment : c \in Callbacks}

\* MpesaPaymentService.callback_idempotency_key: the ids present, in order.  Which
\* field an id came from is forgotten; <<>> stands for no key.
Key(c) == SelectSeq(<<c.receipt, c.checkout, c.transaction>>,
                    LAMBDA id : id # None)
Keys == {Key(c) : c \in Callbacks}

VARIABLES
    cache,     \* keys in Rails.cache
    enabled,   \* Integrations.mpesa_enabled?
    copies,    \* transactions recorded for each payment
    pc,        \* where each thread stands
    callback,  \* the payload it handles
    accepted,  \* history: payments answered with 200 OK
    faults     \* faults so far

vars == <<cache, enabled, copies, pc, callback, accepted, faults>>

\* Typing; keys in the cache are keys of callbacks.
TypeOK ==
    /\ cache \subseteq Keys
    /\ enabled \in BOOLEAN
    /\ copies \in [Payments -> Nat]
    /\ pc \in [Threads -> {"idle", "verify", "exist", "process", "record", "write"}]
    /\ callback \in [Threads -> Callbacks \cup {None}]
    /\ \A w \in Threads : pc[w] # "idle" => callback[w] # None
    /\ accepted \subseteq Payments
    /\ faults \in 0 .. MaxFaults

Init ==
    /\ cache = {} /\ accepted = {} /\ faults = 0
    /\ enabled \in BOOLEAN
    /\ copies = [p \in Payments |-> 0]
    /\ pc = [w \in Threads |-> "idle"]
    /\ callback = [w \in Threads |-> None]

Goto(w, step) == pc' = [pc EXCEPT ![w] = step] /\ UNCHANGED callback
Finish(w) == /\ pc' = [pc EXCEPT ![w] = "idle"]
             /\ callback' = [callback EXCEPT ![w] = None]

\* Answer 401, 422 or 500: the delivery leaves nothing behind.
Refuse(w) == Finish(w) /\ UNCHANGED accepted
\* Answer 200: the provider has no reason to deliver again, but may.
Accept(w) == Finish(w) /\ accepted' = accepted \cup {callback[w].payment}

Deliver(w, c) ==
    /\ pc[w] = "idle"
    /\ copies[c.payment] < MaxCopies
    /\ pc' = [pc EXCEPT ![w] = "verify"]
    /\ callback' = [callback EXCEPT ![w] = c]
    /\ UNCHANGED <<cache, enabled, copies, accepted, faults>>

\* verify_mpesa_webhook_signature!
VerifySignature(w) ==
    /\ pc[w] = "verify"
    /\ \/ /\ SecretSet /\ ~callback[w].signed
          /\ Refuse(w)
       \/ /\ SecretSet => callback[w].signed
          /\ Goto(w, "exist") /\ UNCHANGED accepted
    /\ UNCHANGED <<cache, enabled, copies, faults>>

\* Mutant: the key is written with the check, before anything is recorded.
CheckAndWriteKey(w) ==
    LET key == Key(callback[w]) IN
    /\ pc[w] = "exist"
    /\ cache' = IF key # <<>> THEN cache \cup {key} ELSE cache
    /\ \/ key # <<>> /\ key \in cache /\ Accept(w)
       \/ ~(key # <<>> /\ key \in cache)
          /\ Goto(w, "process") /\ UNCHANGED accepted
    /\ UNCHANGED <<enabled, copies, faults>>

\* Rails.cache.exist?: a delivery without ids is never a duplicate.
CheckDuplicate(w) ==
    LET key == Key(callback[w]) IN
    /\ pc[w] = "exist"
    /\ \/ /\ key # <<>> /\ key \in cache
          /\ Accept(w)
       \/ /\ key = <<>> \/ key \notin cache
          /\ Goto(w, "process") /\ UNCHANGED accepted
    /\ UNCHANGED <<cache, enabled, copies, faults>>

\* MpesaPaymentService.process_callback
Unrecognised(c) == ~Local /\ c.receipt = None /\ c.amount = None

ProcessCallback(w) ==
    /\ pc[w] = "process"
    /\ \/ /\ ~enabled \/ Unrecognised(callback[w])
          /\ Refuse(w)
       \/ /\ enabled /\ ~Unrecognised(callback[w])
          /\ Goto(w, "record") /\ UNCHANGED accepted
    /\ UNCHANGED <<cache, enabled, copies, faults>>

\* A missing amount becomes 100 in development, 0 in production, and the
\* transaction's validation refuses 0.
Amount(c) == IF c.amount # None THEN c.amount ELSE IF Local THEN 100 ELSE 0

\* MpesaPaymentService.record_transaction, up to the commit of the transaction.
RecordTransaction(w) ==
    LET c == callback[w] IN
    /\ pc[w] = "record"
    /\ \/ /\ ~enabled \/ ~c.payer \/ Amount(c) = 0
          /\ Refuse(w) /\ UNCHANGED copies
       \/ /\ enabled /\ c.payer /\ Amount(c) # 0
          /\ copies' = [copies EXCEPT ![c.payment] = @ + 1]
          /\ Goto(w, "write") /\ UNCHANGED accepted
    /\ UNCHANGED <<cache, enabled, faults>>

\* Mutant: the key is never written.
WriteNoKey(w) ==
    /\ pc[w] = "write"
    /\ Accept(w)
    /\ UNCHANGED <<cache, enabled, copies, faults>>

\* Mutant: the key written is the receipt alone, not the one that was checked.
WriteReceipt(w) ==
    /\ pc[w] = "write"
    /\ cache' = cache \cup {<<callback[w].receipt>>}
    /\ Accept(w)
    /\ UNCHANGED <<enabled, copies, faults>>

\* Rails.cache.write, after the callbacks of the transaction have run.
WriteKey(w) ==
    LET key == Key(callback[w]) IN
    /\ pc[w] = "write"
    /\ cache' = IF key # <<>> THEN cache \cup {key} ELSE cache
    /\ Accept(w)
    /\ UNCHANGED <<enabled, copies, faults>>

-----------------------------------------------------------------------------
Fault == faults < MaxFaults /\ faults' = faults + 1

\* The thread dies or a statement raises: the provider gets no 200.
Die(w) ==
    /\ pc[w] # "idle"
    /\ Fault
    /\ Refuse(w)
    /\ UNCHANGED <<cache, enabled, copies>>

\* The entry expires, or the store evicts it to stay within its size.
DropKey(k) ==
    /\ k \in cache
    /\ Fault
    /\ cache' = cache \ {k}
    /\ UNCHANGED <<enabled, copies, pc, callback, accepted>>

\* Flipper.enable(:mpesa), Flipper.disable(:mpesa): no flag is asked where
\* Rails.env.local?.
Switch ==
    /\ ~Local
    /\ Fault
    /\ enabled' = ~enabled
    /\ UNCHANGED <<cache, copies, pc, callback, accepted>>

Handle(w) ==
    \/ VerifySignature(w) \/ CheckDuplicate(w) \/ ProcessCallback(w)
    \/ RecordTransaction(w) \/ WriteKey(w)

Next ==
    \/ \E w \in Threads : \/ \E c \in Callbacks : Deliver(w, c)
                          \/ Handle(w) \/ Die(w)
    \/ \E k \in Keys : DropKey(k)
    \/ Switch

Spec == Init /\ [][Next]_vars

-----------------------------------------------------------------------------
(* Properties.                                                             *)

\* The ids of different payments differ, as long as a payload has any.
KeysIdentify ==
    \A c, d \in Callbacks : Key(c) = Key(d) /\ Key(c) # <<>> => c.payment = d.payment

\* Every delivery of the payment carries the same, non-empty set of ids.
OneKey(p) ==
    \E k \in Keys \ {<<>>} : \A c \in Callbacks : c.payment = p => Key(c) = k

\* However often a payment is delivered, it is recorded at most once for each
\* thread and, again, for each fault: dying between save and cache.write, or
\* losing the key.  With one thread and no fault: once
\* (transactions_controller.rb:99-111).
DuplicatesBounded ==
    \A p \in Payments :
        OneKey(p) => copies[p] <= Cardinality(Threads) * (faults + 1)

\* "Successful payments are deduplicated for 72 hours" (README.md:253).
AtMostOnce == \A p \in Payments : OneKey(p) => copies[p] <= 1

\* A payment the endpoint answered with 200 - processed, or "Duplicate callback
\* ignored" - has been recorded (transactions_controller.rb:100-112).
Intake == INSTANCE PaymentIntake
              WITH recorded <- {p \in Payments : copies[p] > 0}
NothingAcceptedIsLost == Intake!Spec
=============================================================================
