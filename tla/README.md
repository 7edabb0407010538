# Learnexis: a TLA+ model

Learnexis is a Rails 8.1 application that runs a school: students and classrooms, the
daily register, fees and invoices, payments (by hand and through M-Pesa), notices, events
and transport. It is a few thousand lines of Ruby over one PostgreSQL database, and almost
nothing in it takes a lock: a request reads rows, decides, and writes in later statements,
while other Puma threads (`config/puma.rb:28`), other processes and the job workers of
Solid Queue do the same. In the browser a handful of Stimulus controllers keep timers,
listeners and fetched lists over pages that Turbo swaps beneath them. The specifications
here are about what those interleavings may and may not do.

## 1. The system

`config/database.yml` leaves PostgreSQL at READ COMMITTED: each statement sees what was
committed before it. A statement outside a transaction is therefore one atomic step, and a
transaction is a sequence of steps whose writes are invisible to others, and whose rows are
locked, until it commits. The unique indexes and foreign keys of `db/schema.rb` are what
the database itself refuses. This is the grain of every module.

| Component | State | Operations that change it | Meets |
|---|---|---|---|
| Invoices and transactions | `invoices`, `transactions`, `audit_logs` | record, edit, delete a transaction; create, edit, delete an invoice; the commit callbacks that reconcile and audit | generated invoices, M-Pesa |
| M-Pesa | keys in `Rails.cache`, `transactions` | the provider's callback | the transactions' callbacks |
| Attendance and alerts | `attendances`, the job queue, messages sent | save a sheet; enqueue, execute, retry a job | classrooms, the SMS integration |
| Enrollment and classrooms | `classrooms`, `students.classroom_id` | enroll in bulk, edit the capacity, delete a classroom | admission |
| Admission | `students`, `parent_students`, admission numbers | admit, edit a student | classrooms |
| Fees and invoice generation | `fees`, `fee_assignments`, `invoice_line_items` | create, edit, delete a fee; assign students; generate invoices in bulk | invoices |
| Notices | `notices`, cable streams, the list in the page | publish, edit, delete; broadcast; subscribe, receive, fetch, leave, restore | sessions |
| Page controllers in the browser | the page, timers, document listeners, Turbo's copies | messages, search, menus, the marking sheet; visits and history | attendance, notices |
| Asset build and theme | `app/assets/builds`, the style sheet's rules | edit, build, watch; choose a theme | |
| Sessions, passwords, sockets | `sessions`, cookies, open sockets | sign in and out, reset a password, connect | notices |
| Events | `events`, `event_registrations` | create, edit, register, unregister | policies |
| Transport | `buses`, `transport_routes`, `students.transport_route_id` | create, delete, assign | students |
| Dashboards | cached figures | compute, expire | all tables |
| Policies, reports, PDF, mail, views | none | none | |

What is hard in each, and what makes it correct:

* **Invoices and transactions.** An invoice becomes paid only in the callback that follows
  the commit of a payment (`transaction.rb:26-47`): look the invoice up, SUM its payments,
  reload it, update it, write two audit entries, each a statement of its own. Nothing
  repeats a callback that did not run. Correct: an invoice is paid exactly when the
  payments cover it, whoever's SUM missed whose payment; each reconciliation is audited; no
  transaction refers to a deleted invoice.
* **M-Pesa.** The provider repeats deliveries; the key that recognises a repetition is
  tested long before it is written, may expire or be evicted, and is not in the database.
  Correct: a payment that was answered with 200 has been recorded; it is recorded a bounded
  number of times.
* **Attendance.** Two sheets interleave row by row, hold row locks, may deadlock; alerts
  are enqueued after the commit and executed later, when the register may say otherwise;
  attempts are repeated from the first parent. Correct: an absence does not stay silent,
  and does not alert without bound.
* **Enrollment.** The students of a classroom are counted in one statement and added to in
  another; deletion tests, nullifies and deletes. Correct: capacity holds where it is
  guarded; a deletion never leaves a student in a classroom that is gone.
* **Fees and generation.** A generation reads assignments and fees before its transactions,
  one for each student, while fees change price and disappear. Correct: the total of an
  invoice is the sum of its stored lines until somebody types another; a generation that
  reports success forgot nothing; deleting a fee takes nobody's assignment away.
* **Notices.** A change is broadcast by the model before it is committed and by the
  controller after it was answered; the page edits its list on each message, beside a list
  it fetches when it connects. Correct: no committed change is silent; the last word about
  a notice is the present one; a list does not bring back a notice whose end it was told;
  its count is its length; nobody is told of a notice meant for others.
* **Page controllers.** Turbo replaces the page at any moment, between a timeout's setting
  and its firing, keeps copies of pages with messages on them, and aborts forms. Correct:
  what was dismissed stays dismissed, no listener outlives its page, a search asks for the
  text that stands in the field, a page that says "saved" shows what is.
* **Assets.** A watcher that starts only after the first build, builds that nobody awaits,
  a failure that rejects or answers depending on Bun's version; two plugins whose rules
  compete in the cascade, beneath a body that may name a theme of its own. Correct: at rest
  the bundle is that of the sources; a page has the theme its body names, or else the one
  the options ask for.
* **Not modelled yet**: sessions (a socket outlives its session), events (a limit nobody
  enforces), transport (deletions the foreign keys refuse), dashboards (a cache whose
  invalidation nothing calls), admission numbers (the digits of the year run into the
  number).

`PROJECT.json` lists every component with its files, and every hazard with its line, the
properties that watch it, and a note where the code lets it happen: there the properties
state what holds beside it, and except it by name. The lists of notices and of search
results have races too (`notice_controller.js:142`, `search_controller.js:27`), which the
markup of the views, as it is, keeps from happening; they are modelled with the markup the
controllers were written for, and not listed. Beside those: a date edited by each of two
clerks (`invoices_controller.rb:61`), the child an M-Pesa payment goes to
(`mpesa_payment_service.rb:144`), fees billed by each of two generations, one after the
other (`invoice_generation_service.rb:90`), instalments that do not add up
(`fee_calculation_service.rb:20`), and the hazards of the parts not modelled.

## 2. The modules

```
Billing ............ MCBilling           BillingProofs
PaymentIntake <- MpesaWebhook ...........MpesaWebhookProofs
                    MCMpesaWebhook
Attendance ......... MCAttendance        AttendanceProofs
Enrollment ......... MCEnrollment        EnrollmentProofs
Charging ........... MCCharging          ChargingProofs
NoticeFeed ......... MCNoticeFeed        NoticeFeedProofs
Window ............. MCWindow            WindowProofs
ScriptBuild, Theme -> Assets
                    MCAssets            AssetsProofs
```

(`A <- B`: B implements A; `A, B -> C`: C is composed of A and B by INSTANCE.)

A module names its operators after the methods they model where that is possible. A
request stands at a step (`pc[t]`, `desk[r].at`), and holds what it has read (`sumRead`,
`loaded`, `quote`, ...); each action is one statement, or one transaction where nothing
another request does can come in between. Ids come from a set, are handed out once, and
are never reused, like those of a sequence. Definitions marked *Mutant* are forms of an
action with a plausible bug; each property is known to reject one of them.
Variables marked *history* are written and never read by the modelled code's guards.

**Billing.** `RecordTransaction` is the INSERT; `LookupInvoice`, `SumPayments`,
`ReloadInvoice`, `MarkPaid`, `LogReconciled`, `LogCreated` are the callbacks in order, with
the ways each can raise (`"failed"`: what follows is skipped). `OpenInvoice` is the row the
controller loads; `UpdateInvoice` writes the columns in which the form differs from it
(`Written`), as Active Record does; `BeginDestroy`/`CommitDestroy` are `dependent:
:nullify` and the DELETE, whose foreign key undoes both when a payment came in between. A
SUM is counted cent by cent as the cardinality of a set (`Credits`, `Debits`), which makes
facts about sums facts about sets; MCBilling checks that this is the sum. `touched` holds
the invoices whose standing a person changed by hand: the code does not reconcile again
after an edit, so the properties are about the others. Forms may hold dates that
`Invoice` refuses; `TypeOK` says that no such row is stored but through two edits that
overlap, since `update!` in the callback would raise on it.

**MpesaWebhook** follows one delivery through `mpesa_callback`: signature, `exist?`,
`process_callback`, `record_transaction`, `write`. A payload carries any of three ids, and
`Key` forgets which is which, as the code does. The student lookup and the payment's
identity are data of the payload; the code never sees the latter. The reconciliation of
what it records is left to Billing: an M-Pesa payment has no invoice
(`mpesa_payment_service.rb:152-161`), so in Billing it is a submission with `None`.
**PaymentIntake** is what the provider may rely on, and MpesaWebhook implements it.

**Attendance** has the register of one day. `LoadRow`/`SaveRow` are
`find_or_initialize_by` and `save!` for one row; `Holders` is the row lock or the index
entry a statement waits for; `Victim` is PostgreSQL's deadlock detection; `Commit`
publishes all rows at once; `Enqueue` is `after_commit`, one record after the other.
`Perform`, `Send`, `Finish` are the job; `Retry`, `Kill` and `Release` are what Active Job
and Solid Queue do with one that does not finish.

**Enrollment** has the three requests about a classroom (`OpenEnrollment` to
`DeleteClassroom`), the desk that admits and edits students (`Admit`, `EditStudent`), and
the locks of a deletion (`Held`).

**Charging** has the two calculations of what is due (`Net`, `EffectiveAmount`, in
hundredths of a cent so that nothing is lost before `Rounded`), the bulk generation
(`FindAssignments` and `LoadFees` are the two statements of `includes(:fee)`;
`CreateLine`, `CommitInvoice` one transaction for each student; `CannotBill` the exceptions
that `rescue RecordInvalid` lets pass), the assignment of students (`PickStudent`,
`CreateAssignment`) and the deletion of a fee (`CheckUnassigned`, `LoadDependents`,
`DeleteFee`). What the school grants a student (`Concession`) is a constant: no form of the
application writes those columns. The invoices generated are drafts that, to Billing, are
created by `CreateInvoice`; their lines matter only here. `UpdateInvoice` is the form of
an invoice, which has its total (`Totals`) and not its lines; `DestroyInvoice` takes the
lines along. On which statuses an invoice may be deleted is left to Billing.

**NoticeFeed** has the requests of staff (`OpenCreate`, `OpenNotice`; `Save` and `Destroy`
broadcast inside the transaction as `after_create`, `after_update`, `after_destroy` do;
`Commit`; `AnnounceAgain` is the controller's `after_action`, with its different payload),
the streams of `NoticeChannel` (`subscribed`, `Streams`), a socket with its messages in
order (`inbox`, `Drop`, `Reconnect`), and the list page: `Visit`, `Restore`, `Leave` are
`connect` and `disconnect` under Turbo, `handleNoticeUpdate` the `switch` over actions,
`RenderList` and `loadNotices` the two ends of the fetch. The controller inserts a string
where it means an element (`createNoticeElement`); what each handler then does, and
where it throws, is in the actions. `HasTargets` and `HasCards` say whether the page
carries what the controller looks for: the view of the index has no
`data-notice-target`, so the controller cannot edit that page at all, and the run gives
it the markup it is written for.

**Window** is one browser window. A page is data (`dom`); `flash_controller.js`
(`FlashTimers`, `AutoDismiss`, `Dismiss`, `Remove`, and `BeforeVisit` for the listener it
adds to the document), `search_controller.js` (`Type`, `Search`), `dropdown_controller.js`
(`Toggle`, `ClickOn`) and `attendance_mark_controller.js` (`MarkAll`) add timers and
listeners to it, each tagged with the page that added it. `StartVisit`, `Render`, `GoBack`
are Turbo, as the controllers meet it: a form empties its copies, a link copies the page,
the history brings the copy back with no visit announced; the first page may carry messages
of its own. `Save`, `Store`, `Refuse`, `Answer` are the marking sheet with
`update.turbo_stream`. `saving` is the save the page waits for, and `patches` what the
server is saving: a visit that starts meanwhile aborts the first and not the second, so the
page visited again can save while the server still has a sheet the user left, and the two
are stored in either order. `Store` is one step: its statements are those of Attendance,
and only sheets saved side by side could tell them apart. `Markups` says which controllers
the view wires up: as the views are, nothing calls `search#handleInput` and no menu target
is there, so the run has that and the markup both are written for. A `Refuse` here is any
exception the service rescues; which marks reach the register when several sheets are saved
at once is the subject of Attendance.

**ScriptBuild** is `bun.config.js`: the sources as versions, a build that reads at one
moment and writes at a later one, the watcher that reports what changes once it is set up.
**Theme** is what `daisyui.mjs` and `daisyui-theme.mjs` do with the themes and flags they
are given (`pluginOptionsHandler`, `theme_default`), and the CSS cascade that picks among
the rules they emit, on the root and on the body: a layout may name a theme there (`Visit`;
`application.html.erb:31` names `learnexis`, those of the sign-in and the marketing pages
name none), and what a page contains inherits from the nearer of the two that a rule gives
a theme. The rules are a set, and each says which loop added it at which of the themes,
which is the order of the style sheet: so what wins is a maximum of a set, and can be
reasoned about without recursion over a sequence. An option names a theme daisyUI has
(`OptionsOfThemes`); for a name it does not know the plugin emits no theme. **Assets** puts
the two side by side, as `Procfile.dev` does.

Turbo, Bun, the cascade, the browser's timers and Action Cable's delivery are not in the
repository: they are modelled from how its code uses them, and marked external.

## 3. What is checked

| Run | Instance | Question |
|---|---|---|
| `billing` | 2 recordings of which one may die, 1 invoice, 1 admin, amounts -1 to 2, a form with invalid dates; `FairSpec` | paid exactly when covered, audited, eventually, against edits and deletions; references |
| `billing_delete_race` | 1 recording, 1 admin | *violated*: only drafts and cancelled invoices are deleted |
| `mpesa_faults` | 2 threads, 3 payments, 7 payloads, 2 faults | recorded, boundedly often, never accepted and lost |
| `mpesa_twice` | 2 threads, no faults | *violated*: payments are deduplicated |
| `attendance_alerted` | 3 sheets, 1 student, 2 parents; `FairSpec` | alerts through marks and corrections, eventually |
| `attendance_faults` | 2 sheets, 3 students, 2 faults | no silent absence and bounded alerts with deadlock, retries, crashes |
| `enrollment` | 2 requests, 2 classrooms, 3 students | capacity and references under enrolment, edits, deletions |
| `enrollment_capacity` | 2 requests, 1 classroom | *violated*: no classroom exceeds its capacity |
| `charging` | 3 requests, 2 fees, 2 students | totals, forgotten assignments, deletions, invoices edited by hand |
| `notices` | 1 notice, 2 requests of which one may fail, 1 page of an admin or a parent, 2 visits, 1 lost socket; `FairSpec` | what is broadcast against what is stored; what a list shows against what it was told |
| `window` | 2 messages, 1 menu, 3 texts, 1 student, 2 threads, 2 pages after the first; `FairSpec` | timers, listeners and copies over visits; the sheet and its answer; messages go away |
| `assets` | 3 edits, versions 1 and 3 broken, 3 themes and `learnexis`, 7 sets of options, 2 layouts | the bundle is current; the page has its theme |

**Findings.** The three runs marked *violated* are counterexamples to something the code
or its README says:

* an invoice that a payment has just settled is deleted, because the status was read
  before (`invoices_controller.rb:70` against its own message at 74);
* two deliveries of one M-Pesa payment at once are both recorded
  (`transactions_controller.rb:100` against `README.md:253`);
* an admission does not ask for the capacity that an enrolment does
  (`admission_service.rb:49` against `classrooms_controller.rb:104`).

The passing runs hold next to each what remains true, and under which exception:
`ReferencesLive`, `DuplicatesBounded`, `GuardedWithinCapacity`.

**Exceptions the properties name.** Some properties hold only with an exception, which
is then the place to look at in the code:

* `LastOfApartStands` is about sheets saved apart: a sheet that repeats the status it
  loaded does not write it, and a status another sheet committed in between stays
  (`attendance_service.rb:28`).
* `LastWordIsCurrent` excludes notices whose requests overlapped, were refused, or failed
  after the first broadcast (`notice.rb:42`).
* `NoGhosts` and `DestroyedLeavesPages` except a list that was fetched before the end of a
  notice and arrives after it (`notice_controller.js:142`), and, the latter, a socket that
  was lost: nothing is sent again.
* `OnlyForItsAudience` leaves out ends of notices, which go to the admins' stream. The
  streams of audiences are named in the plural and those of roles in the singular
  (`notice_channel.rb:8`, `27`), so a targeted notice in fact reaches only admins.
* `BundleIsCurrent` excepts a change between the first build's reading and the watcher's
  start, and builds that overlap (`bun.config.js`).
* `PageHasItsTheme`: what an application page contains is `learnexis`, which its body
  names, whatever the root, a theme controller or the system say. On the sign-in and the
  marketing pages, whose bodies name none, a system that prefers dark gets daisyUI's `dark`
  and not `learnexis`, though the latter says `default: true`: the rule for the preference
  is more specific.
* `TotalsMatchLines` is about generated invoices whose total nobody typed over: the form of
  an invoice asks for no such sum (`invoices_controller.rb:61`). That a fee has one line
  holds of all.
* `LeftStaysGone` says that a message is out of sight on a page that comes back; the
  history brings its container back with no `before-visit`, and five more seconds.
* `SavedMeansSaved` does not promise that marks made while a sheet is being saved survive:
  the answer replaces the rows. It claims nothing of a sheet sent while the server still
  had one that the user had left: that one may be stored after it, under a page that says
  "saved" (`mark.html.erb:45`).

**Bounds.** The races modelled here are between a statement and the statements before it
that it relied on, so they need two actors, and a third where one disturbs the pair: two
recordings, each of which may miss the other's, with an admin between them; three sheets
(absent, corrected, absent again), three requests of Charging (one that generates, one that
assigns, one that deletes). Two students, classrooms or fees are enough for one to be
skipped, moved to or billed beside another; a third student exceeds a capacity of two, or
belongs to another class. Amounts are the least with a part of the total of which two make
the whole, a negative one, a refund, and half a cent. `MaxFaults = 2` has a fault that
strikes the handling of another; `MaxCopies = 7` is above what the bound of
`DuplicatesBounded` (two threads, two faults: six) allows, so the cap is not what makes it
hold. `Attempts = 2` in place of five has a retry and its end. `MaxCapacity`, `MaxAmount`
bound what a form holds. One notice in NoticeFeed is created, edited and destroyed by
requests that overlap or follow each other; nothing there relates two notices but the count
of a list. `MaxVisits = 2` has a page left and restored, `MaxDrops = 1` a lost socket.
`MaxPages = 2` in Window is, after a first page that may carry messages, the page left to
and the return by the history; `Threads` is the sheet the user left and the one sent after
it; two messages are one that is dismissed and one that stays. `MaxEdits = 3` has an edit
in each of the windows of a build and one after, with a broken version first and last. The
seven sets of options are those of the repository's style sheet and those that take each
branch of `pluginOptionsHandler`; the two layouts are one that names the application's
theme and one that names none. `Totals` in Charging is zero, which
no invoice with a line adds up to.

TLC checks for deadlock everywhere but in the runs of Billing and in `notices`: there a
request is made once, and when all are answered and nothing is left to do the model, like
the system, is at rest. `Attendance` and `Charging` state when that is so (`Rest`); any
other halt would be an error.

**Fairness.** `Billing!FairSpec` has weak fairness of each thread's `Pipeline`: a Puma
thread that committed runs its callbacks. One of the two may die before it has, and then
`CoveredIsSettled` asks nothing. `Attendance!FairSpec` has it for each request's `Save`
and each job's `Work`: threads finish requests, PostgreSQL resolves deadlocks, Solid Queue
polls (`config/queue.yml`). `NoticeFeed!FairSpec` has it for the server's part of a
request and for the delivery over a socket that is up: it is TCP, and ordered.
`Window!FairSpec` has it for the timers of messages, since `setTimeout` promises that much,
and for nothing else: no server need answer. None assumes that a person does anything:
submitting, editing, visiting and leaving are not fair. Weak fairness of the whole of a
request is enough since it stays enabled or waits for one that does.

## 4. What is proved

TLAPS proves the following for every value of the constants. The assumptions are those
named in the modules, and TLC evaluates all of them in the runs: `None` is none of the
values it is told apart from, what is counted or summed over is finite, forms are rows of
the right type, bounds are numbers; `OneRowPerStudent` (the form of a sheet has one row for
each student); `TotalsAreCents` (of a form); `EmptyText` (a field can be empty);
`BrokenAreVersions`; and of the themes `ThemesAreListed`, `LightAndDark` and
`OptionsOfThemes`: a list that has daisyUI's `light` and `dark`, of which the options name
some. Every type invariant, safety invariant and action property of the passing runs is a
theorem.

**BillingProofs.** `Typing`; `NoDanglingReference`; `PaidMeansCovered`, `CoveredMeansPaid`,
`ReconcileIsAudited`. References need the locks: `References` adds that an open deletion
holds rows that refer to its invoice, and no two deletions the same. An invoice nobody
touched only gains payments, so a SUM that was read remains a lower bound of the positive
payments: `Covering` carries that for each request past its SUM (`ReadsOK`), and that an
untouched invoice has valid dates, without which `update!` would raise; `Typing` takes the
latter from there, since only edits change dates, and they touch the invoice. For the lost
reconcile, `Pursued` says that when the payments cover the invoice, some request either has
yet to SUM or has read enough: the request that recorded the last of them has its SUM still
ahead. `Accounted` relates a paid, untouched invoice to the request that has logged or is
about to.

**MpesaWebhookProofs.** `Typing`; `ImplementsIntake`: every behaviour implements
PaymentIntake under the mapping `recorded <- {p : copies[p] > 0}`, from `Backed`: a key in
the cache, and a thread about to write one, belong to a payment that is recorded.
`BoundedDuplicates`: for a payment with one key, `Bounded` counts the threads that passed
the check (`Ahead`), those between the INSERT and the key (`Writing`), and the copies made;
once the key is written only a fault lets another round of threads in.

**AttendanceProofs.** `Typing` (with the row locks exclusive); `AbsencesAreReported`;
`AlertsAreBounded`. `Once` says that a student is at one place of a sheet or of the list
of jobs to enqueue, `Owed` that a transaction that changed a row to absent has the student
on that list, `Reaching` that for each parent a message was sent or a request still covers
the parent; `SentBounded` bounds messages by the jobs that may have sent one and by faults.
`LastSheetStands` from `Apart`: as long as no two sheets overlapped, the register is what
the last of them asked for, at most one request is under way, and that one has loaded its
row as it still is and will report nobody who was absent before (`Kept`).
`OneAlertForEachTurn` from `ToldByTurns`, which bounds the requests that committed with a
student to report by the times the register turned to absent for that student.

**EnrollmentProofs.** `Typing`; `NoDanglingClassroom` from the locks; `CapacityIsGuarded`
and `DeletionSparesStudents` from `Guarded`: a request that has its classroom alone
(`Alone`) finds in its second statement the count of its first.

**ChargingProofs.** `CalculationsAgree` (what the page of a fee shows is what an invoice
charges, for every concession and amount) and `NetWithinBase`; `Typing`, with `Placed`:
what a request has found out by the step it stands at; `NoDanglingLine` with the locks of
uncommitted lines; `TotalsAdd`, where `EditedFields` says what an edit of an
invoice leaves alone, and `Drafted` says of the lines being written what
`TotalsMatchLines` says of those committed, by the cardinality of the cents of one more
line; `DeletionSparesAssignments` with `Noted`; `StudentsStayAssigned` with `Stuck`: who
is neither left nor being created is assigned as long as the fee exists, which needs that
assignments only go with their fee (`Lasting`); `NothingForgotten` with `Owing`: an
assignment that costs something and was there as the generation began is of a student to
come, among those found, or in a line, which needs that prices and quotes are amounts the
fee may have (`Priced`, `Quoted`) and that what is gone does not return (`Recalled`).

**NoticeFeedProofs.** `Typing` carries what a page's list depends on (`Listings`): its
count is the number of its cards (`TheCountIsThatOfTheCards`), and of the notices whose end
it was told none is in it but through a list that was fetched before
(`EndedNoticesStayAway`, for pages that have the targets the controller looks for: on any
other, its handlers raise before they edit the list). `LastWordIsTheTable` from
`OneAtATime`: for a notice whose requests did not overlap or fail, the request at work on it
holds the row as stored, then its word is out, then its word is stored; with no request at
work, the last word and the row are the same. `ChangesAreBroadcast`, an action property,
from `Announced` (what a transaction is to commit was announced) and `ColumnsAnnounced`:
each column of a row comes from some announced form, since an UPDATE writes only the
columns in which the form differs from what was loaded. `ToldOnlyWhatTheyMayList` from
`AdminsOnly`, which is stronger than what is asked: no socket but an admin's ever has a
message, since the names of the streams never meet.

**WindowProofs.** `Typing`, with the timers of pages no younger than the one shown;
`ListenersOfThePageShown`; `LeftMessagesStayGone` from `Fresh` (a message gets on a page
only with the answer that carries it, and a visit under way carries none of the messages of
the page it leaves) and `Gone` (neither the page shown nor a copy shows a message left
behind, and no message is on two pages); `SavedPagesTellTheTruth` from `Truthful`, which
says it of the sheet in Turbo's copies too, and that while such a page or copy exists the
server has no sheet to store with other marks, and from `Alone`: when the page waits for a
sheet sent alone, the server has no other; `SearchesLatest`, an action property, from
`Asks`: a search that is set belongs to the list shown and asks for what its field holds.
`OnPageStays` says once what all the handlers of a page leave alone.

**AssetsProofs.** `BundleStaysCurrent` from `Built`: the first build has read the sources
as they are unless a change came in between (`First`), a process that ended left what it
built (`Ended`), and once all changes are reported and no builds overlapped, at most one is
running, on the sources as they are (`Caught`). `PageKeepsItsTheme`: the rules are those of
the options (`Styled`), so which rule wins depends on which kinds of rule match. The rule
that comes last among those of one kind exists because a finite list has a last place
(`Greatest`, by well-founded minimality, where an induction would do elsewhere);
`ShownOfKind` says that the theme of the winning rule is that of the last rule of the most
specific kind on the root, and `FlaggedIsLast` that this is the last theme flagged, however
many are.

**Model-checked only.** The four liveness properties, `CoveredIsSettled`,
`AbsenceIsAlerted`, `DestroyedLeavesPages` and `FlashGoesAway`, since the prover handles
neither fairness nor ENABLED; and that the cents of a sum, as Billing counts them, are its
sum (`MCBilling`), which is an induction. No module uses RECURSIVE operators.

## 5. What is left out

Authorisation (who may call an action is taken as given), rendering, PDF files, mail, and
the pages that only read. The stubs of the M-Pesa service (`initiate_stk_push`,
`query_transaction_status`), which keep nothing. The columns no property tells apart. The
attendances that go with a deleted classroom (`classroom.rb:4`). `recalculate_total!`
(`invoice.rb:25`) and the dashboards' invalidation, which nothing calls. Which of several
children a payment by phone number goes to (`mpesa_payment_service.rb:144`), which the
database does not determine.

Of the scripts: `auto_format_controller.js`, which only rewrites the text of a field as it
is typed (and takes away a comma at its end), `hello_controller.js`, and the registration
of controllers. Of `daisyui.mjs`, a vendored bundle: the styles of its components, and the
`prefix`, `include`, `exclude` and `root` options, which the application's style sheet
does not give. Of the notices: the pages of one notice, and the Turbo stream templates,
which raise (`RaiseInTemplate`).

## 6. Roadmap

In this order:

1. **Accounts**, composed with NoticeFeed: sessions, password resets and sockets; a socket
   that outlives its session goes on hearing of notices.
2. **AdmissionNumber**: the number as prefix, year and digits, the string order of the
   query, the retry of a form whose number was taken; against the successor it documents.
3. **Events** and **Transport**: registrations against their limit; assignments to routes,
   and the deletions the foreign keys refuse.
4. **Calculations**: attendance percentages in the three places that compute them,
   instalments, the financial report; each against a reference definition.
5. **Policies** over all roles, and **DashboardCache**: how stale a figure may be.
6. Proofs: that Charging implements an abstract ledger of what each student owes, and
   NoticeFeed an abstract list that shows the last word on each notice; the invariants of
   the modules above, beginning with the socket that outlives its session, which
   `AdminsOnly` makes a matter of admins.
