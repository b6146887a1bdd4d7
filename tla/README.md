# A verification project for operant-event

operant-event is a multi-tenant conference platform: a NestJS API
(`src/apps/api`), a BullMQ worker (`src/apps/worker`), a Next.js front end
(`src/apps/web`) and shared packages (`src/packages`). All durable state is in
one PostgreSQL database, reached through Prisma. This directory models the parts
whose correctness depends on what happens *between* two database statements,
checks them with TLC on small instances, and proves the main results with TLAPS
for every value of the constants.

    tlc -config Checkout.cfg MCCheckout      # model-check an instance
    tlapm Checkout_proofs.tla                # check the proofs

Six models, each with an instance for TLC and theorems for every instance: the
money (`Checkout`), the places (`Registrations`), the day itself (`EventDay`), the way
of an abstract into the programme (`Editorial`), the services around them
(`Platform`: accounts and web sessions, jobs, reminders, tracks), and the conference
itself with the pages on which organizers set it up (`Setup`).

## 1. How the program runs, and what follows for the models

An HTTP handler is an `async` function. Each awaited Prisma call is one SQL
statement that commits on its own, unless it is inside `$transaction`. The Node
process serves many requests at once and interleaves them at every `await`, and
several API processes may run side by side. So:

* the **unit of atomicity is one statement**; a request is a sequence of them, and
  what it read earlier (a status, a row id, a count) may be stale when it is used.
  In the models each request `r` has a record `req[r]` with its place (`at`) and
  what it still holds; each statement is one action; a check that the code makes
  on arrival is the guard of the arriving action;
* a **transaction at READ COMMITTED** (Prisma's default; the code sets no level)
  does not change that: its statements see what others committed in between. What
  it adds is rollback, row locks until the end, and that its writes become visible
  together. `Registrations` and `EventDay` model it that way;
* **unique indexes** are the only arbiters: the `P2002` branches of the code are
  actions of their own (`DismissEvent`, `InsertClaimConflict`, `NumberConflict`, ...);
* a request can **die after any statement** (exception, lost connection, restart):
  `Abort`. What was committed stays, what was in a transaction is rolled back.

## 2. Inventory

| Component | State (tables) | Operations | What is hard | What makes it correct |
|---|---|---|---|---|
| payments | `payments`, `webhook_events` | webhook, manual claim, approve, reject, refund, `confirmOrderPaid` | replayed, late and reordered events; approval racing a capture; a refund in three updates | money before PAID; one open claim; an event applied once; a refund only of money received |
| orders | `orders` | `create` | two creations for one registration; the gateway call after the insert | at most one order per registration |
| invoices | `invoices`, `files` | `generateForOrder` | two confirmations compete; row first, document later | paid orders end up invoiced, only they are |
| registrations | `registrations`, types, categories | `register`, CRUD of types | count-then-insert for capacity and numbers | bounded overselling; unique numbers; a retry can succeed |
| import worker | `import_jobs`, `registrations`, authors, reviewers | one processor per job type, row by row | races the API; a job that is delivered again half-way | as for registrations; nothing imported twice; every row accounted for |
| check-ins, attendance | `checkins`, `attendances`, `registrations.status` | `checkin` | two scanners, one badge; the row lock; a stale status | one main-event entry; repeats on request only; nobody waits for ever |
| certificates | `certificates` | generate, issue, revoke, verify, regenerate | a rule evaluated in several statements; issue against revoke | only earned certificates; revoked ones stay revoked |
| abstracts | `abstracts`, `abstract_versions`, authors | draft, save version, submit, withdraw, set authors | status read, then written later; numbers by counting | a status is earned; versions without gaps; every submission is answered |
| abstract wizard | a tab of the browser | next, save, authors, submit, back, reload | late answers, answers that are lost, a draft created on the way | nobody reaches the review page with nothing saved |
| reviewers, reviews | `reviewers`, `review_assignments`, `reviews` | add, assign, auto-assign, reassign, decline, declare conflict, review | auto-assign over a snapshot; pairs without a unique index; reassigning in two writes | even distribution; bounded over-assignment; a reassigned reviewer is out; completed means reviewed |
| decisions | `abstract_decisions`, revision requests | record, request revision | written over whatever status there is | each status has its decision |
| programme | `program_sessions`, `session_speakers`, `presentation_assignments` | sessions, speakers, presentations | overlap test apart from the insert; a list replaced under another | only accepted abstracts; bounded double booking; the chair is a speaker |
| tracks | `conference_tracks.sortOrder` | create, reorder | place = count; reordering by one update per track | no crowd of tracks at one place |
| auth | `users`, `sessions`, reset tokens | register, login, refresh, logout, reset | rotation read-then-revoke; reset in four writes | no accepted invitation without a password |
| web session | the refresh cookie of a browser | login, logout, refresh, proxy | concurrent renewals, answers out of order, a renewal after the logout | the browser never holds a cookie that was used up |
| organizations, roles | memberships, roles | create, invite, update status | user, token and membership in separate writes; overlapping invitations | as for auth |
| notifications, reminders | `notifications`, the email queue | remind, enqueue, notify, send | in-process events; idempotency by a row written last | one reminder, one mail, but for handlers that died |
| export/import jobs | `export_jobs`, `import_jobs`, BullMQ | create, enqueue, process, poll | row and queue entry are two writes; worker deaths and stalls | every delivered job ends; DONE tells the truth |
| conferences | `conferences` | change status, publish | a status read, then written by the id alone; two ways to OPEN | no stage is reached but from the one before |
| conference settings | a row of `conference_settings`, the settings page and its query cache | load, edit, save | an answer, or another's save, while somebody types; a fetch that read before the write | what is typed stays; a save shows what it wrote |
| certificate template | a column of that row, the panel of a tab | choose, upload, load the preview | choices, uploads and downloads overlap | the preview is the template, or a later one |
| form fields | `form_fields` | CRUD, reorder | reordering, as in tracks | – |
| files, sponsors, exhibitors, reports, PDF, other pages, config | rows of their own | CRUD, reading, rendering | little | – |

How they interact: registering precedes ordering; `confirmOrderPaid` of payments
changes orders and registrations, calls invoices, and emits an in-process event to
notifications; a refund changes payments, orders and registrations; the import
worker writes the same `registrations` table as the API, and authors and reviewers; a
check-in updates the registration that payments confirm and refund; certificates read
registrations, check-ins, attendances, reviews and the programme; decisions change
the status of abstracts, which the assignment of reviewers and the programme read;
reviewing reads their authors; an invitation is accepted by a password reset, which
ends the web sessions; the page of a job polls the row that the worker writes; the
settings page and the template panel write one row and each keep a copy of it in the
query cache of their tab. There are no other channels: no service holds state in memory
across requests, except the in-process event emitter and the browser's cookie and tabs,
which are modelled.

`PROJECT.json` lists every component with its status, and under `hazards` the places
in the code where these difficulties bite.

## 3. Modules

| Module | Models | Runs |
|---|---|---|
| `OrderLedger` | what the payment code promises about one order: an abstract specification | (refined by `Checkout`) |
| `Checkout` | payments, orders, invoices | through `MCCheckout` (symmetry) |
| `Registrations` | `RegistrationsService.register` and the import of registrations | through `MCRegistrations` (constants, symmetry) |
| `Door` | what the event day promises about one registration: an abstract specification | (refined by `EventDay`) |
| `EventDay` | check-ins, attendance, certificates | directly |
| `EditorialTables` | the tables that the next three share | – |
| `Submissions` | abstracts, decisions, the submission wizard | in `Editorial` |
| `Reviewing` | reviewers, assignments, reviews | in `Editorial` |
| `Programme` | sessions, speakers, presentations | in `Editorial` |
| `Editorial` | the three composed | through `MCEditorial` (constants, scenarios) |
| `PlatformTables` | the tables that the next four share | – |
| `Accounts` | auth, organizations, the web session | in `Platform` |
| `Jobs` | export and import jobs, the queue, the page that polls | in `Platform` |
| `Reminders` | scheduler, listener, email queue, notifications | in `Platform` |
| `Tracks` | create and reorder | in `Platform` |
| `Platform` | the four composed | through `MCPlatform` (constants, scenarios) |
| `SetupTables` | the tables and tabs that the next three share | – |
| `Conferences` | the status of a conference | in `Setup` |
| `SettingsPage` | the settings page and the service behind it | in `Setup` |
| `TemplatePanel` | the template part of the certificate panel | in `Setup` |
| `Setup` | the three composed, with the fetches and the query cache | through `MCSetup` (constants, scenarios) |
| `Checkout_proofs`, `Registrations_proofs`, `EventDay_proofs`, `Editorial_proofs`, `Setup_proofs` | theorems | – |
| `Jobs_proofs`, `Accounts_proofs`, `Platform_proofs` | theorems: what steps leave alone and jobs, then accounts, then the rest | – |

`Checkout`, `Registrations` and `EventDay` share the table `registrations` in the
code. Each takes of the others what it needs as an action without a guard of its own:
`EventDay` and `Registrations` let payments confirm and refund at any time (more than
`Checkout` allows), so their safety results hold in composition. `Checkout` leaves the
check-in out (`CHECKED_IN` is a status it knows but never writes). `Submissions` lets
the settings of the conference change at any time (`ChangeSetting`), which is more than
`Setup` does.

**Scenarios.** `Editorial`, `Platform` and `Setup` have a variable `scenario` that `Init`
chooses out of the constant `Scenarios` and that never changes. It names the calls that
are made and the rows there are in the beginning. `Called(call)` guards the arrival of
each call, so a scenario only ever leaves operations out; TLC explores some
small ones (5 to 23) that each bring together operations which meet in a table, instead
of one in which everything happens at once. The theorems hold for every set of scenarios, the
one with all calls among them.

### Checkout

State: `orderStatus`, `regStatus`, `qr` (by registration, which has at most one order),
`payments` (rows by id: order, provider, status, provider payment id, whether `paidAt`
is set), `webhookEvents`, `invoice` (no row, row, row with its document), `receipts`
(orders whose `payment.succeeded` was emitted), `req`.

| Code | Actions |
|---|---|
| `OrdersService.create` | `CreateOrder`, `InsertOrder`, `InsertOrderConflict`, `InsertGatewayPayment` |
| `PaymentsService.handleWebhook` | `ReceiveWebhook`, `RecordEvent` or `DismissEvent`, `FindPayment`, `FailPayment` or `SucceedPayment` |
| `confirmOrderPaid`, `confirmRegistration` | `MarkOrderPaid`, `ConfirmRegistration`, `QrCollision` |
| `InvoicesService.generateForOrder` | `ReadOrder`, `ReadInvoice`, `InsertInvoice` or `InsertInvoiceConflict`, `AttachDocument` |
| `emitPaymentSucceeded` | `EmitSucceeded` |
| `submitManualPaymentProof` | `SubmitProof`, `FindClaim`, `UpdateClaim`, `InsertClaim` or `InsertClaimConflict`, `RefindClaim` |
| `approveManualPayment` | `ApproveManualPayment`, `FindApproval`, `ApproveClaim` or `InsertApproved` |
| `rejectManualPayment` | `RejectManualPayment`, `RejectClaim` |
| `refund` | `Refund`, `FindRefund`, `RefundPayment`, `RefundOrder`, `RefundRegistration` |

The gateways are outside the repository: `Deliverable` says which events they may
send. An event may come at any time after the checkout was opened, any number of
times and in any order; a payer makes several attempts in one checkout and at most
one is captured; events of orders of the same merchant account that are not ours
arrive too. Both Razorpay's `payment.authorized`/`payment.failed` and Stripe's unpaid
session are the kind `"other"`, because `parseWebhookEvent` makes them all FAILED.
For Stripe this allows slightly more than the two event types that its adapter maps.
`EventKey` is the pair of the unique index: an event id for Stripe, the id of the
*payment attempt* for Razorpay.

Left out: amounts, currencies, references, proof files and notes (no guard reads
them), the numbers of orders and invoices (the number scheme is in `Registrations`;
here an assignment that fails ends the request, which `Abort` covers), and how the
conference setting chooses the gateway (either way is possible).

### Registrations

State: `registrations`, a set of rows with a number, a user, a pricing window
(`type`) and a status, and `proc`, the requests and import rows in flight.
`register` is `Register` (the first look, outside of the transaction), then in the
transaction `Recheck`, `CountActive`, `CountAll`, `Insert`, with `NumberConflict`
when the unique index on `registrationNumber` refuses the number: the transaction is
rolled back and starts again, counting again *and* adding the attempt's number. The
import is `ImportRow`, `ImportActive`, `ImportCount`, `Insert`, with `ImportConflict`,
which only adds one. `Refund` and `Readmit` are what payments and check-ins do to a
row: a payment that arrives after a refund re-confirms a registration without looking
at the capacity, and so does a check-in that read the status before.
A row whose status the code calls PENDING, CONFIRMED or CHECKED_IN is `ACTIVE` here;
CANCELLED is never written by the code and left out.

### EventDay

State: `status` and `rowLock` by registration, `checkins` and `attendances` as
counts, `certificates` by registration and type (the unique index allows one each),
`req`. `checkin` is `Scan` (resolve the registration and look at its status, outside
of the transaction), `Lock` (`SELECT ... FOR UPDATE`), `FindCheckin`, `Record` (insert
check-in and attendance, update the status, commit). `generateForConference` is
`Generate`, then for each pair `NextCertificate`, `ReadEligibility`,
`CountAttendance`, `InsertCertificate`. `issue` and `revoke` are the look at the row
and the update later. The lock also holds up the updates that payments make
(`Confirm`, `Refund`). The eligibility of types other than PARTICIPATION and WORKSHOP
depends on tables that are not modelled and is free.

### Submissions

State: `status`, `number` and `current` (the current version) of each abstract,
`versions`, `authors`, `decisions` and `revisions` (what the rows of
`AbstractDecision` and `AbstractRevisionRequest` say), `settings`, `wizard` (the
tab's step and draft), and `writing`, the requests under way, with what they read on
arrival (`status`, `current`) and whether the wizard waits for them.

| Code | Actions |
|---|---|
| `AbstractsService.createDraft` (one nested create) | `CreateDraft` |
| `saveVersion` | `SaveVersion`, `ReadVersion`, `InsertVersion` (refused by the unique index when the number is taken), `SetCurrent` |
| `submit`, `forceSubmit`, `performSubmit` | `Submit` or `ForceSubmit`, `ReadDeadline`, `ReadForm`, `CountAuthors`, then `Resubmit` or `CountNumbers` and `AssignNumber` with its retries |
| `withdraw` | `Withdraw`, `UpdateWithdrawn` |
| `setAuthors` | `SetAuthors`, `DeleteAuthors`, `CreateAuthors` |
| `DecisionsService.recordDecision`, `requestRevision` | `RecordDecision`, `RequestRevision` (the insert), `UpdateStatus` |
| `abstract-wizard.tsx` | `WizardBasicsNext`, `WizardSave`, `WizardSetAuthors`, `WizardSubmit`, `WizardBack`, `WizardReload`; its reactions to answers are `Succeed` and `Fail`, a lost answer is `FailGoesOn` |
| settings of the conference | `ChangeSetting` |

A version is complete or not with respect to the required form fields; titles, texts
and files are left out. The people in an author list are what the conflict check
compares.

### Reviewing

State: `active` (reviewer rows), their `institution`, `assignments` in the order of
their creation (abstract, reviewer, status, whether it has its review, the assignment
it replaces, whether `autoAssign` made it), and `reviewing`.

| Code | Actions |
|---|---|
| `ReviewersService.addReviewer`, `updateProfile` | `AddReviewer`, `UpdateProfile` |
| `ReviewAssignmentsService.assign` | `Assign`, `CheckAssign` (the conflict check), `CreateAssignment` |
| `autoAssign` | `AutoAssign`, `ReadAbstracts`, `ReadAssignments` (the snapshot), then for each abstract `NextAbstract`, for each candidate `CheckCandidate`, `SelectReviewers` (the sort and the slice), `CreateAuto` |
| `reassign` | `Reassign`, `CheckReassign`, `CancelOld`, `CreateSuccessor` |
| `decline`, `declareConflict` | `Decline`, `DeclareConflict` |
| `ReviewsService.submit` | `SubmitReview`, `InsertReview` (the unique index allows one per assignment), `Complete` |

`reassignedFromId` is kept as `from`. `Reserved` and `HasRoomFor` bound the rows.

### Programme

State: `sessions` (status and window), `roles` (rows of `SessionSpeaker`), `chairs`
(`chairId`, `coChairId`), `scheduleVersion`, `presentations`, `scheduling`.

| Code | Actions |
|---|---|
| `SessionsService.create`, `publish` | `CreateSession`, `PublishSession` |
| `update` | `UpdateSession`, `SetSessionWindow`, `CountScheduleVersion` |
| `assignSpeakers` | `AssignSpeakers`, `CheckSpeaker` (one after the other, when the setting asks for it), `DeleteRoles` and `CommitRoles` (the transaction) |
| `PresentationsService.assign` | `AssignPresentation`, `CheckDoubleBooking`, `CreatePresentation` |
| `update`, `remove` | `UpdatePresentation`, `CheckDoubleBooking`, `SetPresentationWindow`; `RemovePresentation` |
| `SpeakersService.remove` | `RemoveSpeaker` |

`windowsOverlap` and `isWithinWindow` of `ScheduleConflictService` are `Overlap` and
`Within`.

### Accounts

State: `passwords` (no row, unusable, set), `resetTokens`, `members`,
`organizations`, `sessionRows` (each with how it ended), `joined` (memberships
accepted through a password: a record of what happened, read by no action),
`browser` (its cookie and whether an answer was lost), `accounting` and `web`, the
requests to the API and to the web server.

| Code | Actions |
|---|---|
| `OrganizationsService.inviteMember` | `InviteMember`, `CreateUser`, `CreateToken`, `FindMembership`, `CreateMembership` |
| `create` (a transaction), `updateMembershipStatus` | `CreateOrganization`, `CommitOrganization`; `UpdateMembershipStatus` |
| `AuthService.register`, `requestPasswordReset` | `Register`, `CreateAccount`; `RequestPasswordReset`, `CreateReset` |
| `confirmPasswordReset` | `ConfirmPasswordReset`, `SetPassword`, `AcceptInvitations`, `MarkUsed`, `RevokeAll` |
| `login`, `refresh`, `logout`, `revokeSession` | `Login`, `FindSession`, `RevokeUsed`, `IssueSession`; `Logout`; `EndSession` |
| `apps/web`: the session routes and the proxy | `CallProxy`, `CallRefresh`, `CallLogout`, `Forward`, `Respond`, `ClearCookies`, `AbortWeb` |

A session's token is its position in `sessionRows`: what matters is which token was
used up by which renewal. Access tokens only decide whether the proxy forwards or
renews, and may do either at any time. A scenario with `cookieDomain` is a deployment that
sets `COOKIE_DOMAIN`: `clearAuthCookies` does not name the domain, so the browser keeps the
cookie, and `browser.lost` says that it was to be rid of it. A scenario also says which of
the requests are served, for all four services.

### Jobs

State: `jobs` (rows), `queue` (what BullMQ knows of each), `runs` (what each worker
is doing), `authorRows`, `reviewerRows`, `poll`, `crashes`. `CreateJob` and `Enqueue`
are the two writes of the API. `TakeJob`, `SetRunning`, then for an import `Download`,
`FindRow`, `CreateRow` for each row, `EndRows`, and for both `Upload`, `FinishDone`,
or `FailReport` and `FinishFailed`, are the processor. `Crash` is the end of a worker
process, `Stall` BullMQ's recovery of a job whose lock has expired: once, then the job
fails in the queue, without a word to the row; a stall may also hit a worker that is
only slow, and then two workers have the same job. `FinishDone` is the row's update and
BullMQ's completion of the job, which follows it, in one step; a final update that fails is
left out (the worker then behaves as one that dies before it). `StartPolling`, `Fetch`,
`Poll` (a fetch that was answered) and `FetchFails` are `useJobPolling`. Its limit
`MAX_ATTEMPTS` (2 in the instance) counts the fetches that were answered; after a failed
one the page fetches again in the next interval, as often as that happens.

### Reminders

`StartCron`, `FindNotification`, `EndCron` are a run of `RemindersScheduler` over what
is due; `ResolveTemplate`, `EnqueueMail`, `Notify` the listener's handler of the event,
which runs beside it; `ClearMine` hides a user's notifications, whose rows stay, so that the
scheduler still finds them. `FailHandler` is an exception in one handler, `FailCron` one in
the run, whose handlers go on; `AbortReminders` is a restart, which ends all of them.
`TakeMail` and `SendMail` are the email worker, `RedeliverMail` the death of one before
BullMQ learns that its mail was sent. That the mail does not go out twice then is the promise
of the key that is given to Resend, outside of `src/`, and is not modelled.

### Tracks

`CountTracks` and `CreateTrack` are `TracksService.create`; `ReorderTracks`,
`FindTracks` and a `WritePlace` for each place of the list, in any order (`Promise.all`), are
`reorder`. `FailPlace` is one update that fails, while the others are under way;
`AbortOrdering` the end of the process, with what it has not written. The page lists each
track once (`Permutations`). The service takes any list that names all the tracks: it
compares sets, and nothing validates that an id stands once. Scenarios with `repeatTracks`
have such lists, up to `MaxListed` long (`Lists`).

### Conferences

State: `status`, and `visited`, the statuses there were (a record, read by no action).
`ChangeStatus` and `Publish` are the read and the tests of `ConferencesService.changeStatus`
and `publish`; `SetStatus` is the update of either, which names the row by its id alone.

### SettingsPage

State: `settings` (the row: a switch and a window for each module of `Modules`, which
template, how often it was written), and for each tab `fetch` (the GET under way, and the
row once it was read), `cache` and `loaded` (what the query cache holds, and whether it
holds anything), `page`. A date column is an instant, four a day; `Zone` puts a tab east
of, at, or west of Greenwich, since the form takes the first and the last instant of a
day where the browser is and shows the day where Greenwich is.

| Code | Actions |
|---|---|
| `ConferenceSettingsForm`: `handleEdit`, the inputs, `handleCancel`, `onSubmit` | `Edit`, `Type`, `Cancel`, `Submit` |
| `ConferenceSettingsService.upsert` | `Upsert` |
| `useUpdateConferenceSettings` (`onSuccess`, errors) | `AnswerSave`, `SaveFails` |
| the rest of `onSubmit`, the effect that keeps the summary synchronized, `AsyncBoundary` | `Rendered`, `ShownAfter`, which `Deliver` and `FetchFails` apply |
| `useConferenceSettings` | `StartFetch`, `ReadRow`, `Deliver`, `FetchFails` in `Setup` |

A save awaits `invalidateQueries` and is answered to the form only when the
refetch ends. The query library is outside of `src/`. `Refetch` is what its version 5 does:
an invalidation cancels a fetch under way and starts another, and whoever waited for
the first waits for the second; but a query that has no data yet is left with the
fetch it has. When several saves end with one fetch, any of them may be the last.

### TemplatePanel

State: `panel`: whether a file is chosen, the template that is shown, the download under
way with the template it found, whether the last one failed, whether an upload is
under way.

| Code | Actions |
|---|---|
| `CertificateGenerationPanel`: `handleFileChange` | `ChooseFile`, `ChooseWrongFile` |
| `handleTemplateUpload`, with `uploadCertificateTemplate` of the service | `Upload`, `SetTemplate`, `AnswerUpload`, `UploadFails` |
| the effect that loads the saved template (its abort among it), with `getCertificateTemplate` | `Reloaded` (applied by the others and by `PanelAfter`), `ReadTemplate`, `ShowTemplate`, `LoadFails` |

Templates are numbered in the order in which they were set; a template's file is stored
under a name of its own and never changes.

## 4. Runs

| Run | Instance | Shows |
|---|---|---|
| `checkout` | 2 registrations, 2 payment rows, 2 requests, Razorpay, 2 QR codes | types; `PaidOrderHasMoney`, `AdmissionIsPaidFor`, `OneOpenClaim`, `EventAppliedOnce`; `Checkout` implements `OrderLedger` |
| `checkout_live` | 1 registration, 2 payment rows, 2 requests, Stripe, fair, nobody dies | `CapturedIsConfirmed`, `PaidIsInvoiced` |
| `registrations` | 1 window with 1 place, 2 users, 2 requests, 1 import job, 3 attempts, 5 rows | types; `OversellIsBounded`, `RetryCanSucceed` |
| `eventday` | 1 registration (of a workshop), 2 requests, 2 check-in and 2 certificate types, threshold 2, 3 check-ins, fair | types; `EventDay` implements `Door`; `CheckinIsIdempotent`, `EverythingIsAnswered` |
| `editorial` | 23 scenarios; 2 requests of each service, 3 abstracts, 3 reviewers, 3 sessions, fair | types; `VersionsGapless`, `StatusIsEarned`, `WizardHasSaved`; `CompletedHasReview`, `ReassignedIsNotOpen`, `AutoAssignmentIsEven`, `OpenReviewersBounded`; `DoubleBookingIsBounded`, `ChairIsSpeaker`, `ScheduledWasAccepted`; `EditorialRequestsEnd` |
| `platform` | 18 scenarios; 2 requests of each kind, 4 jobs, 2 workers, 3 reminders, fair | types; `CookieIsNotUsedUp`, `JoinedHasPassword`, `DoneAccountsForRows`, `ImportRepeatsNothing`, `RemindersBounded`, `SharedPlacesBounded`; `EnqueuedJobsEnd` |
| `setup` | 5 scenarios; 1 settings page east of Greenwich, 1 template panel, 1 module, 2 days, 2 requests, 2 writes | types; `StagesInOrder`, `FormKeepsEntered`, `PreviewFollowsTemplate`, `RefetchShowsWrite` |

Runs that TLC refutes, each a statement of the repository that the code does not keep:

| Run | Statement | What happens |
|---|---|---|
| `checkout_replay` | "Already processed this exact event" (`payments.service.ts:68`) | Razorpay's captured event is dismissed because the authorization of the same attempt was recorded |
| `checkout_transaction` | "`Payment` keeps the original `providerPaymentId`" (`docs/plans/04`) | a late failure of an earlier attempt overwrites a captured payment |
| `registrations_capacity` | "capacity is enforced with a row lock / count check ... to avoid overselling under concurrent checkouts" (`docs/plans/04`) | two transactions count the same free place |
| `registrations_numbers` | "please retry" (`registrations.service.ts:146`) | numbers are counted per conference but unique over all: a second conference cannot register anybody |
| `eventday_revoked` | "A revoked certificate cannot be issued again." (`certificates.service.ts:200`) | an issue that looked before the revocation updates after it |

`registrations_numbers` checks the same property as `registrations`, with two
conferences instead of one: it holds within one conference and fails across two.

Every property of a passing run has a mutant: an operator beside the original, marked
"Mutant:" in its module, that changes one definition as a plausible bug would
(a missing unique index, a dropped status check, one attempt too many, a threshold
off by one, a transaction left open, two writes in the other order) and under which TLC
refutes the property.

**Bounds.** `PaymentIds` bounds the payment rows ever inserted, `MaxRegistrations`
the registrations, `MaxCheckins` the check-ins of a registration: the bound is in the
guard of the action that lets a request arrive (`HasRoom`), which counts the requests
in flight as well, so no request is cut off half-way. Two requests are enough for all
races of two actors on a table, which is what the hazards are; the proofs cover any
number. Two payment rows let a gateway payment and a manual claim, or two claims,
meet. Two QR codes for two registrations force collisions. Three attempts for three
processes let every process collide. `MaxCheckins = 3` allows the main event, the
workshop and one re-entry. `Registrations` reaches its bound on rows with nothing
refundable left to do only as an artefact of that bound, hence `CHECK_DEADLOCK FALSE`
there. `SYMMETRY` is used in runs without liveness properties only, over sets whose
members the model does not tell apart.

In `Editorial`, three abstracts make the counted submission numbers collide and give
`autoAssign` several rounds; three reviewers are the fewest for which an uneven
distribution and an excluded reviewer can both occur; two attempts at a number exhaust
the retries; `MaxVersions = 2`, `MaxPresentations = 3` and a scenario's
`maxAssignments` bound the rows, `scheduleVersion` stops at 2. Three windows, one of
them made of the other two, show containment, overlap and adjacency. In `Platform`,
`MaxCrashes = 2` is the number of deaths that BullMQ's recovery tells apart
(recovered, given up); each file has two rows, one of them with an email that another
file or row repeats; `MaxTokens = 2`, `MaxTracks = 3`, `MaxListed = 3` (a list that repeats one of
two tracks, the shortest that leaves a place behind the end), `MaxDays = 2` (the second day
is the first on which a reminder could be repeated) and a scenario's `sessions` (two to
four) bound the rest. In `Setup`, `MaxWrites = 2` lets two writes of the row follow
each other, of one tab or of both, so that what one tab fetches, types or uploads meets
its own earlier write or the other's; `MaxTyped = 1` bounds the columns in which a form differs from the
summary, but not how often it is typed in; `MaxDay = 2` lets dates shift by a day and come back.
The page and the panel are tabs of different people: to
each the other is "somebody else". These three runs have `CHECK_DEADLOCK FALSE`:
nobody has to call anything, and a scenario whose bound is used up and whose requests
are answered is over.

**Fairness.** `Checkout!FairSpec` has weak fairness of `Continue(r)` for each request:
the event loop resumes a request whose statement was answered, and no statement of
this path waits for another. It leaves `Abort` out: the code has no recovery for a
request that dies (the event row is committed first, so that the gateway's redelivery
is dismissed), and `CapturedIsConfirmed` is only true without failures. Requests never
have to arrive. `EventDay!FairSpec` has the same, and strong fairness of `Lock(p)`,
because PostgreSQL queues the waiters for a row lock and grants it in that order;
weak fairness would let other check-ins overtake a waiter for ever. `Abort` stays in:
a request that dies has been answered. `Editorial!FairSpec` has weak fairness of each
request's next statement; that the requests end is not obvious there, because
`performSubmit` retries and `autoAssign` loops over what it finds.
`Platform!FairSpec` has weak fairness of a worker's next statement, of BullMQ handing
a waiting job to a worker, of its recovery of a job whose worker is gone, and of the
page that polls: its timer fetches, and a fetch ends, answered or failed. Nothing makes a
fetch succeed, and the code does not count those that fail, so `EnqueuedJobsEnd` says that
a page stops unless its fetches fail again and again. Fairness does not make workers die or survive: `EnqueuedJobsEnd` excludes,
by name, what the code gives up on (a second death of the same job's worker, and an
import whose error report cannot be stored).

## 5. Proofs

All theorems are for arbitrary sets and bounds, under the named assumptions on the
constants (`CheckoutAssumption`, `RegistrationsAssumption`, `EventDayAssumption`,
`EditorialAssumption`, `SpeakerListsAssumption`, `PlatformAssumption`, `SetupAssumption`),
which say that the sentinel values differ from the real ones, that bounds are numbers, that sets are
finite where they are counted, that reviewers can be compared (the code sorts by id), and
that a list of speakers names at most one of them for each chair.

**Checkout** (`Checkout_proofs`). `IInv` adds to the invariants of the run
`RequestsOK`, which says for each place of a request what it relies on: a request
about to mark an order paid belongs to an order that has received money; one that is
about to insert an invoice, to an order that was paid; one about to refund, to a paid
order with a received payment. The invariants are not inductive without it, since a
request acts on what it read steps ago. It survives the steps of *other* requests
because the tables are monotone (`StepIsMonotone`, the theorem `NothingIsTakenBack`): no
step deletes a row, takes back `paidAt`, unsettles an order or forgets an event, so
whatever a request relies on stays true. From `IInv`: every safety property of the run
`checkout`, three more that it needs and that are simpler (`RefundedMoneyWasReceived`,
`QrCodesIdentify`, `ReceiptsAreInvoiced`), and `Refinement`, `Spec => ImplementsLedger`, action by action.
For `SmoothSpec`, in which no request dies, `CapturedPaymentsAreInHand` and
`PaidOrdersAreInHand`: a recorded capture, and then the paid order until its receipt is sent,
is at every moment held by a request whose next statement carries it on. A delivery that is
dismissed leaves that to the one which recorded the event, and whoever loses an insert of
the invoice leaves it to the winner; `DeliveriesOK` says what a request knows of its event.

**Registrations** (`Registrations_proofs`). `NumbersIdentify`, which is a theorem
only, follows from the unique index and from the fact that a status change keeps the number. For
`OversellIsBounded` the inductive form counts places taken *and* processes that have
seen a free one, together less than the capacity plus the number of processes: a
process enters the second group only while fewer than `Capacity` places are taken,
and then there are at most all the other processes in the group. `RetriesCanSucceed` holds
for a single conference: its assumption is that there is one (with two it is refuted, see
above). It uses `NumbersNear`: no number exceeds the row count by `MaxAttempts` or more, so
that the last of the candidates that one call tries is free when nobody else inserts.
`DuplicatesAreFew` is for a deployment whose import is not running (`Workers = {}`): the
registrations of a user in a category, together with the requests of that user that found none
when they looked again, are no more than the requests that are served at a time. The
look starts from none; so of any number of clicks no more than that come through.

**EventDay** (`EventDay_proofs`). `IInv` has `RequestsOK`: a request inside its
transaction owns the row lock, one that is about to record has seen that there is no
check-in to reuse, and one that is about to insert a certificate has seen it earned. The
first two give mutual exclusion (`LocksAreRespected`): what the lock's owner saw
of the check-ins is still so. What makes a certificate earned never goes away
(`EarnedIsKept`). Proved: types, `MainEventOnce` and `CertificatesAreEarned` (which no run
lists, since they are what `Door` says), the action property `CheckinIsIdempotent`, and
`RefinesDoor`, `Spec => ImplementsDoor`: each statement of each request enters the main event
at most once, makes out what is earned by then, or is no step at the door.
`LocksAreInUse` is why nobody waits for ever: a locked row belongs to a request that is
inside its transaction on that row, with its next statement to run, never to one that ended.

**Editorial** (`Editorial_proofs`). Each of the three services has an inductive
invariant of its own, because each changes its own tables only
(`SubmissionsElsewhere`, `ReviewingElsewhere`, `ProgrammeElsewhere`).
`SubmissionsInv` is about types, the versions, the statuses and, in `Known`, what a
request under way still knows: a request that is about to write a status has the
decision, the number or the version that this status stands for, since none of these
is ever taken away (`Grows`), however stale the *status* is that it read. What the
wizard's own requests know ends when the tab is reloaded (`Unwatched`).
`ReviewingInv` has `Rows` (the two properties of assignments) and `Doing`: a request
that is about to create a successor has cancelled the old assignment, one that is
about to complete an assignment has inserted its review, and `EvenSoFar` relates the
loads of `autoAssign` half-way through an abstract: no two reviewers of the pool are
more than one apart, and whoever is chosen and still waits for an assignment has no more
of them than anybody who was not chosen, or has got theirs already.
That the sort chooses the lightest is `LightestAreChosen`, which counts the candidates
before one; `LeastOf`, that a set of numbers has a least one, rests on the
well-foundedness of strict inclusion among finite sets, as induction is not available.
`ProgrammeInv` has `Planned`: a presentation that is about to be written is of an
abstract that was accepted when its status was read, hence has an acceptance among its
decisions; and decisions are never taken back (`DecisionsAreKept`), which is the one
fact about `Submissions` that the programme needs. `ChairIsSpeaker` survives two
concurrent replacements, because whatever a transaction leaves of the others'
rows, it writes the chair and that chair's row together. The two bounds need to say what
requests under way may still add. `BookingInv`: the sessions that give an abstract at an instant,
together with those that requests past their test are about to add, are no more than the
requests; for a test that passes has found that nobody else's session gives the abstract
then, so only its own request and the others past their tests can. `RoomInv`: the open
automatic reviewers of an abstract, together with the places that runs under way may still fill,
are within the wanted number for every request; a run that reads the assignments
takes only as much room as there are reviewers missing (`FewAreChosen`), and a reviewer who
declines or is replaced leaves room that no other run knew of.
Proved: all invariants of the run, and `EveryStatementIsProgress` (see below).

**Platform** (`Jobs_proofs`, `Accounts_proofs`, `Platform_proofs`).
For jobs, the inductive invariant is `RunsOK`, which says what a worker's record knows
(rows counted so far are those before its position; a file exists before the row is
finished), and `AuthorsCounted`: the rows of an email and the workers that looked for it in
vain and have yet to insert it are together no more than there are workers. A worker
joins the second group only while there is no row, and then only the other workers can be in it;
hence redelivery and interleaving of any number of workers repeat nothing more.
`FinishedJobsHaveEnded` says that a job with which BullMQ is done and that no worker runs has
a row that is DONE or FAILED, but for the losses named in `NoJobIsLost`. Its invariant,
`HandsInv`, accounts for them: a worker has the lock of the job that it runs unless the scenario has stalls
(`LocksAreHeld`), and a holder that is gone, or a job that was taken back without such a stall,
stands for a death (`DeathsAreCounted`). For
accounts, `WebOK` and `CookieOK`: an answer under way carries a token that is not used up and
that neither the browser nor another request holds, and a cookie that *is* used up has a request
under way that will replace or clear it; so `CookieIsNotUsedUp` survives concurrent
renewals, logouts and late answers. `AccountsOK` says that an invitation is being
accepted only by somebody whose password is set. For reminders, `TargetOK` relates
mails, notifications and handlers under way of one target. For tracks, `PlacesInv`: a
track at a place is settled when no request is about to move it; the settled tracks of a
place and the requests that are about to put one there are no more than the requests.
A new track is put after all that were counted, and a reordering that names all the
tracks unsettles all of them, so either starts where nothing is settled. The page's lists keep
every place within the list, since they are no longer than the tracks they name. With lists that
repeat a track, a place may be behind the end of the list: while it is, only requests that put a
track there bring one, at most one for each request served; from when the list reaches it, the
argument above adds as many again. Hence twice the requests, which TLC reaches. Type
correctness of the whole is in `Platform_proofs`.

**Setup** (`Setup_proofs`). `Typed` adds to the types that a save under way carries the
values of a form (`SavesOK`), for an arbitrary `Zone`. `StagesOK`: the status was visited,
and a request about to write one has seen one that comes right before it; so a stale
write goes to a stage whose predecessor the conference *had*, which is all that can be
said. `FormStep`: an open form follows what is entered because no rendering changes an
open form without closing it (`RenderedPage`). For `PreviewFollowsTemplate`, `KnownOK` says that
nothing a tab knows, fetches or downloads is newer than the row, and `PanelOK` that a
download begins after the cache knew of its template, so finds that one or a later one.
For `RefetchShowsWrite`, `WritesOK` relates a request that has written to the row, and
to the fetch it waits for, which was begun after the write unless the tab knew nothing
(`LoadedStep`: what is known stays known). From the same invariants the action property
`TabsGoForward`: neither the query cache of a tab nor a panel goes back to something older.

**Progress.** `StatementsAreProgress`, in `Checkout`, `Registrations`, `EventDay` and `Editorial`,
says that a number which depends on a request's place and on what it still has to do
(`StatementsLeft`, `WritingLeft`, `ReviewingLeft`, `SchedulingLeft`) is lowered by each statement
of the request, and never raised by what others do. So the retries of a QR code, of a
registration or submission number, and the loops of `generateForConference` and `autoAssign`
end, after a number of statements that is known on arrival. `JobsAreProgress` says it of the queue and the
workers: whatever stalls and is delivered again, no step makes more of what BullMQ may still do
with a job, and each lowers that of one job or the statements left of one run. What loops over a
set counts it: the theorems of `EventDay` and `Editorial` assume that there are finitely many pairs of
registration and certificate type, and finitely many speakers.

These, `PaymentsAreInHand`, `InvoicesAreInHand`, `LockOwnersRun` and `NoJobIsLost` are the safety
part of the liveness properties of the runs: what must happen is always in somebody's hands, and
whoever has it gets nearer to the end with every step. That a step is enabled and, being
fair, is taken, is what TLC adds. None of them is in a run's list; TLC has checked each on
the instance of its run before it was proved (`DuplicatesAreBounded` without workers, the
in-hand invariants under `SmoothSpec`).

**Model-checked only**: the liveness properties `CapturedIsConfirmed`, `PaidIsInvoiced`,
`EverythingIsAnswered`, `EditorialRequestsEnd` and `EnqueuedJobsEnd`, since fairness and
`ENABLED` are beyond the prover; what is proved of them is under *Progress*. Every invariant of a passing run is a theorem.

## 6. What the models also show

* A capture, or an approval that looked before a refund, turns a REFUNDED order
  PAID again. `OrderLedger!Pay` allows it because the code does it, for orders with
  money received only.
* A check-in that read CONFIRMED before a refund writes CHECKED_IN over REFUNDED:
  the transaction locks the row and does not read it again.
* A double click on register may produce two registrations of one user: nothing
  but the re-check guards against it (`DuplicatesAreFew` bounds their number).
* When the document of an invoice cannot be stored, the invoice keeps its row
  without a document: later calls return it as it is.
* When the gateway fails after the order was inserted, the order has no checkout, and
  `create` refuses another order for that registration; a manual claim remains.
* A double click on submit gives an abstract a second number over the first; a
  revision that was requested of a draft lets it become RESUBMITTED without a number.
* Two saves of one abstract can leave `currentVersionId` at the older version.
* `setAuthors` looks at no status and replaces the list in two statements: two calls can
  merge their lists, and one that ends in between leaves no authors. The conflict check of an
  assignment may be older than the authors it was meant for.
* A review is accepted for an assignment that was cancelled meanwhile; assigning by hand twice
  at a time makes two assignments of one pair. `markOverdue` (REV-007) has no caller.
* `sessions.update` moves a session without its presentations, which may then lie outside
  of its window. Two concurrent `assignSpeakers` may keep rows of both lists, two CHAIR
  rows among them; the session names only one.
* An existing user who is invited gets no mail and stays INVITED until a password reset. When two
  invitations of a new user to the same organization overlap, the second one's
  conflict can mean that no mail is sent.
* A DONE job that BullMQ delivers again is RUNNING again, and stays so if that worker dies;
  an import whose error report cannot be stored stays RUNNING; a job whose enqueueing fails
  stays QUEUED. Rows of authors without an email are inserted again.
* When the proxy's retried call throws after a renewal, the new cookies are not
  sent: the browser is signed out at its next call. A renewal that is refused by the refresh
  route clears the cookies even if another request has just renewed them.
* Tracks created during a reordering, or a reordering that ends half-way, can leave two tracks at
  one place and gaps.
* `reorder` takes a list that repeats a track, like `[a, b, a]` of two tracks, although its message
  says "exactly the conference's existing tracks, no more and no fewer"
  (`tracks.service.ts:82-92`; `dto/reorder-tracks.dto.ts:3-8` does not ask for distinct
  ids). It may leave `sortOrder` 2 in a list of two, where a track that is created later joins
  it, with no two requests at a time.
* A page whose fetches of a job's status keep failing polls for ever, although the hook's comments
  say "Never poll forever" and "never an unbounded fixed-interval loop"
  (`use-job-polling.ts:9,16-18`): only fetches that were answered are counted (38-48).
* In a deployment with `COOKIE_DOMAIN`, a logout or a refused refresh leaves the cookies in the
  browser, although the comment says that logout "must always succeed client-side":
  `clearAuthCookies` does not name the domain that they were set for
  (`apply-token-cookies.ts:16-20`).
* A decision that comes between a read of an abstract's status and the write that follows, or after
  a withdrawal, is not seen: the later write stands. A withdrawal after the acceptance
  leaves the abstract in the programme.
* A reassignment that overlaps a review cancels the completed assignment; its review stays.
* A webhook request that dies after it has recorded its event has lost the payment: the
  gateway's redelivery is dismissed. A refund that ends half-way leaves the payment refunded and the
  order paid, or the registration valid for a refunded order.
* A generation of certificates ends early when another one has made out the same certificate
  meanwhile; the rest needs another generation.
* When the wizard does not learn that its draft was created, it creates another one.
* A second confirmation of an order replaces the registrant's QR code, so that one sent
  before is no longer found, although a comment calls it safe to confirm twice
  (`payments.service.ts:344-347`).
* `changeStatus` asks for no readiness: it opens a conference that `publish` would refuse
  (CONF-005, `docs/srs-extracted.txt:430`). Two changes that read the same status both
  succeed, and the later write may take a conference back, even out of ARCHIVED, which
  no transition allows (CONF-006).
* On the settings page, a date that is cleared is not saved; and a date moves by a day with every
  save east or west of Greenwich. The summary then shows other values than the "newly
  saved values" (`conference-settings-form.tsx:274`): the effect replaces them by the row.
* Cancel while a save is being sent, then Edit: the late answer closes the new form and drops
  what was typed. The answer of an upload clears a file that was chosen meanwhile.
* An upload or a save that is answered before the tab's first fetch of the settings ends waits
  for that fetch, which may have read before the write: the tab shows the old row until it fetches
  again.

## 7. What is left

**Not modelled, and why.** The map covers about a tenth of the implementation's lines.
Most of the rest has no behaviour that depends on order or failure: half of the code
is pages and forms of the front end, and much of the other half data transfer classes,
controllers that delegate, and reads for listings; a model of them would restate them. Of
the services that are modelled, the lines left out are such reads and wording. In
particular:

* *conferences*: creating one and changing its columns, one write each. What other services
  read of a conference is free to change in their models;
* *form fields and their builder*: CRUD over single rows, and a reordering by one update per
  field, whose hazards are those of `Tracks`;
* *sponsors, exhibitors, categories, types, email templates, speakers' profiles*: CRUD over
  single rows;
* *certificates*: where the fields are put on a template, regeneration and verification: one write
  of one row, or reading;
* *email verification*: sets a date that no code reads;
* *files, PDF rendering, reports, configuration, the other pages of the web front end*: I/O,
  layout, read-only queries and formatting.

**Next.** The check-in inside `Checkout`, so that refunds and `CHECKED_IN` are one
model; order and invoice numbers in terms of the number scheme of `Registrations`; the
settings of `Setup` in place of the free ones of `Submissions`.
