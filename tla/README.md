# A TLA+ development of proindustrial-backend

ProIndustrial is a Go server (gin, PostgreSQL, an object store, a mail provider)
for a directory of industrial suppliers. Visitors browse companies and ask for
quotes; suppliers apply, are approved by an administrator, get an initial
password by mail and keep their own page from a panel. These modules model the
parts of it in which order, failure or concurrency matter. TLC checks them on
small instances, and TLAPS proves every safety property of the passing runs for
every instance.

## 1. Inventory

All state that survives is in PostgreSQL and in the object store. Requests are
goroutines that share nothing else but the rate limiters' maps. Components
therefore interact through rows: mostly single statements, a few transactions of
several (approve, delete, reorder, regions, each migration file), and mails and
uploads outside any transaction.

| Component (source) | State | Operations | Interaction | What is hard |
|---|---|---|---|---|
| Registration and approval (`handler/registration.go`, `handler/admin.go`, `registration_repo.go`, `admin_repo.go`) | `provider_registrations`, `companies`, `users`, `quote_requests` | public form; approve, reject, delete, resend | row locks, unique indexes, foreign keys; starts a delivery | check-then-insert; statements of several requests interleaved; commit whose acknowledgement is lost; a historical database without the index |
| Delivery of credentials (`handler/admin.go` 75-147, `notify/mailer.go`) | `email_status`, `email_note`; a goroutine and a channel per mail | send, record, report, answer at a timeout | the handler waits on the channel for a while; the goroutine writes the row by itself | mail slower than the handler; outcomes recorded out of order; restart; delete of the row |
| Logins, tokens, passwords (`handler/auth.go`, `auth_repo.go`, `middleware/auth.go`) | `users.password_hash`, `must_change_password`; signed tokens held by clients | login, change password, admission of each request | reset and delete by the administrator act on the same row | row read, then used after slow hashing; tokens that outlive what they say |
| Requests for a quote (`handler/quote.go`, `quote_repo.go`) | `quote_requests` | submit, reply, status, outcome, tags, follow-up | foreign key to the company; delete of the company; two or three mails after the write | reply, status and delete of one row; mail after commit; retries |
| Media of the panel (`handler/media.go`, `media_repo.go`, `service_repo.go`) | rows of services, projects, certifications, pictures, regions; links; files in the store | upload and link, create, edit, delete, reorder | two systems without a transaction; cascades | count before upload; row gone before its picture; one UPDATE for two purposes |
| Rate limiter (`middleware/ratelimit.go`) | a map of counters per instance, under a mutex | allow, cleanup | in front of the public writes and logins | fixed windows; cleanup against counting |
| Panel transactions (`media_repo.go` 50-115, 275-310) | `service_images.sort_order`, `company_service_regions` | add, delete and reorder pictures; replace the regions | rows and index entries that another transaction has not committed | rows locked in the order of the body; a subquery for the next place; DELETE and INSERT of two replacements |
| Start over an older database (`main.go`, `db/migrate.go`, `migrations/011`, `012`) | addresses, links and descriptions of historical rows; the version library's table | start, crash, repair | decides which account a later approve or delete touches | one Exec per file, noted in steps of its own; rewriting unique addresses; links guessed by address |
| Analytics (`handler/analytics.go`, `event_repo.go`) | `company_events` | insert, report | reads quotes | four statements and a second clock; failures that the report passes over; midnight |
| Panel profile and dashboard (`handler/panel.go`, `company_repo.go`) | columns of `companies`, `company_services` | edits, counts | the address is read by the delete of an older application | nothing else beyond single statements |
| Catalogue, public pages, object storage, wiring, other middleware, text helpers | | | | pure or read-only |

What makes each correct:

- *Approval.* One application per address under review; a decision is final; an
  approved application has a whole account, and no account is without one; keys
  are unique; what the administrator is told is so; quotes have a company;
  no request hangs, and no requests wait for one another in a circle.
- *Delivery.* "Sent" is never said of what no server took; an answer is not ahead
  of the table; the administrator is always answered; no goroutine is left.
- *Sessions.* The panel opens only after a change of password; password and flag
  move together; an answered change was made; nobody is shut out.
- *Inbox.* A confirmed quote is lost only with its company; only the company
  asked replies; a reply on record is mailed unless the process dies or the answer to
  its UPDATE is lost; the first response keeps its time.
  Together these are one promise, of steps that nothing interrupts.
- *Media.* Links lead to complete files; nothing hangs from a deleted row; only
  racing requests pass the limit of pictures; only one's own rows change.
- *Panel transactions.* A picture moves only with all the others that one reorder
  lists, so an order is never half of two; a new picture comes last; regions are
  what was asked but for what others committed meanwhile; every request ends,
  deadlocked or not.
- *Start.* It fails only after a crash or over two users of one address of whom none
  has it in its plain writing; who could log in still can; a file that is run
  again changes nothing; afterwards every application can be decided, and one
  deletes its own company, or another's only where an address has moved, and resets
  its own login, or another's, an administrator's among them, only where the two were opened
  with one address.
- *Analytics.* No bar misses what was there when the report was asked for, and totals
  and bars differ only by what arrived meanwhile and by the uncovered edge of the
  window.
- *Limiter.* A stretch of one window never admits twice the limit; the announced
  wait is enough; who is refused has used the whole limit.

`PROJECT.json` lists the hazards one by one, with the line where each bites and
the properties that watch it.

## 2. Modules

| Module | What it is |
|---|---|
| `Onboarding` | The abstract promise: an application is filed, decided, opened and deleted in one step each. |
| `Approval` | The handlers of registration and administration, one action per SQL statement, per worker. |
| `ApprovalProperties` | Its invariants and action properties, the refinement mapping into `Onboarding`, and the inductive invariant `IInv`. |
| `ApprovalProofs` | Its safety properties and the refinement of `Onboarding`, proved. |
| `MCApproval` | Slug function and symmetry of the instances. |
| `CredentialDelivery` | One application's deliveries. |
| `RateLimiter`, `RateLimiterProofs` | One limiter over a discrete clock; proofs. |
| `Media`, `MCMedia`, `MediaProofs` | Uploads, links, rows and cascades; instance; proofs. |
| `PanelTransactions`, `MCPanel`, `PanelProofs` | Places of pictures and regions, per statement; instance; proofs. |
| `Sessions`, `SessionsProofs` | One account, its tokens, its resets; proofs. |
| `Correspondence` | The abstract promise about quotes: a request is filed, its sender told, it is answered, the answer mailed, a company leaves, each in one step. |
| `Inbox`, `MCInbox`, `InboxProofs` | Quotes, replies and the delete of a company, per statement, with the mapping into `Correspondence`; instance; proofs. |
| `Upgrade`, `MCUpgrade`, `UpgradeProofs` | Migrations 011 and 012 over historical rows, and what approve, resend and delete do after them; symmetry; proofs. |
| `Analytics` | The panel's report while visitors go on. |
| `DeliveryAndAnalyticsProofs` | The proofs of `CredentialDelivery` and of `Analytics`. |

`Approval` and `Inbox` are each composed with the abstract specification they
implement, `Onboarding` and `Correspondence`. The modules beside `Approval`
share tables with `Approval` and each takes from it what it needs: a delete of
the company, a reset of the password, as one action with the effect of the
commit. That is justified by what `Approval` shows, that a delete and a resend
are all or nothing. `Inbox` opens the delete up again into its two DELETEs, since
the point there is what comes between them. `Upgrade` takes approve, resend and delete as
one step each and adds to `Approval` the applications approved before migration
011, which have no link. Whether 011 could make its index on pending applications
is the constant `PendingIndex` of `Approval`, so that both databases are checked.

### How the state corresponds to the code

`Approval`. The tables hold committed rows. A transaction's writes are in `op[w]`,
the goroutine's state, so a rollback forgets them. `lock` is the FOR UPDATE lock
of the registration row. A unique index makes an INSERT wait for an uncommitted
equal key and fail on a committed one; a foreign key makes the quote wait for the
delete. The last UPDATE of a transaction and its COMMIT are one action: nobody
sees the row in between. A COMMIT may be answered with an error although it was
made, so every commit action may end in `failed`. Ids (UUIDs) may be drawn while
no row has them. Applications approved before migration 011, whose link columns
are NULL, are in `Upgrade`; the configured fixed initial password is left out.

`CredentialDelivery`. A delivery is one initial password. `goroutine`, `handler`,
`done` are the sending goroutine, the waiting handler and the buffered channel;
`status`/`by` the columns and the delivery that wrote them. A mail server may take
a message and the reply may be lost (`Accept`, then `SendFails`). The mailer
of the program is never nil.

`RateLimiter`. `entries` is the map, one action is one critical section. `log`,
`first` and `refused` are histories: admitted requests, where the window's own
begin, the last refusal.

`Media`. A request with a file goes through upload, check and write. Services,
projects and certifications are ids with a fixed owner, given once. Logo and
cover are the same code and are one variable. The count of a foreign service's
pictures is zero and the request goes on to its upload, as in the code, until
the owner is checked. `actor` is the company whose request moved last.

`PanelTransactions`. Another model of the same pictures, opened up into statements.
`lock` is the row lock of a picture; what a transaction has written and not
committed is in `request`, so a rollback forgets it. A reorder's body names pictures
that the panel has shown, each once and with its place in the list as its
`sort_order`, which is what the panel sends. `seen` is the snapshot of the DELETE;
`during`, `added` and `removed` are histories of what others committed while the
request ran. Deadlock detection is PostgreSQL's: `Victim` rolls back one of those
who wait for each other in a circle.

`Sessions`. The user gives the right passwords: a wrong one changes nothing.
Signing is a step of its own, since the row was read before. A token in `tokens`
is one that has not expired. Initial passwords are numbers, so a reset always
gives a new one, which a choice of the user may equal.

`Inbox`. A reply takes `now` when its statement starts, which is what NOW() means
in PostgreSQL, and writes it when it gets the row. Rows deleted by the
transaction in progress are locked. Time 0 is NULL. Columns that are written by
one statement and read by none are booleans; `replied_at`, which is only shown, is
left out. Each statement commits by itself, and the handler may not learn of it:
the connection is lost after the commit, or the row that comes back is not
scanned. `SetReply` then answers "solicitud no encontrada" with the reply on record
and no mail to follow, which `lost` notes as it does a crash before the mail;
`InsertQuote` stores a quote that nobody is told of.

`Upgrade`. Application *a*, once approved, has company *a* and user *a*: that is the
identity the links try to recover. Administrators have logins in the same table
(`Login`), without a company: migration 003 inserts one, and a provider's login may
have its address in another writing. An address comes in three writings: plain, with
capitals, and with spaces around, which `lower` does not remove. `Mark` and `Clean`
are golang-migrate's notes before and after a file, a file is one transaction
(one Exec), and `Repair` is an operator who forces the version before the dirty
one. `taken` records each delete, `reset` each login that a resend gave a new
password. A resend without a link updates every login of the address, whatever its
role, and reads the company of the first row that comes back; if that is an
administrator's there is none, and the transaction is rolled back. Which row comes
first is the database's choice, so `Resend` can go through whenever a provider's
login is among them.

`Analytics`. `clock` counts ticks, a day is `Day` of them, and the database and Go
share it. A row is stamped when its INSERT begins and seen when it ends. Each kind
of event is counted by a FILTER of its own; an event of the model is a profile view
or a contact click, which have a total and a bar, beside the quotes. The openings
and submissions of the quote form have totals only and service views neither, so
there is nothing of theirs to compare, and they are left out. A number of the report
is the set of the rows that were counted, since a row is counted once wherever it
is: of the totals and bars the code computes the sizes. The statements whose errors
the code drops may fail in silence.

## 3. Runs

Each run is finite because its sets are; the named bounds are the only cuts of
unbounded counters. Sets are symmetric only where nothing tells their members
apart, and never in a run with liveness.

| Run | Instance | Shows |
|---|---|---|
| `approval` | two workers, two applications, two names of which the slugs collide, an address that is an administrator's | the invariants, `NoDeadlock` among them, `DecisionsAreFinal`, `ImplementsOnboarding` |
| `approval_live` | the same with one name, one address and no index on pending applications, strong fairness | keys stay unique when two applications of one address are both approved; every request ends |
| `delivery` | two deliveries (`MaxDelivery = 2`), mail configured or not at each restart | safety, bounded answer, no leak |
| `delivery_status` | the same, with mail | *violated*: `SentIsCurrent` |
| `rate_limiter` | two addresses, limit 2, window 2, clock to 5 (two windows and the gap between) | safety of the window |
| `media` | two companies, one row of each kind, three files, two requests, a limit of one picture | safety of links, rows and owners |
| `media_names` | the same | *violated*: `CertificationsAreNamed` |
| `panel` | two requests, two pictures, two regions, both orders of the pictures, opposite lists of regions | order, last place, regions, and every request ends |
| `sessions` | two requests, one reset, tokens of two ticks, clock to 3 | safety and `NoLockout` |
| `inbox` | two companies, one id, two requests, two texts, two moments | safety, `FirstResponseStays`, `ImplementsCorrespondence` |
| `upgrade` | three applications, an administrator, two addresses in three writings, any application pending or approved | what blocks a start, who can log in, what a delete takes, whom a resend resets |
| `analytics` | days of two ticks, reports of one and two days, clock to 5, two events and a quote | bars and totals |

Why the bounds are enough. Every hazard in the list is between two requests, or one
request and the delete, reset or restart that crosses it, so two of each kind is the
least instance with all of them; a third worker adds no new kind of conflict, since
locks, keys and rows are contended pairwise. Circles of waiting may be longer than
two: that there is none in `Approval` is proved for any number of workers.
`approval` needs three slugs to make the second candidate collide too. `MaxQuotes =
1`: the delete asks only whether a quote came in between. In `inbox` no statement
but the delete touches two rows, and the delete may fail in any state, so one id
meets every race. The limiter's clock passes the end of two windows, so cleanup,
reopening and a stretch across both occur. In `sessions` the clock passes a token's
whole life once, and logins before and after the reset. In `panel` two pictures in
both orders are the shortest circle of waiting, and two regions with a blank name
among them the shortest lists that cross. `upgrade` needs two rows for a collision,
a third for what happens when one of the two is gone, two addresses for a company
that moves to another's, and three writings because capitals and spaces are treated
differently; its initial states are all that the constraints of the older version
allow. The guard by which `approve` keeps a new account from an address that an
older one has in capitals matters to a resend only after the plain one is gone. The
run's administrator has a plain address, as 003 writes it; the proofs hold for any
number of administrators and any writings, `AdminEmail` being a constant. A resend
that resets the administrator's login occurs: the application's own login has the
same address with capitals, and 011 has left it so. In `analytics` the window of two
days ends inside a day, so its edge is a part of a day that no bar shows, and
midnight may pass between any two statements of a report. A property that a
refinement implies is not run beside it: one pending application for an address
(`OnePendingPerEmail`) is part of `Onboarding`, and that only the company asked
replies (`OnlyTargetReplies`) of `Correspondence`. Both are theorems all the same,
and parts of the inductive invariants. For each property `PROJECT.json` names a
mutant of the code, such as a dropped guard or a misplaced step, under which the
same run finds the property violated.

### Fairness

- `Approval!FairSpec`: strong fairness of each worker's next statement.
  PostgreSQL queues those who wait for a row or an index entry, so a statement
  that is able to run again and again does. Nothing is assumed of arrivals,
  failures or crashes.
- `CredentialDelivery!DeliveryFairSpec`: weak fairness of the handler's answer (`time.After`
  fires). `NoGoroutineLeaks` adds weak fairness of the goroutine in its
  premise: calls to mail servers have deadlines. The first property does not
  assume it, which is its point.
- `Sessions!FairSpec`: a user who keeps logging in and changing the password, and a
  database that does not fail every time (strong fairness: each attempt may be
  cut by an error, a crash or an expired token).
- `PanelTransactions!FairSpec`: strong fairness of each request's next statement, with
  the end the database gives to a deadlock among them. Nothing is assumed of
  arrivals, deletes, rollbacks or crashes.
- The other modules claim safety only, and assume none.

### Disagreements found

Two contradict what the repository says and are runs that TLC finds violated:

1. `SetEmailStatus` is keyed by application alone. A slow mail of the approval
   that ends after a failed resend shows "sent" over the failure
   (`delivery_status`).
2. Uploading the document of a certification empties its name, which creation
   and edit both require (`media_names`).

The others are differences between a text and the code whose exact extent is a
property that holds:

3. The limiter's window is fixed at its first request, so "20 por hora" can be
   39 in one hour; less than twice the limit is proved (`LessThanTwice`).
4. "Máximo %d imágenes por servicio" is checked before the upload and nothing
   holds it at the insert; requests that overlap pass it, by one less than there
   are of them (`OverLimitByRacersOnly`).
5. README 98 says the initial password must be changed before the panel is used;
   the same password is accepted as the new one. `PanelAfterChange` says what is
   true: a change was made.
6. Migration 011 (lines 4-8 and 12-15) means no data to block the start. Its
   UPDATE yields to a row that has the plain address already, but two users of
   one address of whom neither has it so, one with capitals and one with spaces,
   are both rewritten; the unique index fails, the version stays dirty and the
   server does not start. `BlockedByCollisionOnly` is the exact condition.
7. A company may change the address it shows. An application without a link, or with
   one that was filled by address, may then delete the company of another, and the
   cascade unlinks that other application, which may go on to delete a third
   (`DeletesOwnUnlessMoved`).
8. "Registros aprobados antes de la migración 011" (`admin_repo.go` 334) says who
   takes the fall-back of a resend. An application of this version takes it too,
   once another has deleted its company: the link is NULL, and the address may be
   that of a newer account, whose password is replaced. The fall-back asks for no
   role either, so an older application whose address is an administrator's but for
   capitals replaces the administrator's password by the one it is mailed.
   `ResetsOwnUnlessShared` says when a resend cannot touch another's login.

Without a property of their own: a reply that was stored and whose UPDATE was not
answered is reported as a quote that does not exist, and never mailed (`lost` in
`Inbox` holds exactly these and the crashes); a change of password whose UPDATE
finds no user is answered with `ok` and a new token; an edit of a certification
drops its document; a report whose statements failed looks like one of quiet days
(`silent` in `Analytics`). They are in the hazards.

## 4. Proofs

Every safety property that a passing run checks, and both refinements, are theorems
of `Spec`: for any sets of workers, rows, addresses and names and any
bounds, from the assumptions on constants in the modules alone. Each inductive
invariant contains the type invariant of its module; it was model-checked on the
run's instance before it was proved, and the runs need not repeat it.

*Approval.* No property of `ApprovalProperties` but the type is inductive. `IInv` adds
what a worker knows between two statements: whoever is past its locking read
holds the row in the status it read (`LockInv`); what an approval has inserted
and not committed collides with no committed row and with no other worker's
insert (`ApprovingInv`), which is what the unique indexes do for the COUNT and
SELECT that precede them; what a delete has removed is everything there is
(`DeletingInv`); a reject that found no pending row finds none later
(`RejectingInv`). `Invariant` proves `Spec => []IInv`, one lemma per committing
action and one for the steps that change no table. From it follow `TypeCorrect`,
`Accounts`, `Keys`, `Pendings` (with the index), `Truthful`, `WholeAccounts`,
`Quotes` and the action property `Final`.

`Implements` proves `Spec => ImplementsOnboarding` on a database that has the index
on pending applications (without it two of one address may be pending, which
the abstract `Register` forbids). The mapping reads an application's page, address
and flag through its links, so a step of one row must be shown to leave the page
of every other application alone: that no two approved applications share a
company or a user is part of `IInv`. One lemma per committing action
maps it to its abstract step; every other step of a worker changes no table and
stutters.

`Deadlocks` proves `NoDeadlock` for any number of workers. `WaitsFor(w, v)` is what
PostgreSQL would note: *w* stands at a locked row, or at an INSERT of a key that
*v* has not settled. A locked row belongs to a transaction under way on it
(`RowsAreFreed`, which each end of a transaction must keep). Every approve takes the
row, the slug and the address in this order, so whoever is waited for is further on
than who waits (`WaitsForFurther`): in a set of workers who all wait for one of
them, nobody waits for an address, hence nobody for a slug, hence nobody for a
row (`NoCircle`). The argument needs no count and no order of the workers.

*Delivery.* `DeliveryInv` adds to the two safety properties that what is on its way
(`result`, channel, goroutine) is as true as what has arrived.

*Limiter.* `LimiterInv` relates the map to the histories: the counter is the number of
admissions since the window opened, windows do not overlap, and an entry is
missing only when its window is over. A stretch as long as the window meets at
most two windows, and the older one loses at least the request that opened it:
hence `Doubled`.

*Sessions.* `SessionsInv` adds to the three safety properties what a request has read
and may still sign: an unflagged row, an unflagged login under way or a change
that was written means that the password was changed once (`ChangedOnce`). A
signature then adds no token that the requests did not already account for.

*Media.* `MediaInv` says that what a request holds between its steps is as good as when
it was looked up: its file is stored and no row and no other request has it
(`HeldOnce`), and past the check of the owner the row is its company's
(`InsertsAreOwn`). `CountedInTime` counts the pictures of a service together with
the requests about to add one: an insert only moves its own request from the
second count to the first, and the check admits one request more only below the
limit, so the sum exceeds it by at most the other requests.

*Panel transactions.* `PanelInv` has a clause for each kind of request: the pictures
a reorder has passed are locked by it until it ends, so its commit places all of
them that are left, or none (`Order`), and no other step moves a picture; an
addition knows a place after all it could see (`ComesLast`); a replacement has
deleted or taken over all that nobody else did (`Regions`). It needs no fact about
deadlock, since a victim's writes were never in the tables.

*Inbox.* `InboxInv` says of each request between two statements that the quote it is to
confirm or to mail about has been written and is kept or went with its company, and
that a mail is of the quote's own company (`Underway`); of the delete in progress,
that it has removed rows of its company only (`DeletionIsWhole`). An id is never used
twice (`NothingUnused`), so what a slow request remembers is the same quote.
`FirstTime` needs the type invariant only: the `COALESCE` reads the row that the
statement has waited for.

`Implements` proves `Spec => ImplementsCorrespondence`. In the mapping a company
leaves, with its requests, at the COMMIT of the delete; its rows gone inside the
transaction are still kept, and a rollback stutters. An answer and its mail falling
due, or the loss of that mail with the news of the answer, are one abstract step,
though the handler goes on to its mail from what it has read. `InboxInv` had to be
joined by `Founded`: a quote on record has its company, and a delete runs on a
company that is there. One lemma per step of the code names the abstract step it is,
or that it stutters.

*Upgrade.* `UpgradeInv` has the version library's account (`Versioned`: a version that is
marked and not dirty was committed), what 011 leaves (`Addressed`, `Upgraded`: a
second run finds nothing to rewrite and no link to fill, which is `InVain`) and
what the links say (`Linked`: right for applications of this version, wrong for
older ones only where an address has moved). Whether a start fails is decided in
one step, from the collision `Blocked` names. `Owned` says of logins what `Linked` says
of companies: a user has the address of its application, a link leads to a user of
the same address, and a login of this version is linked to its own application
and is the only one that its address finds. The last holds because `approve` compares in
small letters and 011 leaves no application written otherwise. `Administered` says the
same of administrators: their logins stay, since no delete of a company reaches a
user without one, and none is found by the address of an application that this version
approved. From the two follows `ResendsOwn`.

*Analytics.* `AnalyticsInv` follows a report from statement to statement: what was stored
when it began is in its totals (`Totalled`) and in its grouped rows (`Grouped`) unless
a statement failed or the row is outside what can be shown, and nothing is counted
that was not stored. `Bars` and `Totals` compare the sets of rows counted; the
comparison of their sizes would add an induction over data and say less.

Only model-checked: liveness (`EveryRequestEnds` of both modules, `NoLockout`,
`AdminIsAnswered`, `NoGoroutineLeaks`): reasoning under fairness is beyond the
prover.

## 5. Not modelled, and why

- Read-only endpoints, the catalogue and the public pages: one query each, which
  changes nothing and relates to nothing read before.
- Texts, formats and lengths, `slugify` and the other text helpers: string functions.
  `Approval` takes the slug as a function of the name, so that two may share one.
- The signature of tokens and the roles of routes, headers, CORS, logging, health:
  stateless filters.
- The inside of the mail protocols and of the object store: pure I/O, abstracted to
  what a call may return.
- Configuration and wiring; migrations before 011, which create tables and put in and
  take away seeds, and do not depend on what users have written.
- The creation of 011's indexes, of which the outcome is a constant of `Approval`.
- Of a company's profile, columns that nothing else reads.

## 6. Plan

Done, in this order: `Onboarding` and `Approval` (the flow everything else hangs
from) and their proofs, delivery, limiter and their proofs, media, sessions and its
proofs, inbox; then `PanelTransactions`, `Upgrade` and `Analytics`, the proofs of
`Media`, `Inbox`, `PanelTransactions` and `Upgrade`, and the refinement of
`Onboarding`; then the proofs of `Analytics`, the absence of deadlocks in `Approval`,
`Correspondence` and its refinement by `Inbox`, and the resend in `Upgrade`.

Next:

1. An abstract gallery (pictures in an order that changes in one step) with
   `PanelTransactions` shown to implement it.
2. An abstract account (password and flag change together, a token is of one
   password) with `Sessions` shown to implement it.
3. 011's index on pending applications in `Upgrade`, with `PendingIndex` as its
   outcome.
4. Three requests in `panel`, for circles of three: a larger run of its own.
