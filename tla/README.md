# Verification of VaultSend

VaultSend is a Go service for sending files: a sender uploads files to S3 through
presigned URLs, finalizes a *shipment* for recipients or for a shared URL, and
recipients download through access tokens with an expiry and a download limit. State
lives in PostgreSQL; four processes (API, mail worker, cleanup worker, audit worker)
share it and talk to S3, SQS, SES and Stripe. Nothing but single SQL statements and a
few transactions orders them. This directory holds TLA+ modules of the parts where that
matters, TLC configurations, and TLAPS proofs.

Run `tlc -config X.cfg MCModule.tla` for a run and `tlapm XProofs.tla` for the proofs.

## 1. Components

Status: M modelled, P partly, - not modelled.

| Component | State | Operations | Interacts with | What is hard | What makes it correct | Where |
|---|---|---|---|---|---|---|
| Shipment lifecycle and downloads (`service/shipments*.go`, `access.go`, `store/queries.go`, `transactional_audit_queries.go`) | rows of `shipments`, `access_tokens`, `download_events` | draft, finalize, resend, delete; inspect, verify, download-url | cleanup worker and every request, through the rows | a download is seven statements without a transaction; resend and cleanup act on rows read earlier | no access after the end; the limit is exceeded by the concurrency at most; status never moves back | M `ShipmentAccess` implements `ShipmentGate` |
| Cleanup worker (`worker/cleanup_worker.go`) | none but a batch | mark expired, purge deleted | rows, S3 | stale batches, overlapping and interrupted runs, batch limit | only deleted shipments past the grace period are purged; all are, eventually | M `ShipmentAccess`, `UploadFlow` |
| Uploads (`service/uploads.go`, `storage/s3_object_store.go`) | rows of `upload_sessions`, `files`; multipart uploads and objects in S3 | open a session, complete it | finalize, purge | two systems without a common transaction, retries, lost answers | file rows have objects; all answers for a session agree | M `UploadFlow` |
| Audit outbox (`store/security_audit_outbox*.go`, `worker/security_audit_outbox_worker.go`, `http/middleware/security_audit*.go`) | rows of `security_audit_outbox`, `security_audit_events`; the flag `Enqueued` of a request | enqueue with the business transaction, direct record, deliver, delete old rows | every audited request | ambiguous commits, direct rows beside delivered ones, several workers | one success event for each committed operation | M `AuditOutbox` implements `AuditTrail` |
| Notifications and mail worker (`worker/mail_worker.go`, `queue/sqs.go`, `service/shipments_resend.go`, `shipments_query.go`) | `notification_events`, SQS messages, what SES took | enqueue, receive, send, mark, delete; summary, detail and pages | finalize, resend, purge | three systems without a common transaction, at-least-once delivery | rows do not claim mails that were not sent, no message is lost, the queue drains | M `MailDelivery` |
| Organizations, invitations, seats (`service/org*.go`, `store/organization*.go`) | members, invitations, row locks | add, remove, invite, resend, revoke, accept | billing, mails | only some handlers lock the organization; a link may be used in two tabs while it is resent | members exceed the seats only by named overlaps; an invitation works once, with its latest token | M `OrgSeats` |
| Billing (`service/billing*.go`, `store/subscriptions.go`) | subscriptions here and at Stripe, the events in between | checkout, webhooks, seat synchronisation, monthly limit | Stripe, organizations, finalize | webhooks repeated and reordered, a synchronisation that writes what it read | rows say what Stripe told; the limit holds but for named overlaps | P `Billing`, `ShipmentQuota` |
| Password guard and grants (`service/access_guard.go`, `access_grant.go`) | failures and windows in memory, signed grants | verify, lockout, download window | access requests | the password is compared between two locked calls; boundaries of windows; restarts | bounded guesses, and downloads by one address, in every window's length; a grant ends with the access | M `AccessGuard` |
| Rate limiter (`middleware/rate_limit.go`, `client_ip.go`) | bounded table of windows | allow | all handlers | full table, forwarded addresses | bounded requests per client in every window's length | M `RateLimiter`, composed in `AccessGuard` |
| Auth sessions, CSRF (`service/auth.go`, `middleware/auth.go`, `csrf.go`) | users, sessions, cookie jars | register, login, logout, optional and required authentication | uploads | the session is read statement by statement while others log in and out; answers overtake each other | a session needs the password; an ended session acts for nobody | P `AuthSessions` |
| Audit normalisation and HMAC | - | - | - | - | - | -: one record in, one out, no state |
| HTTP handlers, configuration, web frontend, migrations, deployment | - | - | - | - | - | -: routing and configuration; constraints and triggers that other parts rely on are in their modules |

## 2. Modules

Everywhere a step is one SQL statement or transaction, or one call of S3, SQS, SES or
Stripe: whatever a handler has read is kept in its local state, and other handlers may run
before its next statement. Every handler may stop after every step. Each process reads its
own clock in the code; the models have one.

### ShipmentGate and ShipmentAccess
`ShipmentGate` is what sharing promises: a gate that opens once and closes for good. Who
asks while it is open comes in, looks at the number of downloads, and may take the shipment
once if that was below the limit, also after the gate has closed, until everything is
forgotten. `ShipmentAccess` is the code. The refinement maps a row to `closed` as soon as its date
has passed, before any cleanup run writes it (`LifeAt`), so that a tick of the clock closes
many; a request that was late when it read its token never comes in, and one that has
written its event is out (`VisitAt`). Tokens, resends, lists and token revocations are steps
the gate does not see.

`shipment` and `token` are the rows;
status values are those of the enum. The `draft` and `ready` statuses exist in the enum
and in guards but no code writes them, so runs reach `uploading` only. `events` counts
successful `download_events`. A request in `req` walks through `GenerateDownloadURL`:
`ReadToken`, `ReadShipment`, `CountDownloads`, `CheckLimit`, `CreateDownloadEvent`,
`UpdateAccessTokenUsage`, `IncrementShipmentDownloadCount`, and carries what it has read
(time, limit, count); `Abandon` stands for refusals, errors and crashes. `late` is a
history field. `resend` is a resend handler between its read and its inserts; `deleting`
are deletes whose second revocation is outstanding; `worker` a cleanup run with its
listed batch.

Left out: files (`UploadFlow`), password and windows (`AccessGuard`), mails
(`MailDelivery`), audit rows (`AuditOutbox`). `ShipmentOf` fixes the shipment of every
token that may be generated; it is not state of the program.

### UploadFlow
The three calls that open a session, the three that complete it, and the purge's one call
per object are steps of their own, S3 being external: a multipart upload becomes an
object once, and completing it again may succeed or fail but makes no second object.
`FileAllowed` is what PostgreSQL demands of the completing transaction (foreign key,
`UNIQUE (storage_key)`, `status <> 'completed'`). The cascade sets both references of a
session to NULL. Time is reduced to `GracePassed`. `sent` stands for `sent` and
`accessed`. `answers` is history. Expiry of a session is not in the model: the code
stores `expires_at` and reads it nowhere.

### AuditTrail and AuditOutbox
`AuditTrail` is the promise: an operation is performed once, its success event is
appended once and only afterwards, and a repeatable operation adds one per repeated answer.
`AuditOutbox` is the code: requests that commit a business update with its outbox row
(`Commit`, `CommitWithError` when the acknowledgement is lost), refuse, repeat or fail
after the commit; the middleware's own row (`Record`, unless `Suppressed`); workers that
`Claim` rows (FOR UPDATE SKIP LOCKED LIMIT), `Deliver` them and `DeleteProcessed` ones.
Claim and deliver are one SQL statement in the code; they are two steps here, so that the
locks are visible to other workers. The refinement maps `done` to committed operations,
`appended` to delivered rows, and `successes` to delivered plus directly written ones.

### MailDelivery
A handler goes from recipient to recipient: the token (resend only), the row as `queued`,
the message. `event` is the table in the order of its ids, `queue` the messages not deleted
yet, `mailed` what SES took. A worker receives a batch without taking it out of `queue`,
sends, marks and deletes message by message; it may be told of a failure that was none
(`EnqueueUnanswered`, `SendFails`, `DeleteFails`), and may restart anywhere. A received message may be
received again by anybody: its visibility timeout is not modelled. `delivered` counts
receptions up to two. Readers take the owner's views apart into their statements: a request
looks the shipment up once (`GetDetail`, `GetPage`), and a purge may come before any of its
later statements, which then find no rows. Retention and dead-letter queue are a matter of the
deployment, and left out.

### OrgSeats
`invitation` is the table in the order of its ids, with the row lock in it; `orgLock` the
lock of the organization's row. One state machine per handler: direct addition (no lock,
count, insert, synchronise, perhaps undo), removal, creation and resend of an invitation
and its revocation when the enqueue fails, acceptance (resolve without lock, then one transaction with both
locks). What a creation or an acceptance reads before its transaction is one step, since the
transaction looks again at all of it but the role of the actor. `GiveUp` ends a handler
anywhere and frees its locks; a handler whose revocation was written ends as `refused`. `peak` is the greatest number
of seats so far. `overtaken`, `revived` and `joined` are history: who was counted
before others came, and what was resent after it had expired. The subscription is one number here; `Billing` says where it
comes from.

### Billing and ShipmentQuota
`stripe` is the truth at Stripe and `events` every event it ever told, each deliverable at
any time and again. `row` and `latest` are the table and its newest row. A handler that
changes members synchronises in steps: read the row, count, set the quantity, write the
row. `ShipmentQuota` extends it with the count of the month: drafts are rows, and
`GetPlan`, `EnforceShipmentLimit` and `FinalizeShipment` are three steps. `free` and
`overlapped` are history.

### RateLimiter and AccessGuard
`RateLimiter` is the table of the middleware: `NewWindow`, `SameWindow` and the room made
in a full table, with the address a request is counted for (`ClientIP`). `AccessGuard`
extends it: requests pass the limiter, then `VerifyAllowed`, the comparison, and
`RegisterVerifyFailure` or `ResetVerify`; downloads validate the grant and pass the window
of an address, which is another one: the handlers have a `clientIP` of their own that takes
the first of the header, whoever sent it, so that a client goes by any address it
writes (`NamedBy`). Mutexes make each call one step, and reading the clock is part of it. A restart
empties the tables, but not the browsers.

A statement on "any time of a window's length" is not one on a state. The observer `watch`
picks any moment and one thing to count from then on, a client's requests, the guesses, or
the downloads of an address: a bound on its count is the bound for every such time.

### AuthSessions
Rows of `users` and `sessions`, the cookie in each browser, and requests statement by
statement: `OptionalAuth`, for a logout `RequireAuth` after it, then register, login,
logout, and the two requests of an upload, of which the second must be the owner's. Answers reach the
browser in any order or not at all. `with`, `by` and `late` are history.

`MC*` modules give the constants their values, a symmetry set, and, where the product of
everything is out of TLC's reach, a bound on what runs together (next section).

## 3. Runs

| Run | Question | Instance |
|---|---|---|
| `ShipmentAccess_lifecycle` | limit under concurrency, the three tallies, late access, refinement of `ShipmentGate`, grace period, types | 1 shipment, 2 tokens, 3 requests, a resend, a worker, clock to 4 |
| `ShipmentAccess_cleanup` | are expired shipments closed and deleted ones purged (liveness) | 2 shipments, batches of one |
| `UploadFlow_files` | file rows have objects, answers agree, completed sessions name their file | 1 shipment, 2 sessions, 2 files, 2 completes, 2 finalizes, 2 cleanup workers |
| `AuditOutbox_trail` | nothing unaudited, disjoint batches, refinement of `AuditTrail` with its liveness | 2 operations, 2 requests, 2 workers, batches of one |
| `MailDelivery_mails` | what rows, mails, tokens, messages and views may say of each other | 1 recipient, a finalize, a resend, 2 workers, a reader |
| `MailDelivery_drain` | every message leaves the queue (liveness) | a mail and a message that does not decode, 2 workers |
| `OrgSeats_seats` | seats, reserved seats, links used twice or late, pending without mail | 3 accounts, 2 seats, one or two invitations at the start, two acceptances, two inviting handlers, an addition, a removal, a change of the subscription |
| `Billing_plans` | rows against what Stripe told, the monthly limit | 2 subscriptions, 3 events, an addition, a removal, 3 drafts, limit 2 |
| `AccessGuard_gate` | requests, guesses and downloads per window, types and table bound, end of grants | 3 clients and room for two, 2 checks, 2 downloads, limits and windows of 2, clock from 1 to 5 |
| `AuthSessions_logins` | whose sessions, late requests, owner's uploads | 2 accounts, 2 passwords, 2 tokens, 2 requests of one browser, one upload |
| `ShipmentAccess_expiry`, `Billing_refused` | two statements of the documents that the code does not keep (section 6) | minimal |

**Bounds, and why they are enough.** Three requests allow an overshoot of two; two tokens
of one shipment separate per-token from per-shipment tallies; a clock of 4 with all periods 1
lets a shipment be drafted, sent, deleted, pass the grace period and be purged while a
request or resend is still under way; batches of one with two shipments make a run leave
something to the next. Two completes of one session race, two purges of one shipment
overlap, and two sessions put two files in a shipment; no step there meets two shipments.
With two operations, one repeatable and one that works after its commit, two requests
cover a first answer, a race and a repeat. Two workers receive one message twice and
mark it in either order. Two acceptances and two seats meet the last seat twice. Limit two
under three drafts is the least that two overlapping checks exceed. Windows of two ticks meet at a boundary within
four ticks, and the access ends before the last.
Two passwords for one address make a session of the wrong opener possible, and two requests
of one browser are enough for one to see the session of the other end between its two reads;
the proofs (section 4) cover more.

Runs of the cleanup worker that overlap are met by TLC in `UploadFlow_files` only; for the
lifecycle of shipments, where TLC has one worker, they are covered by the theorems.

Every named bound (`MaxClock`, `MaxLimit`, `MaxEvents`, `MaxChanges`, `MaxTogether`, the sets of ids) is a
constant of the model, not of the code, except limits, periods, `BatchSize`, `MaxMessages`, `PageSize` and `MaxEntries`.

What runs together is bounded in five MC modules:
- `MCShipmentAccess`: either all three requests against the owner before the clock moves, or one request against everything else.
- `MCMailDelivery`: a reader under way meets resting workers. Readers look at which rows
  there are, and workers change only what rows say.
- `MCOrgSeats`: handlers, changes and invitations of the start are five at most in a behaviour; a handler that has neither
  committed nor locked anything does not fail there, it just stays.
- `MCBilling`: events, handlers and drafts together at most five, the first draft counted twice.
- `MCAccessGuard`: the limiter, the attempts and the downloads each with as little of the
  others as they need, the first two until the end of the access; none reads the others' tables.
  Two addresses have a download window at a time.

Deadlock is not checked where ids, the clock or handlers run out, and then all processes
may rightly stop.

Type invariants of `MailDelivery`, `Billing`/`ShipmentQuota` and `AuthSessions`, and
`StatusOnlyAdvances`, are proved (section 4) and not run.

**Fairness.** Safety runs use none. `ShipmentAccess`: the cleanup worker's ticker starts
a run again and again (WF of `StartRun`, `EndRun`), and a statement or deletion that is
retried by run after run is not refused for ever (SF of the rest). Recipients and owners
have none. `AuditOutbox`: WF of claiming and ending a run, and SF of delivering each row,
since a row whose delivery rolls back is claimed again at the next poll. SF of `Deliver`
alone would not do: a worker could roll back each batch with a row and commit only empty
ones. `MailDelivery`: a worker goes on (WF), and per message SQS hands it out, SES takes it
and the deletion succeeds if tried again and again (SF): failures and restarts may happen
any number of times, not for ever. Handlers and SES's permanent refusals get no more than that: a
message SES never takes would stay, and what ends it, retention, is not in the code.

## 4. What is proved

`ShipmentAccessProofs` (any sets of shipments, tokens, handlers and workers, handlers
finite; any limits, periods and batch size, under `ConstantsAssumption`):
- `TypeCorrect`: types. Everything below rests on it.
- `OvershootIsBounded`: successes stay below `max + |Requests|`. The invariant counts a
  request that has read a count below the limit as if its event were written
  (`LimitWithInFlight`); it needs that only finalized shipments have readers or events, so
  that `max` no longer changes.
- `NoLateAccess`: a request marked `late` never passes the check of the shipment row. Needs
  that a token exists for finalized shipments only, so that an ended shipment stays ended.
- `StatusAdvances`, `PurgedAfterGrace`: action properties; the latter needs that whatever
  a run has listed for purging was deleted more than the grace period before.
- `TalliesCorrect` (finitely many tokens): a request between two of its three writes stands
  for the one that is missing (`TallyInv`), and tokens live as long as their shipment. The
  sum of the uses is a fold; the proof counts uses one by one (`UsesIn`), and the fold yields
  that number, since there is no smallest set of tokens for which it does not (`UsesCounted`).
  That needs no induction theorem, only that finite sets are well-founded.
- `GateCorrect`: initial states and every step map to `ShipmentGate` or stutter (`GateInv`). A
  resend or token changes no stage, since tokens exist for finalized rows only; late requests stop
  at the check of the row; who was granted a URL saw a count below a limit that has not changed
  since, as finalized rows keep theirs; a run purges deleted rows only; and purged ones
  have no events and let nobody take them again.

`AuditOutboxProofs` (any operations, workers, batch size; finitely many requests):
- `TypeCorrect`, `NoOperationUnaudited`, `RowsClaimedOnce` from one inductive invariant
  `IInv`: row, event and business update belong together (`RowInv`), claimed rows are
  pending and nobody else's (`LockInv`), and a request's state tells what is committed
  (`RequestInv`).
- `OutboxKeepsTrail`: initial states and every step map to `AuditTrail` or stutter. Only a
  recorded repeat changes the rows written directly (`DirectRows`), and a delivered batch
  was not delivered before (`RowInv`, `LockInv`).

`MailDeliveryProofs` (any workers, readers, messages and batch sizes; finitely many
recipients and handlers): `TypeCorrect`, `SentCorrect`, `NothingIsLost`, `TokensKnown`. The
invariant ties each row to the handler that wrote it (its message is out, or is the one the handler is
about to enqueue), and what a worker holds or has sent to rows and mails. On top of it:
- `RedeliveryCorrect`: until a message is received again it has one holder, which is through
  with the row once it has marked it as sent (`OnceFine`).
- `WalksCorrect`: of the rows of the first page those were seen that are now among as many
  newest rows as were passed (`WalkFine`): rows inserted since only push the others back.
- `DetailsCorrect`: until a purge takes them all, rows only come on top of those the summary
  counted (`DetailFine`); each has
  a place of its own among those of its recipient (`RowsPaired`), and the sum of the counts is
  the number of places (`PairsCounted`, like `UsesCounted`).

`UploadFlowProofs` (any shipments, sessions, files, handlers and workers): `TypeCorrect`,
`FilesCorrect`, `AnswersCorrect`, `SessionsCorrect`. The invariant follows a session: until
its row is there only the handler that opened its upload knows it (`CreatorFine`); the row
is completed once, together with its file (`SessionFine`, `FileFine`); what a handler has
read of it has not changed, or its shipment is purged (`CompleterFine`); what a handler is
about to answer is what the row and the other answers say (`AnswerFine`); and an object
that was stored is missing only if a file with its key belongs to a shipment that is
deleted or purged, which stays so (`ObjectFine`, `WorkerFine`).

`AuthSessionsProofs` (any accounts, passwords, browsers, handlers, tokens and uploads):
`TypeCorrect`, `SessionsCorrect`, `LateCorrect`, `OwnersCorrect`. The invariant says what a
request in each of its states has seen: an identity comes from a session that was live at the read,
a late request reads none, and who opened a session is never rewritten.

`BillingProofs` (any subscriptions, accounts and handlers, any number of events and
shipments): `TypeCorrect`, and `RowsCorrect` from the observation that what Stripe has told is never
untold (`EventsGrow`): a webhook writes an event, and a synchronisation that is about to write holds
a quantity that Stripe took and told, with the status Stripe had then. For `ShipmentQuota`:
`QuotaCorrect`: what was sent or has passed the check of the free organization (`Passed`)
stays within the limit and one more for each draft that overlapped.

`OrgSeatsProofs` (any accounts and handlers, any number of seats; adding, inviting and
accepting handlers finite): `TypeCorrect`, `SeatsCorrect`, `AcceptedOnce`, `MailsKnown`,
`StatusesFinal`. The invariant follows the locks. A locked row is pending and its holder is in
its transaction (`LockFine`), so that an acceptance still has the row it looked at
(`AcceptorFine`) and a status changes once. Whoever has counted members holds the
organization or was, if somebody came since, overtaken by or as a direct addition
(`SeatFine`); a member too many is thus charged to an overtaken handler that has inserted
its row or given up (`SpentFine`, stronger than `SeatsHold`). A pending invitation without
mail has its issuer at work or stopped by an error (`MailFine`): one that could revoke it did. Every row after the start
belongs to the handler that created it (`LengthFine`), which bounds the ids. `ReservedCorrect`:
seats taken and held stay within the bound once an invitation was created (`RInv`): what a
creation took for stale stays expired and locked until the creation ends, and whoever has
counted still finds the room it counted.

`AccessGuardProofs` (any clients, requests, limits, lengths of windows and size of the
table; finitely many verifying requests): `TypeCorrect`, `RequestsLimited`, `GuessesLimited`,
`DownloadsLimited`, `GrantsEnd`, for `Spec` itself, where TLC takes the three limits one by
one. Each bound has the same invariant: a window that began before the observer has counted
at least one more than it (for downloads, the window of the observed address); a window that is over showed it less than a full one; the
window that follows outlasts it. For guesses, a lock that outlasts the observer stops all
but the requests under way (`Flying`). `RoomMade`: a full table drops only windows that are over.

**Only model-checked:** liveness (ENABLED and fairness are out of the prover's reach). Every
invariant and action property that a passing run checks has a theorem.

## 5. Not modelled
- Audit record normalisation and HMAC, names, mail texts, rendering, invoices: data of one
  call, no state.
- The limits of size, retention and storage: they read and compare like the monthly limit
  that is modelled, and have the same gap between count and commit.
- `last_used_at` and the other columns nothing decides by; the origin check of CSRF, which
  looks at the headers of one request.
- Authorisation of owners and organization roles but for uploads; each is one read before
  the statements that are modelled.
- HTTP timeouts as such (a handler may stop anywhere), skew between clocks, PostgreSQL, S3,
  SQS, SES and Stripe beyond what the code relies on.
- Configuration, handlers, web frontend, migrations, deployment: no state of their own.

## 6. Where code and documents differ
With a run and its counterexample (`PROJECT.json`, findings):
1. `ExpiredOnlyPastExpiry`: a cleanup run marks a shipment expired that was finalized
   with a new expiry after the run listed it as an overdue draft.
2. `RefusedOnlyAtLimit`: the fiftieth shipment of a month is refused, because its own draft
   is counted.

Seen in the code while modelling, without a run of their own:
- The download limit is exceeded by concurrent downloads (`service/access.go:182`;
  `docs/secure-send-mvp-design-ja.md:64`, `README.md:595`); by how much is
  `OvershootBounded`.
- A shipment cannot be resent after its first download (`service/shipments_resend.go:61`;
  design document, line 299).
- Expired shipments keep their objects for ever: only deleted ones are purged
  (`store/queries.go:901`; design document, lines 68 and 129).
- A session opened before finalize or delete adds its file afterwards
  (`service/uploads.go:216`; `docs/multipart-upload-send-wizard-ja.md:67`).
- An object whose transaction failed is never deleted (`worker/cleanup_worker.go:118`;
  design document, line 560).
- A pending invitation may have no usable mail, when its handler dies after the commit
  (`service/org_invitations.go:123`; `docs/organization-invitations-ja.md:89`).
- The window of download URLs is keyed by the first address of `X-Forwarded-For`, whoever sent
  it (`http/handler/access.go:132-141`, `service/access.go:166`), where the documents have the
  header looked at from trusted proxies only
  (`docs/government-security-baseline-phase1-ja.md:38`, `:175`) and limit token and IP together
  (`README.md:231`). `DownloadsBounded` is therefore about the requests that go by one address; what
  bounds those of one client is the request limiter on that endpoint (`RequestsBounded`).
- The limiter counts by address and endpoint (`http/middleware/rate_limit.go:88-97`), where
  `README.md:227` has 100 requests a minute and IP for the whole API. `RequestsBounded` is about
  one key. A path that `normalizedRateLimitEndpoint` does not know, such as
  `/v1/invitations/{token}`, is a key of its own for every value in it.
- Members are checked against the seats of active and trialing subscriptions by the
  document (`organization-invitations-ja.md:80`); the code counts past_due, too.

Allowed by the model, contradicting no document, and worth knowing: a request whose commit
was not acknowledged leaves a `failure` event beside the delivered `success` event. A
synchronisation writes a status that is out of date, and lowers bought seats to the members
there are. A second checkout makes a second subscription, and the one written last counts.
A purge frees the place of a shipment in the month. The personal limit counts
organizations' shipments, too; `QuotaHolds` is about those of an organization. A detail that a
purge overtakes between two of its statements shows a total of notifications and no counts. A lost or late logout answer clears or leaves the cookie of
another login. The tables of `AccessGuard` are unbounded, and each process has its own.

## 7. What is left
Abstract specifications like `ShipmentGate` and `AuditTrail` for the mails and the seats, and the bound on
downloads as a theorem of `ShipmentGate` itself.
