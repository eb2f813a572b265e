# A TLA+ verification of the car rental backend

The backend is one Go process (Gin handlers, services, repositories) over
PostgreSQL, with Redis for rate limiting, MinIO for images and SMTP for mail.
It takes no lock across an HTTP request: a service reads rows and decides, and a
repository writes later, in a transaction of its own.  Several processes may
serve requests at once.  Almost everything that can go wrong lies in that gap,
so that is what the modules model.

## The system

| Component | State | Operations | Hard behaviour | Module |
|---|---|---|---|---|
| Rentals | `rentals` (status, car, dates) | create, approve, reject, cancel, status change | a validated status is written without a condition; the dates of one car | `RentalLifecycle`, `Availability` |
| Payments | `payments` (one per rental) | create, confirm, fail, refund | four writers of one row; a payment is never deleted | `RentalLifecycle` |
| Invoices | `invoices` (one per rental) | get-or-create, mark paid, void | marked in a second transaction; created from a payment read earlier | `RentalLifecycle` |
| Lifecycle worker | none | one statement an hour over rentals, payments, invoices | races every handler; READ COMMITTED snapshot | `RentalLifecycle` |
| Cars, maintenance | `cars.status`, `car_maintenances` | create, update, delete a window or a car | car status derived in read, list, write; whole rows written back | `FleetMaintenance`, `Availability` |
| Availability of cars | none of its own | check a span, filter a list by a day, calendar of a month | three queries that must agree; two reads without a snapshot | `Availability` |
| Accounts, e-mail verification | `users` (address, code, attempts, sent at, verified at) | register, verify, resend, profile | check-then-act on attempts and cooldown; late counts and saves; an address that changes meanwhile | `EmailVerification` |
| Sessions | `auth_tokens`, JWT | login, refresh, logout, logout-all | rotation in three statements; logouts against refreshes; answers out of order | `Sessions` |
| Roles, permissions | `users.role`, role in the JWT | change of role, `cmd/seed` | stale role in a token; mutual demotion | `AdminRoles` |
| Rate limiter | Redis counters, in-process table | one count per request | INCR, EXPIRE, TTL are three commands, each may fail; fallback with the time of arrival | `RateLimiter` |
| Audit log | `audit_logs` | insert after a change | error dropped; tells what was read before | `AdminRoles` (changes of role) |
| Notifications | `notifications` | insert, list unread, count unread, mark read | best effort after the change; two handlers tell in any order | `Notices` |
| E-mail sender | SMTP | send | best effort after the notice | `Notices` (mails about rentals) |
| Reports | none | two queries | none | not modelled |
| Images | MinIO | put, get | outside service | not modelled |
| HTTP shell, configuration, database, commands | none | routing, limits, logging, migrations, seed | none | not modelled |

How they interact.  A rental, its payment and its invoice share the rental id and
are changed together: confirming a payment confirms the rental, failing or
refunding one cancels it and voids the invoice, the worker cancels an unpaid
rental whose dates passed together with its payment and invoice, and a rental
status decides whether a payment may be created.  Maintenance writes
`cars.status`; creating a rental reads it and the maintenance windows and is
refused when the car is out of service.  Every handler also writes a
notification, a mail or an audit row after its change and ignores the result.

What makes each correct:

* rentals: no car is booked twice on one day; past rentals free their dates; a
  car is handed over only when paid; a closed rental holds no open payment;
* payments: settled once, never revived; one that expired is resolved;
* invoices: "paid" only for money collected, void for ever once voided;
* cars: in maintenance exactly while a window is open; a car taken out of the fleet
  (inactive) stays out until somebody edits it or opens a window of it, which makes it
  come back as available when no window is left; what else is edited by hand stays;
* accounts: guesses on a code and codes sent in a cooldown are limited, however
  requests race, and an account is verified for the address it has;
* sessions: a refresh token is used once, a login never forks, and a login that
  has ended stays ended;
* availability: the ways to ask for free days agree, and a booking rests on checks
  that still hold;
* roles: no super administrator is lost while every actor is one; a role that was
  taken away dies with the tokens that carry it;
* audit log, notices, mails: the newest tells the present state, unless something
  that may go wrong did;
* rate limiter: a client that is refused is let in again, when it was told; the
  table of a process keeps to the limit.

`PROJECT.json` lists, under "hazards", the lines where this can go wrong and the
properties that look at each.

## Modules

**`RentalLifecycle.tla`** is the core.  `status`, `booking`, `payment` and
`invoice` are the columns of the three tables, by rental id (`UNIQUE rental_id`);
`today` is the date every process reads; `req[q]` is what an HTTP request has
decided and not yet written.  A handler is two actions: `Approve(q)` is the
service (`rental_service.go`) reading the row and validating it, `WriteStatus(q)` the
repository transaction, which no longer looks at what the service saw.
`Confirm`, `Fail` and `Refund` are one repository transaction each;
`Confirm` goes on to `MarkPaid`, a transaction of its own whose failure is
dropped.  `Abandon(q)` ends a request at any point: a refusal, an error, a dropped
connection or a crash.  The PostgreSQL exclusion constraint of migration 010 is
`ConstraintAllows`, a conjunct of every statement that could break it.

Transactions are atomic steps.  They are short and touch the rows of one rental,
except the worker's statement, and for all pairs but one the result of an overlap is
that of a serial order (or the worker leaves the rental to its next run).  The
exception is `SyncDuringCreateForRental`: at READ COMMITTED the worker waits for
the rental row a payment creation holds, then cancels the rental, but its
snapshot misses the new payment.  The constant `WorkerOverlaps` allows or
excludes it.

**`ReservationCalendar.tla`** is the abstract specification: a holder set for
each car and day, and steps that reserve a whole free booking, or release
whole bookings.  `RentalLifecycle` implements it (`CalendarSpec`) with the
blocking rentals as holders.

**`FleetMaintenance.tla`** models `cars.status` and `car_maintenances`.  After
its own write a request syncs each car the window touches in separate steps:
`ReadCar`, one or two `List` (the scheduled, then the in-progress windows),
`WriteCar`, which writes the whole row read.  `suspect`, `disturbed` and `retired` are
history and appear in no guard: the cars for which some race or mishap has happened since their last clean
sync, the requests whose reads are out of date, and the cars set inactive while no sync
had read them and no window was open (`Retire`).  `Interrupt` is a sync that fails
after the window was committed; `EditCar`, `DeleteCar` and `CreateCar` are the
administrator's edits of cars; the constant `Mishaps` allows them.
Dates of windows are not state: they can only refuse a request (`Refuse`).

**`Sessions.tla`** models `auth_tokens` and the refresh cookie.  `token` holds the
rows, `cookie` the value each browser has, `req[q]` what a request has still to do:
`Login` and `Refresh` are the service up to its first write, `Rotate` the conditional
`RevokeByHash` of a refresh, `CreateToken` the insert, `SetCookie` the answer
reaching the browser, in any order or never (`Abandon`).  `LogoutAll` is one UPDATE.
`login` is history: the first token of the login that a token continues.  Access
tokens are not state: no row is read to accept one, so a logout cannot end them.

**`LoginHolders.tla`** is its abstract specification: a login begins with one holder, is
handed from its holder to the next, and is over once it has none.  `Sessions` implements it
(`LoginsSpec`): the holder is the live token of the login, or the request that has revoked
one and has yet to insert its successor.

**`EmailVerification.tla`** models the address and the verification columns of `users`.  Codes are
numbered by account; `expired` and `cooling` are what the dates of the row say
by the clock, which `CodeExpires` and `CooldownEnds` move.  A request reads and decides
(`Register`, `ResendEmailVerification`, `VerifyRightCode`, `VerifyWrongCode`), then
writes without a condition (`SaveEmailVerification`, `MarkEmailVerified`,
`IncrementEmailVerificationAttempts`).  `hashed` is the address that went into the hash of
the saved code.  `UpdateProfile` is one UPDATE by the bearer of an access token, which only
verified accounts are given (`MaySignIn`).  `LoseCount` is a count whose error the
service ignores.  `wrong`, `lost` and `sent` are history: wrong guesses compared
with the present code, those never counted, and codes saved in this cooldown.
Both modules take the accounts as given: `Sessions` those that are verified, where
`MarkEmailVerified` has taken them.

**`RateLimiter.tla`** models one API process and Redis.  `counter` holds the Redis
keys with what TTL would answer, `table` and `swept` are `visitors` and `lastCleanup`,
`req[q]` is the command a request is about to send and how long ago it took the time.
`Incr`, `Expire` and `Ttl` are the three commands (the last with the answer to the
client), `Fail` an error at any of them, with the command done or not,
and `CheckLocal` the critical section of the fallback.  `Restart` is a new
process over the same Redis.  Times are relative to the present, so that time has
no bound and `Tick` can be fair.  `lost`, `promise` and `passed` are history: counters
whose creator can no longer send EXPIRE, the soonest Retry-After sent for a
counter, and the requests the table let through in the last window.
A `lost` counter refuses its client for good: that is what the code does, and the
properties say so by excepting it.

**`Availability.tla`** takes apart what `RentalLifecycle` leaves whole: the transaction
that inserts a booking.  `car` holds the status and rate, `rental` and `work` the dates
that block.  `FindCar` and `CheckAvailable` are the service, `LockCar`, `CheckRentals`,
`CheckWorks` and `Insert` the statements of `CreateWithAvailability`.  `Lockable` is what the
`FOR UPDATE` on the car holds up: other bookings, writes of the car, inserts of
windows and those updates that change the car, by their foreign key.  `CalendarRentals` and
`CalendarWorks` are the two reads of the calendar, `SyncRead` and `SyncWrite` the sync of
`FleetMaintenance` with the other columns of the row; which status it finds is free
here.  The other components appear as what they write: `Release`,
`Revive`, `EditCar`, `CreateWork`, `UpdateWork`, `DeleteWork`.  History (no guard reads it): the rate
set last and whether a sync took it back, rentals revived and windows moved
since a check, days that were free since a calendar's first read, and days on which a
rental was written over an open window.

**`AdminRoles.tla`** models `users.role` and the copies of it that signed access tokens carry.
`ReadUser` and `GenerateToken` are login, refresh and verification; `Admit` the middleware, which looks
at the token only; `FindTarget`, `UpdateRole`, `Audit` the handler's read, write and
audit row, `LoseAudit` the row that fails or is cut off.  `Seed` is the command that makes a
super administrator; it leaves no row.  Lifetimes are ticks left, so time has no bound.
History: the role before the last change, requests overtaken by another change of their
target, accounts whose newest row may be wrong.

**`Notices.tla`** models what a customer hears of a rental.  The handler reads (`FindRental`), the
service reads again and decides (`ValidateUpdate`, or `Validate` for approve, reject and
cancel), `WriteStatus` is the repository, then `Notify` and `Mail`, each of which may fail
(`LoseNotice`, `Abandon`).  `Reread` is the administrator's cancellation, which tells what it
finds.  `SilentChange` stands for payments and the worker, which tell nobody.
`UnreadPage`, `CountUnread` and `MarkRead` are the inbox.  `doubt` and `overtaken` are history.

**`MC*.tla`** add the symmetry sets, **`*_proofs.tla`** hold the proofs.

How they compose.  `RentalLifecycle` treats a booking as one transaction and a refusal
because of maintenance as `Abandon`: it allows every creation the code allows, and more.
`Availability` shows what the statements of that transaction guarantee against the writes
of the others, with the rental reduced to "blocks or not".
`FleetMaintenance` gives the car status that `Availability` takes as it comes.  `Notices` takes the
status machine of `RentalLifecycle` without the payments.  `Sessions` and `AdminRoles` share the
login: one keeps the refresh tokens, the other what the access tokens say.

## Runs

| Run | Bounds | Shows |
|---|---|---|
| `rental_races` | 1 rental, 1 car, 2 requests, days 0-2, overlap with the worker | types, `CollectedBeforeService`, `PaidInvoiceIsCollected`, `PaymentNeverRevived`, `VoidIsFinal`, and `EndedRentalsReleased` under fairness |
| `rental_overlap` | 2 rentals, 1 car, 2 requests, days 0-1, overlap with the worker, no invoices | `NoDoubleBooking`, and the refinement `CalendarSpec` |
| `rental_serial` | 1 rental, 1 request, days 0-3, no overlap | the validations alone keep `OpenPaymentBacked`, `PaidInvoiceIsPaid`, `CompletedNotCancelled`, `ExpiredPaymentsResolved` |
| `fleet_sync` | 2 cars, 2 windows, 2 requests, mishaps | types, `StatusFollowsWork`, `RetiredStaysInactive` |
| `booking` | 1 car, 2 rentals, 1 window, 2 requests, 2 rates, 2 days, a month of 1 | types, `ViewsAgree`, `ChecksHold`, `FreeDaysWereFree`, `RateIsKept` |
| `sessions` | 2 users, 1 browser, 3 tokens, 3 requests | types, `OneLiveTokenPerLogin`, `LogoutEndsWhatItRevokes`, and the refinement `LoginsSpec` |
| `roles` | 2 accounts, 2 roles, 1 token at a time, 2 requests, lifetime 2 ticks | types, `StaleRoleIsShortLived`, `AuditTellsTheRole`, `LastSuperAdminLostToAStaleActor` |
| `notices` | 1 rental, 2 requests, pages of 1, inbox of 2 | types, `CustomerKnowsTheStatus`, `UnreadPageHidesNothing` |
| `verification` | 2 accounts, 3 addresses, 2 requests, limit 2, 3 codes, 1 lost count | types, `WrongGuessesBounded`, `SendsBounded`, `VerifiesPresentAddress` |
| `rate_limits` | 1 client, 2 requests, limit 2, window 2 ticks, 1 tick on Redis | types, `ExpiryIsOwed`, `RetryAfterIsKept`, `TwoWindowsAtMost`, and `RefusedIsReadmitted` under fairness |
| `closed_race`, `fleet_race` | 1 rental, 1 car | see Findings |

Why the bounds are enough.  The rows of different rentals meet only in the
exclusion constraint, which compares two rentals, so one rental suffices for the
payment and invoice properties and two for the calendar; no action reads an
invoice to write another row, so the calendar run leaves them out (`NoInvoices`).  A lost update needs
one late writer and one other: two requests beside the worker.  Three days
give a before, a during and an after to a one-day rental.  A maintenance update
touches at most two cars, and a race needs two requests.  Several browsers differ
from several tabs of one only in that they do not disturb each other's cookie;
three tokens are a login, its successor and another login, three requests two
rivals and a logout.  Accounts meet only in the unique address: two, and a third address
to move to.  The limit 2 stands for 5; two requests are two guesses, two resends or one
of each, and a third code and a lost count are one more than they need.  In
`rate_limits` a tick is a second, the most a request spends on Redis (dial timeout and
connection deadline, half a second each); two requests are one that creates a
counter and one that meets it half made; a window of two ticks is the least in which
a late request falls beside it.  Counts above the limit are alike (`OneMore`).
In `booking` a lost check needs a booking and one other: a second booking, or the writers
that need no request id; a second day makes spans that overlap in part, and a month
shorter than the horizon makes ranges that reach over its end.  In `roles` the last super
administrator takes two accounts and two requests; tokens are signed again as they
expire, and `admin` differs from `customer` nowhere in this route.  In `notices` rentals do
not meet; a page of one beside an inbox of two is the least in which a limit hides a row,
and a second request is the least that overtakes.
Clients meet only in the cleanup, which one client's requests do too.  The bound `LastDay` on the
calendar stops only the clock.  In `fleet_sync` ids are not reused,
and in `verification` a verified account has nothing left to do, so the models may
come to a stop (`CHECK_DEADLOCK FALSE`); the server does not.

Some properties except, by history, the very failure that their hazard names, because the code
has that failure: `CompletedNotCancelled` (by its serial run), `ExpiryIsOwed` and `RefusedIsReadmitted`
(`lost`), `LastSuperAdminLostToAStaleActor` (stale actors), `AuditTellsTheRole` (`suspect`,
`disturbed`), `LogoutEndsWhatItRevokes` (a token another request revoked), `RateIsKept` (`reverted`), `CustomerKnowsTheStatus` (`doubt`),
`RetiredStaysInactive` (a sync under way at the edit).  They show that nothing else breaks the promise, and
the note of the hazard in `PROJECT.json` says so.

Each property of a passing run has a mutant in `PROJECT.json`: an operator such as
`ConstraintOfMigration003` that puts a plausible bug in place of a definition
and makes TLC refute the property.  Mutants stand beside what they replace.

**Fairness.** `FairSpec` assumes only `WF_vars(SyncLifecycle)`: the worker's
ticker runs the statement each hour whatever the last run returned
(`runRentalLifecycleWorker` in `app.go`).  No request is ever forced, none need finish,
and no day need come.  In `RateLimiter` time goes on and a request in the limiter
proceeds or fails, since every call to Redis has a deadline; clients and restarts
are not forced.

## Findings

* `closed_race`: a status write validated before a payment was created closes the
  rental after it; the payment stays open, and may already be paid.  The rental
  update has no condition on the status or payment that was read.
* `fleet_race`: two maintenance requests on one car leave it available
  with an open window, and nothing repairs it until the next sync of that car.

The proofs say how far each reaches: `ClosingIsSafe` and `ApartRequestsAreSafe` show that
without such an overlap on one rental or one car neither can happen (see Proofs).

More is worth a reviewer's look and has no run of its own, although the models reach it:

* the worker, overlapping the creation of a payment, cancels the rental and
  leaves the payment pending (`SyncDuringCreateForRental`);
* a rental cancelled by a failed payment can be approved again, and its customer is told
  to pay (`rental_handler.go:318`), but the failed row forbids a new payment;
* a logout that finds its token revoked by a refresh of another tab takes that for
  logged out and says so; the refresh then inserts the successor, and the login goes
  on (`LogoutEndsWhatItRevokes` speaks only of tokens a logout revokes itself);
* two super administrators can demote each other: each is admitted while the other
  still is, and none is left (`LastSuperAdminLostToAStaleActor` allows just that);
* a rental approved again, or a window moved, lies over the other: neither looks
  (`clash` and `moved` in `Availability`);
* an address changed in the profile counts as verified, without a code
  (`UpdateProfile` keeps `email_verified_at`);
* an overtaken sync takes back a rate or plate edited by hand (`reverted`);
* the same sync takes back a status set by hand, so a car just made inactive may come back
  (`Retire` leaves out a car that a sync has begun to read);
* maintenance forgets that a car was inactive: a window makes it `maintenance`, and its
  end `available`, without any race (`maintenance_service.go:144`, `:152`);
* mails have no deadline after the dial: a server that stops answering holds the request,
  and the audit row comes after the mail.

Further: a connection lost between INCR and
EXPIRE, or a process that dies there, leaves a counter that never expires (`lost` in
`RateLimiter`; Redis keeps it over restarts); a Redis URL that does not parse is
logged as `redis_rate_limiter_disabled`, but the nil store becomes a non-nil interface and
every request fails (`app.go:101`, `app.go:129`); a rate window below one second
truncates EXPIRE to 0; a status write validated while
the payment was paid activates a rental refunded in between (the same missing
condition as in `closed_race`), and `docs/openapi.yaml` says that a refund
cancels the rental, but a completed one stays completed.

## Proofs

The theorems hold for any number of rentals, cars, days, requests, windows, users, tokens and
clients, accounts and addresses, days of a month and lengths of a page.  They assume the named assumptions on the constants, nothing else:
`LastDay`, `MaxCodes`, `MaxLost` and `MaxNotices` are natural numbers, `MaxAttempts` a positive
one, the rate limit, the window, the lifetime of a token and the page are positive, the month lies within the horizon, there is a rate, `customer` and `super_admin` are roles, the time on Redis is a natural
number of ticks, `WorkerOverlaps` and `Mishaps` Booleans, the sentinel "none" is no car, token,
user or address, and the requests of `EmailVerification` are finitely many.

*Rentals.* The properties are not inductive: `WriteStatus` writes whatever it was
told.  `IInv` adds what a request holds while it waits: a decision to
set `confirmed`, `active` or `completed` was taken when the money had been collected,
and collected money stays `paid` or `refunded`; an invoice to be inserted as
"paid" likewise; a rental a request names exists, and its booking never changes
(`DecisionsHold`, `RowsHaveRental`).  From it follow `DoubleBookingExcluded` (the
exclusion constraint is a guard of every write that enters a blocking status),
`ServiceIsCollected`, `InvoicesAreTruthful`, and the action properties
`PaymentsOnlyForward` and `VoidStaysVoid`.  `ImplementsCalendar` shows each step to
reserve one booking whose days are free, to release bookings, or to leave the
holders alone, with `NoDoubleBooking` as the fact that makes the days free.

*Rentals, undisturbed.* `OpenPaymentBacked`, `PaidInvoiceIsPaid`, `ClosedHasNoOpenPayment` and
`CompletedNotCancelled` are false when requests race, so the theorems about them have a
hypothesis on the behaviour, `[][Undisturbed]_vars`: while a request to set a status,
insert an invoice or mark it paid is between its read and its write, nobody but the
worker writes that rental or its payment.  A row lock from the read to the write would
give just that, and the code takes none; other rentals, other requests and the
worker's ordinary runs go on as they like (`~WorkerOverlaps` excludes the run that
overlaps a payment's creation).  `SInv` says that the status of a rental and that of its
payment fit, and that what each request is about to write still fits (`Current`), which the
worker keeps: it touches a rental only where the result fits as well.  `SerialRequestsAreSafe`
is the corollary without the hypothesis, for one request in flight and any number of
rentals: what the validations of the service are written for.

*Fleet.* `IInv` says, for each step of a sync that nothing has disturbed, what
its earlier reads still prove: the car row read is the row in the table, no window
of the statuses already listed is open (`ReadsHold`).  Every action that
would falsify this marks the sync disturbed or the car suspect, so when the sync writes,
the status is right: `StatusIsFollowed`.  `RetiredIsKept` has an invariant of its own,
`RetiredInv`: a retired car is inactive and has no open window, and whoever has read it for a
sync has seen it inactive and found no window, so it writes nothing, disturbed or not.  Both conditions on
retiring are needed: a sync that has read the car before the edit overwrites it, and an open
window turns an inactive car into one in maintenance, which its closing makes available.
`ApartRequestsAreSafe` has a
hypothesis on the behaviour: no two requests in flight are about one car (`Apart`), none is
deleted under a request (`LeftAlone`), and nothing is cut short or set by hand
(`~Mishaps`).  Then `Clear` is inductive beside `IInv`: no car is suspect and no request
disturbed, a request knows which car its window belongs to, and the cars it is to
sync are there.  So `AvailableMeansNoWork`, which `fleet_race` refutes, takes two requests
on one car to fail, however many others overlap.

*Sessions.* A refresh between its revoke and its insert holds the whole login, so
`IInv` has, beside `OneLiveTokenPerLogin`: each login is renewed by one request
(`OneRenewal`), no token of it is live meanwhile (`RenewedIsNotLive`), and whatever
a cookie or a request names was issued (`TokensKnown`).  The conditional revoke is what
takes a login from live to renewed; `RotationIsLinear` and `EndIsFinal` follow, and
`LogoutIsComplete`: a token that is live when it is revoked was the only one, and no request renewed it.
`ImplementsLogins` maps each action to a step of `LoginHolders`: `Rotate` hands a login to the
request, which needs `OneLiveTokenPerLogin` for no other token to be left; `CreateToken`
hands it on or begins one, which needs `OneRenewal` and `RenewedIsNotLive`; a logout ends
the logins of the tokens it revokes, an abandoned exchange its own.

*E-mail verification.* The bounds count requests.  `GuessesAccounted`: the wrong guesses
on the present code are at most the attempts in the row, the lost counts and
the requests that have yet to count.  `SendsAccounted`: in a cooldown, codes sent
and codes about to be saved are at most the requests.  A guess is admitted
below the limit by a request that is not yet counting, hence
`GuessesAreBounded`; a code is asked for only outside a cooldown, hence
`SendsAreBounded`.  `MarksAgree`: a request about to mark an unverified account
holds the address the account still has, as only verified accounts change theirs
and none becomes unverified again; hence `AddressIsProved`.

*Rate limiter.* A counter without an expiry has at most one owner, the request that
created it (`OneOwner`), which came before anything was promised for it
(`PromiseWhileOwed`); so when its EXPIRE comes, at most `Delay` late, the promises
made meanwhile are wrong by no more (`PromiseWhileExpiring`).  `ExpiryComes` and
`RetryAfterHolds` follow.  `TwoWindowsHold` counts: the recent passes of a client split in
those of the window in the table, as many as its counter and at most the limit, and
those before, at most the limit and so old that they are forgotten when the next window
begins (`PassesInv`).  A request is counted up to `Delay` late, so a window may let pass
until `Delay` after its end; two windows are the bound over the window's length less what
`Delay` has beyond a tick (`Recent`; with a `Delay` of one, the whole window).

*Availability.* `TheViewsAgree` holds in every well-typed state: two spans overlap exactly
when they share a day.  The others need `IInv`: a car's row has one lock holder
(`LockExclusive`), so what a booking checked can only be changed by the writes that
pass the lock by, and those are on record; a sync that no edit overtook holds the
rate set last (`SyncsKnow`); and a day that was not rented at the calendar's first read and has
not been free since is one that has been under maintenance all along (`CalendarsKnow`), so the
second read finds it.

*Roles.* A token lives at most its lifetime (`TokensExpire`), and a request nothing overtook
knows the role of its target (`ChangesAreKnown`).  `LastSuperAdminIsKept` needs no more than the
types: a step that removes the last one demotes a super administrator, who
is not the actor, so the actor was none.

*Notices.* `ReadsAreCurrent`: what a request that nothing overtook is about to tell, or found
no reason to tell, is the status of the rental; `TellsMessages`: what will be told
has a message.  `UnreadPagesHideNothing` holds in every well-typed state: the number of newer
unread notices is a bijection of them onto the numbers below their count (`RankInjects`,
`RankHits`), and the page is the part that goes to the numbers below its size.

Left to TLC: the liveness properties (`EndedRentalsReleased`,
`ExpiredPaymentsResolved`, `RefusedIsReadmitted`), since the prover does not handle
fairness and ENABLED.  Every safety property of a passing run is a theorem, the first three of
`rental_serial` under the hypothesis above.

## Not modelled

Payment amounts and names: no decision reads them.  Audit rows other than those of a
change of role: they are written the same way.  Reports, images, the HTTP shell, configuration
and the commands other than the statement of `cmd/seed` change no state that another
part reads.  Repository methods without a caller, `Touch` on tokens among them.  Row locks of
payments: `Confirm`, `Fail` and `Refund` lock the payment before the rental, the worker the
other way round, and PostgreSQL aborts one of them on a deadlock; here that is an
`Abandon`.  Authorisation outside `AdminRoles`: any request may reach any handler.  Names, phones and
passwords of users: no decision modelled reads them.  The statement of `cmd/seed` in `EmailVerification`: it sets `email_verified_at` without a
code, on an address the operator names, so `VerifiesPresentAddress` speaks of accounts that it is not run
on (in `AdminRoles` it is `Seed`).  `LoggingEmailSender`, which stands in when SMTP is not
configured: it logs a mail and reports success, so the "mail" that a customer has had in
`Notices` is then a line in the log.  The mail with a verification code: a send ends with the
save, whether the mail goes out or not.  Notices to everybody (`user_id IS NULL`) are read
by the queries, but nothing inserts one.  A notice does not name its rental, so `Notices`
gives each customer one.

## Plan

1. Row locks of the payment transactions and the worker; the serial
   transactions of `RentalLifecycle` as its abstract specification.
2. The mail with a code that is sent after the save in `EmailVerification`.
3. `Availability` as an implementation of `ReservationCalendar`, statement by statement.
