# Verification of the manicure shop back end

The repository is the management system of a chain of nail salons: a NestJS
back end (`src/src`), a web console for the staff (`src/web`), a mini-program
for the customers (`src/miniapp`), MySQL (InnoDB) behind all of them. What can
go wrong in it, and is hard to reach with a test, is money and time that
several requests change at once: a payment order that a callback, a query job
and a clerk land together, a refund that two requests execute, a booking whose
sums two transactions derive, a staff member whose free hour two customers
take, the last visit of a card, the last of a credit limit, a coupon, a month of
commissions, a message that is retried. This directory models those parts in
TLA+, model-checks them with TLC on small instances and proves their main
invariants with TLAPS for instances of every size.

`PROJECT.json` lists the components, the runs, the source lines every
definition stands for, the hazards and the theorems.

    tlc -config RefundGates.cfg MCRefundExecution     # a run
    tlapm RefundExecutionProofs.tla                   # a proof

Source paths below are relative to `src/src/modules/biz/` unless they start
with `src/`.

## 1. The system

### How it works at run time

A Node process serves HTTP requests and runs cron jobs. A request is an async
function; every `await` lets others run. All shared state is in MySQL. Code
protects it in four ways, which decide the grain of every module here:

- a **conditional UPDATE** (`UPDATE ... WHERE id = ? AND status IN (...)`) and a
  look at `affectedRows`: one atomic step, guard and effect together;
- a **transaction**, whose plain reads see the snapshot of its first read
  (REPEATABLE READ, InnoDB's default and never changed) and whose updates see
  and lock the newest rows: a read step and one or more locking steps;
- **`SELECT ... FOR UPDATE`**: row locks, and gap locks on the index range read;
- nothing: a value **read before** the transaction and relied on within it. The
  models keep this gap wherever the code has it; most of section 5 comes from there.

### Components

Status *modelled* and *partly* name the module; the others are the inventory
for the plan in section 6.

| Component (source) | State | Operations | Hard behaviours | What makes it correct |
|---|---|---|---|---|
| Refund execution (`payment/refunds`, `payment/channels`): **modelled**, RefundExecution | `biz_refund.status`, `biz_payment.refunded_amount` and `.status` | apply, approve, executeRefund, reject | double click, retry, four kinds of channel failure, death in between, quota shared by several orders | one executor, landed once, never more than the payment, money out is covered by quota |
| Online payment orders (`payment/payments`): **partly**, PaymentLifecycle | `biz_payment.status`, `expire_at` | create, callback, active query, closing, landing, notice | callbacks lost, repeated, late; closed and paid at once; restart | collected once, acknowledged only if booked, everything paid is booked in the end |
| Booking settlement (`booking/booking-settlement.service.ts`, `bookings.service.ts`): **partly**, BookingSettlement | derived columns, `status`, `payable_amount`, `settled_at`, visit count | settle, land, recalc, transitions, complete, update, recount, remove | snapshots that miss each other, lock order, stale reads | columns follow the payments, completion counts once, no overcollection |
| Booking slots (`booking/slots.service.ts`, `bookings.service.ts`, recurrences): **partly**, BookingSlots | bookings' staff and time, row and gap locks | create, update, recount, generate, transitions | two requests for one hour, changes of the catalogue, deadlock | no two bookings of a staff member overlap |
| Member accounts (`membership/member-accounts`, `member-levels`): **partly**, MemberAccounts | two purses, points, points earned, spending, level, ledger | recharge, consume, reverse, adjust, recount, enrol | concurrent conditional updates, reversals cut at zero, rows read before the lock | the row is the sum of the ledger, never negative, points earned never fall |
| Member cards (`membership/member-cards`, `card-types`): **partly**, MemberCards | uses, status, expiry, use log | sell, use, revert, expire job, refund | two requests use the last time, expiry against use, refund twice | row = log, used up with the last use, money back once |
| Coupons (`membership/coupons`): **partly**, Coupons | template, coupons held | claim, issue, change and remove a template, preview, redeem | claims at once, redeem twice, template changed under a claim | claimed once, every discount has its coupon |
| Points goods (`membership/points-goods`): **partly**, MemberCards | stock, exchange orders | redeem, revert | last item, points and stock in one transaction, revert twice | stock and points return once |
| Recharge plans, members, points controllers | master data | CRUD, forwarding | none of their own | – |
| Credit and receivables (`credit/`): **partly**, Receivables | limit, used credit, receivables, payment rows | charge, settle, cancel, overdue job, change account | two bookings at the limit, two settlements, QR codes never paid | used = what is owed, charges within the limit, nothing settled is cancelled |
| Commission (`reports/commission`): **partly**, Commission | records, batches of a month | accrue, reverse, settle | two managers settle, refund against settling | a batch is its records, refunded is not paid out |
| Scheduling (`scheduling`) | weekly shifts, overrides, leaves | set, approve leave | a leave granted while a booking is made | no booking outside a shift without someone having been told |
| Recurrences (`operations/recurrences`): **partly**, Recurrences and BookingSlots | rule, `generated_until`, bookings generated | generate job, generate now, revoke window, pause, stop, delete | job and request at once, failure half way, cursor against revocation, payments that land on what was revoked or deleted | each start once, nothing revoked that was paid since it was listed, every day accounted for |
| Reconciliation (`payment/diffs`) | diff rows per day | run, resolve | rerun of a day, late bills | each difference appears once |
| Notices (`operations/notices`): **partly**, Notices | notice log, retry count | send, write in a transaction and flush, deliver, retry job, resend, reminders | lost answers, failing half way, restart, rerun of a job, a reminder by hand beside it | sent once unless an answer was lost, copies bounded, the job reminds once, what failed is retried |
| Reviews (`operations/reviews`) | one review per booking | create, reply | unique index | one review per booking |
| Reports (`reports/analytics`) | none | SQL aggregation | none | – |
| Base data (`base-data/`) | customers, staff, stores, services | CRUD | changes while bookings rely on them (in BookingSlots as `EditItem`) | – |
| Helpers (`common/`) | none | money, shop time, configuration | rounding at boundaries | quotation in cents adds up |
| Scheduled jobs (`src/src/modules/jobs`): **modelled**, Jobs | job rows, cron entries, `running` set of the process | create, update, remove, run, log, start and stop of the process | entry fires during a run, changes at once, failing half way, restart | barred exactly while it runs, entries are what the rows say |
| Authentication (`src/src/modules/auth`) | sessions, refresh tokens | login, refresh, revoke | several clients refresh together | one successor per token |
| System administration (`src/src/modules/system`) | users, roles, menus | CRUD | none of its own | – |
| Mini-program API (`src/src/modules/app`) | none | forwards with the customer of the token | those of the services | – |
| AI assistant (`src/src/ai`) | conversations, action intents, tasks | propose, approve, execute, expire | approving twice, executing after expiry | an approved action is executed once |
| Files, generator, monitoring, schema, console, mini-program | – | I/O, code generation, user interface | – | – |

### How they interact

A **booking** is created under the locks of its staff member (slots) with a
price (pricing, coupons, member level). **Settling** it writes a payment row:
cash, card or balance is collected in the same transaction, an online payment
is created as `pending` with a QR code. The **channel** notifies or is asked;
`settlePayment` moves the row to `success` and `deliver()` runs in the same
transaction: recalc of the booking, consumption and points of the customer. A
**refund** runs the other way: apply, approve (two gates), channel,
`executeRefund` with recalc and the reversals. `recalc` is the only writer of
the booking's derived columns and is called by all of these. **Jobs** complete,
miss, close, query, generate and expire, each calling the same services.

## 2. The modules

Names follow the source. Every detailed module states its type invariant
(`TypeOK`, `LifeTypeOK` and so on); constants have named assumptions; operators whose comment
starts with *Mutant:* are plausible bugs of the definition below them, used to
show that the properties can fail, and are part of no specification.

| Module | What it is | Used by |
|---|---|---|
| `RefundExecution` | detailed specification of refunds | `MCRefundExecution`, `RefundExecutionProofs` |
| `RefundLedger` | abstract: open, settle or refuse an order in one step | refined by `RefundExecution` |
| `Sums` | the sum of an amount over rows | the four modules with sums, `SumsProofs` |
| `PaymentLifecycle` | one payment order from QR code to booking | `MCPaymentLifecycle`, `PaymentProofs` |
| `BookingSettlement` | the money of one booking | `MCBookingSettlement`, `PaymentProofs` |
| `BookingSlots` | the time of the staff | `MCBookingSlots`, `BookingSlotsProofs` |
| `SlotCalendar` | abstract: reserve, release or waive a slot in one step | refined by `BookingSlots` |
| `MemberAccounts` | the account of one member | extended by `MemberCards` |
| `MemberCards` | cards and goods for points, with the account of their owner: the composition of the three services | `MCMembership`, `MemberCardsProofs` |
| `Receivables` | one credit account, the receivables of one booking and their payments | `AccountsProofs` |
| `Recurrences` | one rule, its runs and its bookings | `OperationsProofs` |
| `Commission` | records and monthly batches | `AccountsProofs` |
| `Coupons` | one template, its coupons, the bookings that redeem them | `MCCoupons`, `CouponsProofs` |
| `Jobs` | rows, cron entries and runs of a process | `OperationsProofs` |
| `Notices` | the log of messages, those who write and deliver them, the provider | `MCNotices`, `OperationsProofs` |

`PaymentProofs`, `AccountsProofs` and `OperationsProofs` each extend the modules of
several components, so the names of these say whose they are where two would
clash (`LifeSpec`, `CommissionSpec`, `JobsSpec`, `NoticesSpec`, `jobRow`).

They meet at rows: `RefundExecution` and `PaymentLifecycle` share
`biz_payment.status` (each appears in the other as an environment action or an
initial state), both land through the action `LandRead .. LandCommit` of
`BookingSettlement`, whose bookings are those `BookingSlots` creates and moves.
`Recurrences` takes up what `BookingSlots` abstracts of the generation (the
cursor, the dates, revocation) and leaves the locks to it. `MemberCards` calls
the actions of `MemberAccounts` within its own, as the services do within one
transaction. A landing of `RefundExecution` is one action of `Commission`
(`RefundLands`); a settlement of `Receivables` writes a payment whose later life
is that of `PaymentLifecycle` (`Lands`, `Answered`).

### RefundExecution

`refund` and `payment` are the two tables; `pc`, `cur` and `sawFull` are what
a request remembers between two awaits; `held`, `landed` are history and
`paidOut` is what the channel really did. A request runs

    Draft (resolvePayment and amount)  Insert   (apply)
    Approve  ->  Grab | GrabMiss                gate 1, conditional update
             ->  Reserve | ReserveRefused       gate 2, conditional update
             ->  ChannelPays, ChannelAccepts | ChannelDeclines | ChannelRejects | ChannelAnswerLost
             ->  LandRead, LandCommit | LandFails
             ->  Release, MarkFailed | Unreserve

with `Reject` by somebody else and `Abort` anywhere. The amount and mode are
chosen by `Draft` from what the code allows for the rest it read: before the
service the whole rest, afterwards any part. `executeRefund` is a transaction:
`LandRead` is its snapshot, `LandCommit` its writes; the status of the payment
is decided by the former and written by the latter. Corrections of account,
commission and booking are one counter, `landed`: what a property can tell is
how often they happen. The constant `Faults` selects which failures the
environment may inject, so that a run can say which promise needs which
assumption.

### PaymentLifecycle

`row` is `biz_payment.status`; `age` replaces the clock by what the code
compares (`expire_at` passed, look-back of 24 hours passed); `ch`, `exact`,
`sent`, `mail`, `acked` are the channel. A worker (`at`, `duty`, `source`,
`answer`, `won`) serves a callback (`Notify`), a manual query or is the loop of
`queryPending` (`JobQuery`); all share `Settle`/`SettleMiss`, the conditional
update of `settlePayment` with `deliver()` in its transaction, and `Reply`, the
notice and the answer after the commit. `CloseRead` and `CloseCommit` are
`closeExpired`. `Restart` empties every worker and leaves rows and channel.
`LeaveWindow` carries an assumption: an order leaves the look-back window of a
day only after a query that saw its final state was carried through. The job
runs every two minutes over the 200 open orders that expire last; the assumption
fails if the channel is unreachable for a day, or if more than 200 orders stay
open so long that an older one never gets its turn.

### BookingSettlement

One booking, any number of payments. `gross` is the price before the coupon,
`payable`, `money` (paid, back, base, settled) and `status` are the columns; a
derived sum is kept as the *set* of payments it was summed over, so that the
properties can say which payment is missing. `custLock` and `rowLock` are the
row locks, `seen` the snapshot of a worker's transaction. `Recalc` translates
the arithmetic and the order of its conditions (a full refund clears
`settled_at` before a due amount of zero could set it). `SettleRead` is what
`applySettlement` does before its transaction, `SettleBegin` the customer's lock
and the snapshot, `SettleCommit` its writes; `LandRead`, `LandWrite`,
`LandCommit` are the landing of a payment or a refund, which locks the booking
only when it writes it. `Rollback` ends any transaction without effect.

### BookingSlots

`status`, `slot`, `item` are the bookings, `spec` the catalogue; `staffLock`
the row locks of the staff, `held` the booking rows locked by
`findConflicts FOR UPDATE`. The gap locks are not a variable: a worker with
`pc = "write"` holds the gaps between the bookings of the staff member it
scanned, others may hold the same gaps, and nobody else may insert into them
(`GapFree`). Four kinds of work differ in what they lock and check:

| kind | code | staff lock | conflict check | customer check |
|---|---|---|---|---|
| create | `create`, `createForCustomer` | yes | yes, locking | before the transaction |
| move | `update` | old and new, ascending | yes, locking | before the transaction |
| generate | `generateOne` | no | yes, locking; skip or book anyway | no |
| recount | `recount` | no | no | no |

`StatusMove` is every conditional status update, `remove` and `revokeWindow`;
`EditItem` changes duration or buffer of a service. Starts come from `Times`:
the grid, the shift and the lead time are checked before the transaction and
assumed here. pending and confirmed are one status, as are completed, cancelled
and no_show: the time of the staff does not tell them apart.

### MemberAccounts and MemberCards

`member` is the customer row, `ledger` the sums `sumLedger()` takes over the
append-only table. Every operation starts with a lock or a conditional UPDATE of
the row and is one action; `ReversalPosted` has the arithmetic of a reversal
that is cut at zero and writes what is missing as an entry of its own.
Enrolling and the nightly recount of the levels are a Read and a Write, because
they rely on what they read before. `call` is what a card request saw in its
snapshot; its Commit repeats the code's conditional UPDATE, whose assignments
MySQL carries out from left to right (`UsedOnce`). `stock`, `redeem` are the
goods for points, `repaid` is history.

### Receivables

Nothing locks before it looks, so each operation is a Read (`Begin`) and a
Commit that repeats the conditions of the UPDATEs and rolls everything back when
one misses. `rows` are the payments of a receivable with the state of each;
`Lands`, `Answered`, `Closes` are the life of a QR code. `MarkOverdue` is the
daily job.

### Recurrences

A day is a date of the rule's weekday. A run reads the rule once (`GenRead`),
then for each day of its window looks (`GenLook`) and inserts (`GenInsert`), and
at the end moves the cursor (`GenFinish`); the unique index on rule and start is
the only tie between the look and the insert of two runs. `RevokeRead` and
`RevokeCommit` are `revokeWindow`; `ChangeRead` and `ChangeWrite` are `update`,
`pause`, `resume` and `stop`. What happens to a booking is `Ask`, a code shown
or a settlement that has read it; `Land`, the payment, which asks for neither
`deleted_at` nor the status of the booking and so may reach one that is cancelled,
revoked or deleted by then; `TakeOff`, a receivable cancelled; `Cancel`; and
`DeleteRead` and `DeleteWrite`, because `remove` reads the paid amount and its
UPDATE does not ask for it again. `rows[i].state` keeps `removed`, by hand, apart
from `revoked`. All of these, failures and changes are bounded together by
`MaxDisturbed`. `lost` and `late` are history: a revocation overtook a run, or
moved the cursor forward; a payment landed on a deleted booking.

### Commission

A completion accrues for all items in the transaction of the booking; a refund
reverses in its own. `settle` reads the records and the last batch without a
lock, and its UPDATE asks for the same status, batch and number of rows:
`BatchRead`, `BatchCommit` with `UnchangedSince`.

### Coupons

`ClaimLock` is the `FOR UPDATE` on the template; an insert of a coupon needs that
row for its foreign key and an update of the template needs it too, so both wait
for `TemplateFree`. `Preview` is the price `createForCustomer` computes before
its transaction, `RedeemRead` and `RedeemCommit` are `redeemForBooking` within
it; `Unused` is the condition of its UPDATE. `asked` is history: the status a
manager last asked for.

### Jobs

Everything between two awaits is one action: `execute()` asks for and enters
`running` in one. An entry holds the row it was made from. A change is a read, a
write, a read back and `Schedule`; a removal unschedules first and writes then.
`Stop` empties what is in memory, `Boot` makes the entries again, or fails and
makes none, as `onModuleInit` does when the database cannot be read.

### Notices

`notice` is the log; `task` is what a worker has still to write (`posts`) and to
deliver (`left`, with the retry count it will write). `Send` and `RemindNext`
begin a message, `Send` of any template and booking, because the manual send of
the back office restricts neither; `Post` writes the row of its next channel; `Enqueue` is the
commit of a transaction with the rows of `enqueueInTx`, `FlushRead` the look of
`flushPending` afterwards. All of them, the job (`RetryRead`) and a clerk
(`ResendRead`) end in `deliver`: `Deliver` for a message of the site and for a
closed gate, `Hand` and `Answered` for the provider, which may take a message and
lose the answer. `Fails` is a failing statement, caught where the code catches it;
`Restart` empties every worker. `accepted`, `unclear`, `byHand`, `manual`, `crossed`
are history; `crossed` are the reminders by hand about a booking that the job had
found without one and had still on its list. A row of a reminder is one of that template and of that day; the job of the reminders
runs once at a time, as `Jobs` has it.

## 3. The runs

Every run states what holds of one component; what the documents promise and
the code does not keep is in section 5, as formulas. Where a property holds
only without some failure, its run and its theorem name that failure:
`PaidOutIsHeld` without lost answers, `QuotaHasReason` without error answers
and dying requests, `SlotsExclusive` but for bookings a recount or a recurrence
has put beside others, `PaidIsKept` but for payments that land on what is
revoked already, `SentOnce` but for messages whose answer was lost,
`RemindedOnce` but for reminders by hand that come after one, or while the job
has the booking on its list. All
runs set `CHECK_DEADLOCK FALSE`: an instance has finitely many orders,
bookings, notifications and faults, and when all of them are used up nothing is
left to do. A deadlock of the database is no end of the system: InnoDB rolls
one of the transactions back, which `Rollback` allows at any point.

| Run | Properties | Bounds | Shows |
|---|---|---|---|
| refund_gates | RefundedWithinPayment, OneExecutor, LandsOnce, PaidOutIsHeld, QuotaAccounts, ImplementsLedger | 2 payments of 2 (one online), 3 orders, 2 requests; declined, rejected, rolled back, died | both gates, the accounting of the quota and the refinement of the ledger |
| refund_lost_answers | QuotaHasReason | 1 payment of 3, 3 orders, 2 requests; lost, declined, rolled back | no quota stays behind without a reason, as long as no answer is an error and no request dies |
| payment_lifecycle | DeliveredOnce, AckedIsBooked, NoticedAtMostOnce, PaidIsBooked | 1 order, 2 requests and the job, 3 notifications that may be lost, 1 fault | one landing, what it may rely on, and that the query job books every payment |
| settlement_safety | NeverOverstated, CounterIsExact, CompletedOnce | 3 payments (2 online), a coupon, a new price, 2 requests | what survives the races |
| slots_calendar | SlotsExclusive, CalendarSpec | 1 staff member, 2 bookings, 2 requests, 2 starts, 2 variants of a service, 1 edit, 1 recount | the services implement a calendar that reserves in one step; a recount or a policy may take a booking out of it |
| membership | TypeOK, LedgerBalances, CardFollowsLog, GivenBackOnce, PointsTotalNeverFalls, RefundedStays | 1 member, 1 level, 1 card of 2 uses for money or points, 2 requests, purses up to 2, points up to 3 | the account is its ledger, the card its log, money and points return once |
| credit | UsedIsOutstanding, SettledHasRows, ChargesWithinLimit, DueIsMarked | 2 receivables of 2, limit 2 or none and changed between them, 2 requests, cash and QR codes | what is used is what is owed; the job marks what is due |
| recurrences | NeverTwice, PaidIsKept, Regenerated | the job and a request, 2 dates and a window of 1, 3 disturbances | overlapping runs, revocations and payments: each start once, nothing revoked that was paid since it was listed, and the next run makes up for what failed |
| commission | BatchesAddUp, RefundedIsNotDue | 2 bookings of 2 items of 0 to 2, 2 managers, 2 months, 2 refunds | batches of two managers never share a record |
| coupons | ClaimedOnce, DiscountBacked, NothingClaimedWhenOff | 2 customers, 2 coupons, 2 bookings of 1 and 3, 2 requests, faces 2 and 3 | claims of one coupon at once, two bookings for one coupon, a template removed under a claim |
| jobs | BarredWhileItRuns, EntriesFollowRows | 1 job, 2 requests, 2 runs at once, failing database, any number of restarts | a job is barred exactly while it runs; entries follow the rows |
| notices | SentOnce, CopiesBounded, RemindedOnce, FailedIsRetried | 2 rows, 1 booking to remind of, a request, the job and the reminders, limit 2, 1 failure, restart or resend | who delivers a row, what a lost answer costs, reminders that are started again and that a clerk sends besides, retries |

The type invariants are proved (section 4), and that of MemberCards is checked
besides.

### Why these bounds

- *Requests.* Each gate, lock and conditional update is between two parties; a
  third request adds a repetition of one of them. The theorems hold for any
  number.
- *Refund orders.* Three orders on two payments: two compete for one payment
  while a third is independent or joins them. Amounts 1 and 2 of 2 (and 1 to 3
  of 3) make all of "fits alone, not together", "fits together", "exact".
- *Notifications.* Three: one that lands, one that repeats, one that is late or
  lost. *Faults.* One restart can hit any state.
- *Payments of a booking.* 2, 2 and 3 for a booking of 4 less a coupon of 1: any
  two may be too much, one is never enough, and all three always too much.
- *Slots.* Two starts 2 apart, a service of 1 with a buffer of 1 and one of 2
  without: end meets start exactly, the larger buffer decides on either side,
  and a change of the catalogue makes a fitting booking too long. Two bookings
  are enough for an overlap, which is a relation of two. Explored by hand: two
  staff members with their two locks, no edit and no recount (1.05 million states).
- *Membership.* One card is enough for the races of two requests about it; the
  limit per customer counts cards and is hardly exercised by one. Two uses make
  "the last" and "not the last"; a purse of 2 with a gift of 1 and points up
  to 3 make reversals that are cut at zero.
- *Credit.* Receivables of 2 can be paid in parts; two of them fit a limit of 2
  alone, and together when there is none. Amounts of 1 besides were explored by
  hand (2.4 million states).
- *Recurrences.* Two dates and a window of one let the window move on once.
  Three disturbances are a code shown, a revocation of its booking or a deletion, and
  one more. Explored by hand: two starts with two disturbances (205,000 states).
- *Commission, coupons.* Two of each, because every race is about one record or
  one coupon that two requests want. One price is below the face value, the other
  reaches the threshold exactly.
- *Jobs.* Jobs share nothing but the uniqueness of their handlers; two runs and
  two requests make every order of fire, finish and change. Two cron expressions
  were explored besides (3.8 million states).
- *Notices.* Two rows are a message of two channels, or two messages; every race
  is about one row, and a reminder that is written twice, by the job or by a clerk,
  needs two. A limit of 2 tells the first retry from the last. Two failures were
  explored by hand, for the invariants (3.5 million states).
- *Symmetry* permutes requests, handlers, refund orders or bookings that no
  constant tells apart; runs with a liveness property use none.

### Fairness

`FairSpec` of PaymentLifecycle has strong fairness of `JobQuery(p)`,
order by order, and weak fairness of `Serve(w)`, what a worker does once it has
begun. The first is the cron job, which runs every two minutes and takes every
order in its list: an order is enabled again and again, between two turns of
the loop. The second is a promise that settles in the end: an answer arrives or
the request fails (`RequestFails`, bounded, as is `Restart`). The customer and
the channel are not fair: nobody need pay, no notification need be sent or
arrive. `PaidIsBooked` holds from these alone, under the assumption of
`LeaveWindow` above.

Receivables has weak fairness of `MarkOverdue`, a daily job with one UPDATE.
Recurrences has weak fairness of `Generate(Job)`: cron starts the run again and
again, and a run that was begun goes on or fails; failures and revocations are
bounded, without which nothing could be promised. Notices has weak fairness of
`RetryRead \/ Serve(Job)`: cron starts the job every five minutes, and the job
delivers what it read or fails. The requests are not fair in any of these. The
other modules have no fairness and no liveness property.

## 4. What is proved

TLAPS checks every step of these, for all values of the constants that satisfy
the named assumptions; nothing is assumed besides them. TLC evaluates an assumption
where a run gives the constants their values.

| Theorem | States | Rests on |
|---|---|---|
| ChainTypeOK, ChainOneExecutor, ChainLandsOnce, ChainRefundedWithinPayment, ChainTerminal | RefundExecution for any payments, orders, requests, faults | `ChainInv` |
| ChainQuotaAccounts, ChainReleaseFindsQuota | RefundExecution: `refunded_amount` is the sum of what is held | `QuotaInv` |
| ChainQuotaHasReason | the same while no answer is an error and no request dies (`{"rejected", "abort"} \cap Faults = {}`) | `PaidBeforeLanding` |
| ChainImplementsLedger | RefundExecution implements RefundLedger | `ChainInv`, `QuotaInv`, `AmountInRange` |
| ChainPaidOutIsHeld | RefundExecution while no answer is lost (`"lost" \notin Faults`) | `ChannelInv` |
| LifeTypeCorrect, LifeDeliveredOnce, LifeSuccessIsPaid, LifeAckedIsBooked, LifeNoticedAtMostOnce, LifeSettledStays | PaymentLifecycle for any orders, handlers, notifications, restarts | `LifeInv` |
| BookTypeOK, BookNeverOverstated, BookCounterIsExact, BookCompletedOnce, BookFinalStays | BookingSettlement for any payments and requests | `BookInv` |
| SlotsTypeOK, SlotsAreExclusive | BookingSlots for any staff, bookings, requests, policies, edits and recounts | `IInv` |
| SlotsImplementCalendar | BookingSlots implements SlotCalendar | `IInv`, `PlanNew`, `PlanOld` |
| MemberTypeOK, MemberLedgerBalances, MemberPointsTotalNeverFalls, MemberCardFollowsLog, MemberGivenBackOnce, MemberRefundedStays | MemberCards and the MemberAccounts it extends, for any requests, cards, levels, goods and amounts | `AccountInv`, `CardInv` |
| CreditTypeOK, CreditSlipsSound, CreditChargesWithinLimit | Receivables for any requests, receivables, amounts and limits | `IInv` |
| CreditUsedIsOutstanding, CreditSettledHasRows | Receivables: the columns are the sums of the rows | `SumsMatch` |
| CommissionTypeCorrect, CommissionBatchesAddUp, CommissionRefundedIsNotDue | Commission for any bookings, items, managers, months and refunds | `ComInv` |
| RecurrenceTypeOK, RecurrenceNeverTwice, RecurrencePaidIsKept, RecurrenceCursorAccounts | Recurrences for any requests, days, windows, starts and disturbances | `IInv` |
| CouponsTypeOK, CouponsClaimedOnce, CouponsDiscountBacked, CouponsNothingClaimedWhenOff | Coupons for any customers, coupons, bookings, requests, terms and prices | `IInv` |
| JobsTypeCorrect, JobsBarredWhileItRuns, JobsEntriesFollowRows | Jobs for any jobs, requests, runs and restarts | `JobsInv` |
| NoticesTypeCorrect, NoticesSentOnce, NoticesCopiesBounded, NoticesRemindedOnce | Notices for any senders, rows, bookings, templates, limits and failures | `MailInv` |

The arguments, each an inductive invariant with one step per action:

- **Refunds.** That gate 1 admits one request is not inductive by itself: a
  draft might be taken by two, an executing request might lose its order.
  `ChainInv` adds who owns a draft, that an executing order is approved and has
  one executor, where in the chain its amount is held, and that a landed order
  stays held. The bound of `refunded_amount` follows from gate 2 alone, because
  release and landing never add. `ChannelInv` adds that what is paid out and
  not yet landed is held by a request past the channel or by an order left
  approved; a lost answer breaks exactly this step.
- **Quota.** `QuotaAccounts` is not inductive: a request might reserve an order
  that is held already, or release one that is not. `QuotaInv` adds which orders
  may be held and which requests hold nothing. With it a release always finds its
  amount in the column, so the condition of `releaseRefundAmount` never fails
  silently. `QuotaHasReason` needs that the original route lands only what the
  channel has executed (`PaidBeforeLanding`).
- **The ledger.** A step of the chain opens an order (`Insert`), settles it
  (`LandCommit`), refuses it (`Reject` and whatever writes rejected), or is a
  stutter. That a settlement fits into the payment, which the ledger asks for, is
  the point: what landed is held (`ChainInv`), what is held adds up to the column
  (`QuotaInv`), and the column is within the payment (gate 2).
- **Payment orders.** `LifeInv` ties a worker that pays to an order the channel
  collected exactly, a worker that won to a delivery not yet noticed, and
  `delivered` to `row`: the conditional update is the only way in, and every
  other writer asks for `pending`.
- **Bookings.** `BookInv` says what a snapshot may contain (only what was
  collected), that a settling request holds the customer and that nobody lands
  meanwhile, because a landing commits only with the customer's lock. So a
  counter's snapshot is still complete when it writes, while a landing's need
  not be: that is the difference between `CounterIsExact`, proved, and
  `Formula`, violated.
- **Slots.** `ClearPlan`: for a worker about to write, no *checked* booking of
  that staff member is near its slot. It stays true because every other writer
  to that staff member's bookings needs the gaps the worker holds (`GapFree`).
  A staff lock is not needed for this argument; the gap locks of
  `FOR UPDATE` carry it, which is why the recurrence job, which takes no staff
  lock, does not overbook either.
- **The calendar.** A reservation of `SlotCalendar` is the one statement that
  writes the row, though the check it stands on was made steps earlier; `ClearPlan`
  carries the check to it. No insert brings back a booking that is gone, because
  the id a request is creating belongs to no row and to no other request
  (`PlanNew`). A recount and policy notify map to a waiver.
- **Members.** The row agrees with the sums of the ledger after each operation by
  its arithmetic; that needs that nothing is negative and that what was earned is
  at least what is held. The level written exists because the levels reached have
  a greatest. `CardInv` adds what ties a card to its exchange: no use before it
  is issued, an issued card for a redemption, a refunded card where money was
  given back; that gives `GivenBackOnce`.
- **Credit.** `SlipsSound`: a receivable's status is what its settled amount
  says, and that never exceeds the amount. Reads promise nothing; each Commit
  re-establishes it from the conditions of its UPDATE.
- **Credit, the sums.** `SumsMatch` says that `used_amount` is the sum of what is
  owed and `settled_amount` the sum of the payment rows; each commit changes one
  receivable and the column by the same amount (`SumChanges`). A cancellation takes
  back what it read before its transaction: `CancelKnows`, amounts never change.
- **Commission.** A settlement that was read is *alive* while all it read is still
  accrued. A record that was settled or reversed never becomes accrued again, so a
  dead one stays dead and its UPDATE is refused. Two alive ones of one month overlap
  (`AliveOverlap`), so the commit of one kills the other; that is why two answers
  never name one batch, although nothing locks the batch number.
- **Sums.** `SumOf` is a recursion over the subsets of a set, and no induction
  theorem can be used here. `SumsProofs` proves what is needed by the least
  counterexample: if a fact failed for some part of a finite set, it would fail for
  one none of whose proper parts it fails for, and one step of the recursion
  excludes that. From it: a row enters, leaves or changes its amount.
- **Jobs.** `BarredWhileItRuns` is inductive with the types. `EntriesFollowRows`
  needs `OneChanges`: while one request changes a job, what it has read, written and
  not yet scheduled accounts for every difference between row and entry; a second
  request at work on the job, or one that gives up, puts it among `doubted`.
- **Notices.** `Delivered`, of every row no clerk sent again: one worker at most
  holds it; who wrote it holds it while it is pending, the retry job while it has
  failed and with the retry count it will write; what the provider took is at most
  what the retry count shows, but for the attempt in hand and for failures; and what
  was taken once is in the row, in the answer of its worker or among `unclear`. For
  `RemindedOnce`, `Ahead`: what the reminders have still to write was not written, but
  by hand while they had it on their list (`crossed`), and the rows of one message
  differ in their channels.
- **Recurrences.** `NeverTwice` is not inductive: a run may hold a stale look.
  `StartsDiffer`, the unique index over all linked rows, and `LiveIsLinked` are: a
  revocation unlinks what it deletes, a deletion by hand leaves it linked.
  `PaidIsKept` is inductive: `revokeWindow` asks for the payment in its UPDATE, and
  only a landing pays what is revoked already, which puts it among `late`.
  `CursorAccounts` needs `RunsAccount`: the part of its window a run has been
  through is accounted for, unless a revocation overtook it.
- **Coupons.** `InsertIsFirst`: between a claim's look and its insert nobody adds
  a coupon, because adding one takes the lock. `LockedIsOn`: no update of the
  template passes a claim. `QuotesSound`: what was quoted stays true of the
  coupon, whose terms never change, and a booking is created by one request.

Every invariant and every action property of the runs is a theorem, and so are
both refinements. Only model-checked are `PaidIsBooked`, `DueIsMarked`,
`Regenerated` and `FailedIsRetried`: liveness under fairness and ENABLED are out of
the prover's reach. Not proved either is that the exceptions the properties name are
the only ones (that `PaidOutIsHeld` fails with lost answers, for one): TLC shows it by
a counterexample, section 5. Proved and in no run, because they follow from the other
properties or are types: `ReleaseFindsQuota`, `Terminal`, `SuccessIsPaid`,
`SettledStays`, `FinalStays`, `SlipsSound`, `CursorAccounts` and every `TypeOK` but
that of MemberCards.

## 5. Where code and documents disagree

The models show where the code does not do what a document, a comment or the
rest of the code leads to expect. No run is spent on these. To see a
counterexample, add the formula to the module, or take the definition named,
and check it with the cfg of the run named, changed as the column says. Each
was reproduced that way.

| Run, changed | Formula | What happens |
|---|---|---|
| refund_lost_answers, `Faults = {"rejected"}` | `QuotaHasReason` | an error answer of the channel leaves the quota held and the order approved for ever |
| refund_lost_answers, `Faults = {"lost"}` | `PaidOutIsHeld` | a timeout releases the quota of a refund the channel executed |
| refund_lost_answers, `Faults = {}` | `\A r \in Refunds : refund[r].status = "approved" => Owners(r) # {} \/ r \in paidOut` | an order that gate 2 refuses stays approved (`payment/refunds/refunds.service.ts:442`): it can be neither executed nor rejected |
| refund_lost_answers, `Faults = {"declined"}` | `\A p \in Payments : payment[p].refunded < PaidAmount[p] => payment[p].status # "refunded"` | a reservation that is released later makes another order mark the payment fully refunded (`:545`) |
| refund_lost_answers, `Faults = {}` | `[][\A p \in Payments : payment[p].status = "refunded" => payment'[p].status = "refunded"]_vars` | a landing with an old snapshot writes partial_refunded over refunded (`:546`) |
| settlement_safety | `Formula` | two landings derive the columns from snapshots that miss each other (`booking/booking-settlement.service.ts:118`; the formula is its comment at `:33`) |
| settlement_safety, `Online = {}` | `NotOvercollected` | two counters collect the same rest |
| settlement_safety | `PayableFormula` | settling charges the coupon's discount again |
| settlement_safety | `\A p, q \in pending : p = q` | collecting again leaves the first QR code open; `closePendingOfBooking` (`payment/payments/payments.service.ts:445`) has no caller |
| settlement_safety | `[][\A p \in Pays \ Online : p \in collected' \ collected => status \notin Unsettleable]_vars` | a booking cancelled after it was read is settled (`booking/bookings.service.ts:1712`) |
| settlement_safety | `deleted => collected = {}` | a booking with an open QR code is deleted, then paid (`:1517`) |
| settlement_safety | `custLock = Nobody \/ rowLock = Nobody` | landing and settling lock customer and booking in opposite orders (`payments.service.ts:736`, `bookings.service.ts:1697`) |
| slots_calendar, `Forces = {TRUE}`, `Policies = {}` | `NoOverbooking` | a recount takes the durations of today's catalogue instead of the item rows (`booking/bookings.service.ts:1861`; its comment at `:1858` says from the items), moves the end without the lock of the staff member and without a check, and prolongs the booking into the next one; the design (:1197) has every change of `end_at` go through lock and check |
| slots_calendar, `Forces = {TRUE}`, `Policies = {}` | `\A b \in Booked : slot[b].end = slot[b].start + slot[b].dur` | a recount writes the end of the start it read (`bookings.service.ts:1875`) |
| slots_calendar, `Forces = {TRUE}`, `Policies = {}` | `[][\A b \in Bookings : status[b] # "none" /\ slot'[b].start # slot[b].start => status[b] = "open"]_vars` | a booking that ended meanwhile is rescheduled (`:1361`) |
| slots_calendar, two staff members, `Forces = {FALSE}`, `Policies = {}`, no edit, no recount | no two of `Booked` of one customer overlap | one customer is booked twice for the same hour (`:1009`) |
| membership, `Threshold` of two levels | `[][\A c \in Callers : call[c].op = "ensure" /\ call'[c] = Idle /\ member' # member => member'.level >= member.level]_vars` (LevelHolds) | an enrolment puts a customer who has risen meanwhile back to the lowest level (`membership/member-accounts/member-accounts.service.ts:1238`) |
| credit | `SettledIsCollected` | a settlement counts a QR code that is closed unpaid later (`credit/receivables/receivables.service.ts:432`; design :2386 counts it as revenue) |
| credit | `account.deleted => OutstandingSlips = {}` | an account is deleted while a booking is charged to it (`credit/credit-accounts/credit-accounts.service.ts:189`) |
| credit | `account.limit = 0 \/ account.used <= account.limit` | a limit is set below what a charge has used meanwhile |
| recurrences | `~rule.deleted => \A d \in today..rule.until : Accounted(d)` | `CursorAccounts` without its exception: a run that began before a revocation moves `generated_until` past the revoked days, or a second revocation moves it forward (`operations/recurrences/recurrences.service.ts:578`) |
| recurrences | `[][rule.status = "stopped" => rule'.status = "stopped"]_vars` | stopped is not final: a resume that read the rule before writes over it (`changeStatus`) |
| recurrences | `[][\A i \in Ids : rows[i].state = "cancelled" => rows'[i].state = "cancelled"]_vars` | a booking cancelled after the revocation listed it is deleted and unlinked, and its day is generated again (`:449`) |
| recurrences | `\A i \in Ids : rows[i].state = "revoked" => rows[i].pay # "paid"` | `PaidIsKept` without its exception: a code that was open when its booking was revoked is paid afterwards, and the landing asks for the booking's id only (`payment/payments/payments.service.ts:737`, `booking/booking-settlement.service.ts:133`); the money is on a deleted booking |
| recurrences | `\A i \in Ids : rows[i].state = "removed" => rows[i].pay # "paid"` | a booking is deleted by hand on a paid amount read before (`booking/bookings.service.ts:1516`), which its UPDATE (`:1519`) does not ask for again |
| recurrences, two `Times` | no two live bookings of one day | two runs with the old and the new start of a rule that was changed in between |
| recurrences | `rule.deleted => \A i \in Ids : ~rows[i].linked` | a run goes on linking bookings to a rule that was deleted |
| coupons | `SwitchIsObeyed` | switching a template off is answered and not done: `updateTemplate` builds the row from its own list of fields, which lacks status, sort and remark (`membership/coupons/coupons.service.ts:703`); `coupons.controller.ts:143` recommends it |
| coupons | `RefusedCanUse` | an expired coupon keeps the status usable, and claiming asks for the status alone (`:487`); `expireDue` (`:202`) has no caller; `docs/member/points-coupons.md:184` refuses a claim for a usable coupon only |
| jobs, `Faults = FALSE` | `OffIsOff` | of two changes at once, or of a change and a removal, the entry made last need not be that of the row written last: a disabled or deleted job goes on (`docs/admin/jobs-files.md`) |
| jobs, `Faults = FALSE`; jobs, one request | `EntriesFollowRows` without `j \notin doubted` | two changes at once, or one that breaks off between its row and its entry (`jobs.service.ts:238`), leave row and entry apart until the next change or a restart |
| jobs, `Faults = FALSE` | `NoOverlap` | runs that were allowed to be concurrent share one place in `running`: the first to end gives it free, and a run that is not starts beside the second (`docs/admin/jobs-files.md:72`) |
| jobs, two jobs, `Faults = FALSE` | `HandlersDiffer` | `assertHandlerUnique` looks before it inserts |
| notices | `[][\A i \in Notices : notice'[i].retries >= notice[i].retries]_noticesVars` | a resend by hand beside the job writes the retry count it read (`operations/notices/notices.service.ts:433`), and the job retries once more than the limit |
| notices | `\A i, j \in Written : i < j => ~SameReminder(i, j)` | `RemindedOnce` without its exceptions: a clerk sends a reminder after the job did, or between its look (`notices.service.ts:843`) and its `send` (`:876`), and the customer has two in one channel; the comment at `:871` promises as much for a rerun of the job only |

Met while reading and writing, and not stated as formulas:

- *Members.* `*_after` of an entry without movement is what was read before the
  lock. `revertUse` may take back one booking's use twice, and makes an expired
  card active again, which `docs/member/recharge-cards.md:193` and `:204` exclude.
  `refundMember` can reverse one transaction twice. `recountAllLevels` writes
  levels from spending it read before. A recount may raise points earned. A card
  bought with points that is refunded, then voided by a revert of the exchange,
  gives its value back twice.
- *Credit.* Settling a booking on credit does not write `credit_account_id`
  (`booking/bookings.service.ts:1710`; the design, `:2372`, says so); the amount
  due ignores what is on credit already; cancelling one receivable empties the
  column while another is outstanding. Charges and settlements of one account
  share the lock of its foreign key and then want the row: InnoDB breaks that
  deadlock.
- *Recurrences.* Two generations of one staff member hold the same gap and want
  to insert into it (`:613`). `assertRuleSlotUnique` looks before it inserts.
- *Commission.* The reversal at a cancellation (`booking/bookings.service.ts:1502`)
  finds nothing, because only completed bookings have records and those cannot
  be cancelled; a deposit refunded before completion leaves the commission whole;
  settled records are not reversed (a TODO of the code).
- *Coupons.* `issue()` does not see a switch or a removal after its look. A
  template that ends in the past issues expired coupons; `validFrom` is never
  asked for.
- *Notices.* A row that a failure or a restart left pending is looked for by
  nobody: the job asks for failed rows, a flush for its own ids. A reminder that was
  written and not delivered counts as sent. Resending overwrites a success with
  what the new attempt gives.
- *Jobs.* `onModuleInit` that fails leaves a running process without any entry.
  `running` is a set of one process: a second one starts the same job.

## 6. What is not modelled, and the plan

Left out for good: reports, generated administration, files, code generation,
monitoring, the user interfaces, the agent's loop (a language model drives it),
wording and formatting. Master data is an input of the modules that read it.

Left out of what is modelled, and named in each component's note: other
payments of a booking charged to credit, more than one account; goods for points
that are not cards; two rules of one start; a rule moved to another weekday, another
start date or another conflict policy; a second process for the jobs; the
inbox of the notices, their templates and the grants of subscription messages; the
bodies of the jobs, which are actions of the modules they change.

The plan, in this order:

1. `Settlement` composed: BookingSettlement with the account, card and
   receivable rows, for the global order of locks over all of them. The parts are
   there; what is missing is the customer's lock shared by all.
2. `Scheduling` on top of BookingSlots: a leave granted during a booking.
3. `TokenRotation` (several clients refresh with one token), `ActionIntent` (a
   proposed action is approved, executed or expires once), `Reconciliation` (a
   day compared again).
4. `Pricing` and `SlotGrid`: pure functions against a reference definition over
   bounded inputs; the free slots offered against the check that decides.
5. Proofs: that a landing of `PaymentLifecycle` is one of `BookingSettlement`, and
   the row locks of item 1 with their order; the modules of items 2 to 4 with the
   theorems their runs suggest.
