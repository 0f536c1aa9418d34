-------------------------- MODULE PaymentLifecycle --------------------------
(***************************************************************************)
(* An online payment order from its QR code to its booking: the row of     *)
(* biz_payment, the order at the channel, the notifications the channel    *)
(* sends and repeats, the job that asks the channel about open orders, the *)
(* job that closes expired ones, and the one landing both paths share,     *)
(* PaymentsService.settlePayment.                                          *)
(*                                                                         *)
(* A handler serves one notification or one query at a time; Job is the    *)
(* loop of queryPending.  A handler keeps the order it works on and the    *)
(* answer it received while other handlers run.  Time is the age of an     *)
(* order: valid, expired (expire_at < now), or out of the look-back window *)
(* of queryPending.                                                        *)
(***************************************************************************)
EXTENDS Integers

CONSTANTS
    Orders,    \* online payment orders
    Handlers,  \* requests served concurrently: callbacks and manual queries
    Job,       \* the query job, which runs one order after the other
    NoOrder,   \* a handler that works on nothing
    MaxNotify, \* bound: notifications the channel sends for an order
    MaxFaults  \* bound: restarts of the process and failed requests

ASSUME LifecycleAssumption ==
    /\ Job \notin Handlers
    /\ NoOrder \notin Orders
    /\ MaxNotify \in Nat
    /\ MaxFaults \in Nat

Processes == Handlers \cup {Job}

VARIABLES
    row,        \* biz_payment.status of every order
    age,        \* where now stands relative to expire_at
    ch,         \* the order at the channel
    exact,      \* the orders whose amount at the channel is the row's amount
    sent,       \* notifications sent for an order
    mail,       \* notifications on their way
    acked,      \* the orders for which the channel received a success reply
    delivered,  \* history: how many times deliver() ran for an order
    noticed,    \* how many times the paid notice was sent for an order
    polled,     \* history: orders with a completed query of their final state
    at, duty, source, answer, won, \* what each worker is doing
    closing,    \* the rows closeExpired has read and not updated yet
    faults      \* restarts and failed requests so far

channelVars == <<ch, exact, sent, mail, acked>>
workerVars == <<at, duty, source, answer, won>>
lifeVars == <<row, age, channelVars, delivered, noticed, polled, workerVars,
              closing, faults>>

\* Mutant: only an order that is still pending may land.
SettleFromPendingOnly == {"pending"}

SettleFrom == {"pending", "closed", "failed"}
Settled == {"success", "refunded"}

LifeTypeOK ==
    /\ row \in [Orders -> {"none", "pending", "closed", "failed", "success", "refunded"}]
    /\ age \in [Orders -> {"valid", "expired", "stale"}]
    /\ ch \in [Orders -> {"none", "open", "paid", "closed", "failed"}]
    /\ exact \subseteq Orders
    /\ sent \in [Orders -> 0..MaxNotify]
    /\ mail \in [Orders -> 0..MaxNotify]
    /\ acked \subseteq Orders
    /\ delivered \in [Orders -> Nat]
    /\ noticed \in [Orders -> Nat]
    /\ polled \subseteq Orders
    /\ at \in [Processes -> {"idle", "asking", "answered", "paying", "replying"}]
    /\ duty \in [Processes -> Orders \cup {NoOrder}]
    /\ source \in [Processes -> {"notify", "query"}]
    /\ answer \in [Processes -> {"none", "open", "paid", "closed", "failed"}]
    /\ won \in [Processes -> BOOLEAN]
    /\ closing \subseteq Orders
    /\ faults \in 0..MaxFaults

LifeInit ==
    /\ row = [p \in Orders |-> "none"]
    /\ age = [p \in Orders |-> "valid"]
    /\ ch = [p \in Orders |-> "none"]
    /\ exact = {}
    /\ sent = [p \in Orders |-> 0]
    /\ mail = [p \in Orders |-> 0]
    /\ acked = {}
    /\ delivered = [p \in Orders |-> 0]
    /\ noticed = [p \in Orders |-> 0]
    /\ polled = {}
    /\ at = [w \in Processes |-> "idle"]
    /\ duty = [w \in Processes |-> NoOrder]
    /\ source = [w \in Processes |-> "query"]
    /\ answer = [w \in Processes |-> "none"]
    /\ won = [w \in Processes |-> FALSE]
    /\ closing = {}
    /\ faults = 0

----------------------------------------------------------------------------
(* The order, the customer and the channel. *)

\* prepareChannelOrder, then createInTx: the QR code is only shown, and the
\* order can only be paid, after the row is committed.
Create(p) ==
    /\ row[p] = "none"
    /\ row' = [row EXCEPT ![p] = "pending"]
    /\ ch' = [ch EXCEPT ![p] = "open"]
    /\ UNCHANGED <<age, exact, sent, mail, acked, delivered, noticed, polled,
                   workerVars, closing, faults>>

\* The customer pays, possibly in the last moment before the channel closes
\* the order and after the local clock has passed expire_at.
Pay(p, e) ==
    /\ ch[p] = "open"
    /\ ch' = [ch EXCEPT ![p] = "paid"]
    /\ exact' = IF e THEN exact \cup {p} ELSE exact
    /\ UNCHANGED <<row, age, sent, mail, acked, delivered, noticed, polled,
                   workerVars, closing, faults>>

\* The channel ends an order that was not paid.
ChannelEnds(p, s) ==
    /\ ch[p] = "open"
    /\ s = "closed" => age[p] # "valid"
    /\ ch' = [ch EXCEPT ![p] = s]
    /\ UNCHANGED <<row, age, exact, sent, mail, acked, delivered, noticed, polled,
                   workerVars, closing, faults>>

Expire(p) ==
    /\ row[p] # "none" /\ age[p] = "valid"
    /\ age' = [age EXCEPT ![p] = "expired"]
    /\ UNCHANGED <<row, channelVars, delivered, noticed, polled, workerVars,
                   closing, faults>>

(***************************************************************************)
(* QUERY_LOOKBACK_MS: 24 hours after it expired an order is not queried    *)
(* any more.  The job runs every two minutes, and the channel closes the   *)
(* order at the same expire_at, so a day never passes without one query    *)
(* that saw the order's final state and was carried out.                   *)
(***************************************************************************)
LeaveWindow(p) ==
    /\ age[p] = "expired"
    /\ p \in polled
    /\ age' = [age EXCEPT ![p] = "stale"]
    /\ UNCHANGED <<row, channelVars, delivered, noticed, polled, workerVars,
                   closing, faults>>

\* The channel notifies a payment, again and again until it is acknowledged.
SendNotify(p) ==
    /\ ch[p] = "paid" /\ p \notin acked
    /\ sent[p] < MaxNotify
    /\ sent' = [sent EXCEPT ![p] = @ + 1]
    /\ mail' = [mail EXCEPT ![p] = @ + 1]
    /\ UNCHANGED <<row, age, ch, exact, acked, delivered, noticed, polled,
                   workerVars, closing, faults>>

LoseNotify(p) ==
    /\ mail[p] > 0
    /\ mail' = [mail EXCEPT ![p] = @ - 1]
    /\ UNCHANGED <<row, age, ch, exact, sent, acked, delivered, noticed, polled,
                   workerVars, closing, faults>>

----------------------------------------------------------------------------
(* Workers. *)

Turn(w, l, p, s, a, b) ==
    /\ at' = [at EXCEPT ![w] = l]
    /\ duty' = [duty EXCEPT ![w] = p]
    /\ source' = [source EXCEPT ![w] = s]
    /\ answer' = [answer EXCEPT ![w] = a]
    /\ won' = [won EXCEPT ![w] = b]

Rest(w) == Turn(w, "idle", NoOrder, "query", "none", FALSE)

\* handleNotify: verified, the row read, the amounts compared.
Notify(w, p) ==
    /\ at[w] = "idle" /\ mail[p] > 0
    /\ mail' = [mail EXCEPT ![p] = @ - 1]
    /\ IF p \in exact
       THEN Turn(w, "paying", p, "notify", "paid", FALSE)
       ELSE UNCHANGED workerVars
    /\ UNCHANGED <<row, age, ch, exact, sent, acked, delivered, noticed, polled,
                   closing, faults>>

\* POST /payments/:id/query: an order that may still land, whatever its age.
ManualQuery(w, p) ==
    /\ at[w] = "idle" /\ row[p] \in SettleFrom
    /\ Turn(w, "asking", p, "query", "none", FALSE)
    /\ UNCHANGED <<row, age, channelVars, delivered, noticed, polled, closing, faults>>

\* Mutant: the job leaves out the orders that were closed or failed locally.
JobQueryPendingOnly(p) ==
    /\ at[Job] = "idle" /\ row[p] = "pending" /\ age[p] # "stale"
    /\ Turn(Job, "asking", p, "query", "none", FALSE)
    /\ UNCHANGED <<row, age, channelVars, delivered, noticed, polled, closing, faults>>

\* One turn of the loop of queryPending.
JobQuery(p) ==
    /\ at[Job] = "idle" /\ row[p] \in SettleFrom /\ age[p] # "stale"
    /\ Turn(Job, "asking", p, "query", "none", FALSE)
    /\ UNCHANGED <<row, age, channelVars, delivered, noticed, polled, closing, faults>>

\* queryChannel asks the channel outside any transaction ...
Ask(w) ==
    /\ at[w] = "asking"
    /\ Turn(w, "answered", duty[w], "query", ch[duty[w]], FALSE)
    /\ UNCHANGED <<row, age, channelVars, delivered, noticed, polled, closing, faults>>

\* ... or gets no answer, or the landing is rolled back: the query job logs the
\* error and goes on, a callback is answered with an error and comes again.
RequestFails(w) ==
    /\ at[w] \in {"asking", "paying"} /\ faults < MaxFaults
    /\ faults' = faults + 1
    /\ Rest(w)
    /\ UNCHANGED <<row, age, channelVars, delivered, noticed, polled, closing>>

Polled(w) == polled' = IF answer[w] = "open" THEN polled ELSE polled \cup {duty[w]}

(***************************************************************************)
(* An answer that is no payment: a channel order that ended closes the row *)
(* if it is still pending, an amount that differs is logged and refused.   *)
(***************************************************************************)
Apply(w) ==
    LET p == duty[w]
    IN /\ at[w] = "answered"
       /\ ~(answer[w] = "paid" /\ p \in exact)
       /\ row' = IF answer[w] \in {"closed", "failed"} /\ row[p] = "pending"
                 THEN [row EXCEPT ![p] = answer[w]]
                 ELSE row
       /\ Polled(w)
       /\ Rest(w)
       /\ UNCHANGED <<age, channelVars, delivered, noticed, closing, faults>>

\* An answer that is a payment of the row's amount goes to the landing.
ApplyPaid(w) ==
    /\ at[w] = "answered"
    /\ answer[w] = "paid" /\ duty[w] \in exact
    /\ Turn(w, "paying", duty[w], "query", "paid", FALSE)
    /\ UNCHANGED <<row, age, channelVars, delivered, noticed, polled, closing, faults>>

----------------------------------------------------------------------------
(* settlePayment: the conditional update and deliver(), in one transaction. *)

\* Mutant: the update does not ask for a status.
SettleUnconditional(w) ==
    LET p == duty[w]
    IN /\ at[w] = "paying"
       /\ row' = [row EXCEPT ![p] = "success"]
       /\ delivered' = [delivered EXCEPT ![p] = @ + 1]
       /\ Turn(w, "replying", p, source[w], answer[w], TRUE)
       /\ UNCHANGED <<age, channelVars, noticed, polled, closing, faults>>

Settle(w) ==
    LET p == duty[w]
    IN /\ at[w] = "paying"
       /\ row[p] \in SettleFrom
       /\ row' = [row EXCEPT ![p] = "success"]
       /\ delivered' = [delivered EXCEPT ![p] = @ + 1]
       /\ Turn(w, "replying", p, source[w], answer[w], TRUE)
       /\ UNCHANGED <<age, channelVars, noticed, polled, closing, faults>>

\* Mutant: a repeated payment counts as landed by this request.
SettleMissNotices(w) ==
    /\ at[w] = "paying"
    /\ row[duty[w]] \notin SettleFrom
    /\ Turn(w, "replying", duty[w], source[w], answer[w], TRUE)
    /\ UNCHANGED <<row, age, channelVars, delivered, noticed, polled, closing, faults>>

\* No row changed: landed already.  The channel gets a success reply all the same.
SettleMiss(w) ==
    /\ at[w] = "paying"
    /\ row[duty[w]] \notin SettleFrom
    /\ Turn(w, "replying", duty[w], source[w], answer[w], FALSE)
    /\ UNCHANGED <<row, age, channelVars, delivered, noticed, polled, closing, faults>>

\* After the commit: the notice if this request landed the payment, then the
\* reply, which may not reach the channel.
Reply(w, arrives) ==
    LET p == duty[w]
    IN /\ at[w] = "replying"
       /\ noticed' = IF won[w] THEN [noticed EXCEPT ![p] = @ + 1] ELSE noticed
       /\ IF source[w] = "notify"
          THEN /\ acked' = IF arrives THEN acked \cup {p} ELSE acked
               /\ UNCHANGED polled
          ELSE Polled(w) /\ UNCHANGED acked
       /\ Rest(w)
       /\ UNCHANGED <<row, age, ch, exact, sent, mail, delivered, closing, faults>>

----------------------------------------------------------------------------
(* Closing, refunding, restarting. *)

CloseRead ==
    /\ closing = {}
    /\ \E p \in Orders : row[p] = "pending" /\ age[p] # "valid"
    /\ closing' = {p \in Orders : row[p] = "pending" /\ age[p] # "valid"}
    /\ UNCHANGED <<row, age, channelVars, delivered, noticed, polled, workerVars, faults>>

\* One transaction of conditional updates, a row another path changed is left.
CloseCommit ==
    /\ closing # {}
    /\ row' = [p \in Orders |-> IF p \in closing /\ row[p] = "pending"
                                THEN "closed" ELSE row[p]]
    /\ closing' = {}
    /\ UNCHANGED <<age, channelVars, delivered, noticed, polled, workerVars, faults>>

CloseManually(p) ==
    /\ row[p] = "pending"
    /\ row' = [row EXCEPT ![p] = "closed"]
    /\ UNCHANGED <<age, channelVars, delivered, noticed, polled, workerVars,
                   closing, faults>>

\* RefundExecution moves a collected payment on; here it is one more writer.
RefundLands(p) ==
    /\ row[p] = "success"
    /\ row' = [row EXCEPT ![p] = "refunded"]
    /\ UNCHANGED <<age, channelVars, delivered, noticed, polled, workerVars,
                   closing, faults>>

\* The process restarts: everything a worker knew is gone, rows and channel stay.
Restart ==
    /\ faults < MaxFaults
    /\ faults' = faults + 1
    /\ at' = [w \in Processes |-> "idle"]
    /\ duty' = [w \in Processes |-> NoOrder]
    /\ source' = [w \in Processes |-> "query"]
    /\ answer' = [w \in Processes |-> "none"]
    /\ won' = [w \in Processes |-> FALSE]
    /\ closing' = {}
    /\ UNCHANGED <<row, age, channelVars, delivered, noticed, polled>>

Serve(w) ==
    \/ Ask(w) \/ Apply(w) \/ ApplyPaid(w)
    \/ Settle(w) \/ SettleMiss(w)
    \/ \E arrives \in BOOLEAN : Reply(w, arrives)

Environment(p) ==
    \/ Create(p) \/ Expire(p) \/ LeaveWindow(p)
    \/ \E e \in BOOLEAN : Pay(p, e)
    \/ \E s \in {"closed", "failed"} : ChannelEnds(p, s)
    \/ SendNotify(p) \/ LoseNotify(p)
    \/ CloseManually(p) \/ RefundLands(p)

LifeNext ==
    \/ \E p \in Orders : Environment(p) \/ JobQuery(p)
    \/ \E w \in Handlers, p \in Orders : Notify(w, p) \/ ManualQuery(w, p)
    \/ \E w \in Processes : Serve(w) \/ RequestFails(w)
    \/ CloseRead \/ CloseCommit \/ Restart

(***************************************************************************)
(* queryPending runs again and again and each run asks about every order   *)
(* of the window, so an order that stays in it gets its turn: SF, for the  *)
(* job is busy with the others in between.  A request once started goes    *)
(* on.  Nothing is assumed of the customer, the notifications, the closing *)
(* jobs or the clock.                                                      *)
(***************************************************************************)
Fairness ==
    /\ \A p \in Orders : SF_lifeVars(JobQuery(p))
    /\ \A w \in Processes : WF_lifeVars(Serve(w))

LifeSpec == LifeInit /\ [][LifeNext]_lifeVars
FairSpec == LifeSpec /\ Fairness

----------------------------------------------------------------------------

\* A payment is delivered exactly once if its row says it was collected, never
\* otherwise, for any mix of repeated, late and concurrent callbacks and
\* queries and any local closing in between (settlePayment).
DeliveredOnce ==
    \A p \in Orders : delivered[p] = IF row[p] \in Settled THEN 1 ELSE 0

\* A row that says success has a payment of exactly its amount at the channel.
SuccessIsPaid ==
    \A p \in Orders : row[p] \in Settled => ch[p] = "paid" /\ p \in exact

\* Once the channel is told to stop repeating, the money is in the books: the
\* hazard the comment of SETTLE_FROM_STATUSES describes.
AckedIsBooked == \A p \in acked : row[p] \in Settled

\* The customer hears of a payment at most once, and not before it landed.
NoticedAtMostOnce == \A p \in Orders : noticed[p] <= delivered[p]

\* A collected payment is never closed, failed or collected again by an answer
\* or a job that looked at the row before.
SettledStays ==
    [][\A p \in Orders :
         /\ row[p] \in Settled => row'[p] \in Settled
         /\ row[p] = "refunded" => row'[p] = "refunded"]_lifeVars

\* Money the channel collected reaches the books although every callback may be
\* lost, the row may be closed and the process may restart.
PaidIsBooked ==
    \A p \in Orders : (ch[p] = "paid" /\ p \in exact) ~> row[p] \in Settled
============================================================================
