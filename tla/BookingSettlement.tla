------------------------- MODULE BookingSettlement -------------------------
(***************************************************************************)
(* One booking and its money: the columns paid_amount, refund_amount and   *)
(* due_amount that BookingSettlementService.recalc derives from the        *)
(* payments and the refunds, the status of the booking, and every request  *)
(* that writes one of them: settling at the counter, a callback or a query *)
(* that lands an online payment, a refund that lands, rescheduling,        *)
(* recounting, the transitions of the status and deleting.                 *)
(*                                                                         *)
(* The database is InnoDB under REPEATABLE READ: a transaction reads a     *)
(* snapshot taken at its first plain SELECT (seen), plus what it wrote     *)
(* itself, and its UPDATEs wait for row locks held until it ends.  Two     *)
(* rows are contended, the booking (rowLock) and its customer (custLock).  *)
(* Sums of money are kept as the sets of payments they are taken over.     *)
(***************************************************************************)
EXTENDS Sums

CONSTANTS
    Workers,      \* requests and jobs at work at the same time
    Pays,         \* payments the booking can get
    Online,       \* those collected by a QR code, the others at the counter
    Amount,       \* what each payment collects, in cents
    Gross,        \* the price of the booking before its coupon
    Coupon,       \* what the coupon of the booking takes off
    Quotes,       \* the prices a rescheduled booking may get
    NoPay,        \* a request that collects nothing
    Nobody        \* the holder of a free lock

ASSUME SettlementAssumption ==
    /\ Online \subseteq Pays
    /\ NoPay \notin Pays
    /\ Nobody \notin Workers
    /\ Gross \in Nat
    /\ Coupon \in Nat
    /\ Quotes \subseteq Nat
    /\ Amount \in [Pays -> Nat]

VARIABLES
    status,       \* biz_booking.status
    deleted,      \* biz_booking.deleted_at is set
    gross,        \* the price of the booked items, adjusted, before the coupon
    payable,      \* biz_booking.payable_amount
    money,        \* the derived columns of biz_booking
    pending,      \* payments waiting for the channel
    collected,    \* payments that were collected, refunded ones included
    returned,     \* payments whose refund landed
    visits,       \* visit_count and the commission: how often completion counted
    custLock,     \* who holds the row lock of the customer
    rowLock,      \* who holds the row lock of the booking
    pc, job,      \* what a worker does, and the payment it does it for
    quote,        \* the price a worker computed from its first read
    seen,         \* the snapshot of a worker's transaction
    last          \* history: which kind of request derived money last

priceVars == <<gross, payable>>
bookVars == <<status, deleted, visits>>
payVars == <<pending, collected, returned>>
workVars == <<pc, job, quote, seen>>
lockVars == <<custLock, rowLock>>
vars == <<priceVars, bookVars, payVars, money, lockVars, workVars, last>>

Unsettleable == {"cancelled", "no_show"}
Final == {"completed", "cancelled", "no_show"}
Statuses == {"pending", "confirmed", "arrived"} \cup Final

\* TRANSITIONS but for complete, which is more than one statement.
Moves ==
    {<<"pending", "confirmed">>, <<"confirmed", "arrived">>, <<"confirmed", "no_show">>,
     <<"pending", "cancelled">>, <<"confirmed", "cancelled">>}

Total(S) == SumOf(Amount, S)
AtLeastZero(n) == IF n > 0 THEN n ELSE 0
Due(m) == AtLeastZero(m.base - Total(m.paid))

(***************************************************************************)
(* recalc: from what the transaction sees to the derived columns.  A full  *)
(* refund clears settled_at before a due amount of zero can set it.        *)
(***************************************************************************)
Recalc(s) ==
    LET paid == Total(s.collected)
        refunded == paid > 0 /\ Total(s.returned) >= paid
    IN [paid |-> s.collected, back |-> s.returned, base |-> s.payable,
        settled |-> IF refunded \/ paid = 0 THEN FALSE
                    ELSE IF paid >= s.payable THEN TRUE ELSE s.settled]

\* Mutant: payments that wait for the channel count as well.
SnapshotCountsPending ==
    [collected |-> collected \cup pending, returned |-> returned,
     payable |-> payable, settled |-> money.settled]

\* COUNTED_PAYMENT_STATUS: a refunded payment stays in paid_amount.
Snapshot == [collected |-> collected, returned |-> returned,
             payable |-> payable, settled |-> money.settled]

NoSnapshot == [collected |-> {}, returned |-> {}, payable |-> 0, settled |-> FALSE]

Snapshots == [collected : SUBSET Pays, returned : SUBSET Pays,
              payable : Nat, settled : BOOLEAN]

TypeOK ==
    /\ status \in Statuses
    /\ deleted \in BOOLEAN
    /\ gross \in Nat
    /\ payable \in Nat
    /\ money \in [paid : SUBSET Pays, back : SUBSET Pays, base : Nat, settled : BOOLEAN]
    /\ pending \subseteq Pays
    /\ collected \subseteq Pays
    /\ returned \subseteq Pays
    /\ visits \in Nat
    /\ custLock \in Workers \cup {Nobody}
    /\ rowLock \in Workers \cup {Nobody}
    /\ pc \in [Workers -> {"idle", "settle", "settling", "landing", "booked",
                           "completing", "reschedule", "remove"}]
    /\ job \in [Workers -> Pays \cup {NoPay}]
    /\ quote \in [Workers -> Nat]
    /\ seen \in [Workers -> Snapshots]
    /\ last \in {"counter", "landing"}

\* A booking created by the counter or by its customer, nothing collected yet.
Init ==
    /\ status \in {"pending", "confirmed"}
    /\ deleted = FALSE
    /\ gross = Gross
    /\ payable = AtLeastZero(Gross - Coupon)
    /\ money = [paid |-> {}, back |-> {}, base |-> payable, settled |-> FALSE]
    /\ pending = {}
    /\ collected = {}
    /\ returned = {}
    /\ visits = 0
    /\ custLock = Nobody
    /\ rowLock = Nobody
    /\ pc = [w \in Workers |-> "idle"]
    /\ job = [w \in Workers |-> NoPay]
    /\ quote = [w \in Workers |-> 0]
    /\ seen = [w \in Workers |-> NoSnapshot]
    /\ last = "counter"

----------------------------------------------------------------------------
(* Workers. *)

Goto(w, l, p) ==
    /\ pc' = [pc EXCEPT ![w] = l]
    /\ job' = [job EXCEPT ![w] = p]

Done(w) ==
    /\ Goto(w, "idle", NoPay)
    /\ quote' = [quote EXCEPT ![w] = 0]
    /\ seen' = [seen EXCEPT ![w] = NoSnapshot]

Free(p) == \A w \in Workers : job[w] # p

\* What is left to pay in the eyes of a request that charges g.
Open(g) == AtLeastZero(g - Total(money.paid))

----------------------------------------------------------------------------
(* Settling at the counter: applySettlement. *)

(***************************************************************************)
(* The booking is read, quoted and compared outside the transaction; then  *)
(* the channel order of an online payment is prepared.  The quote is made  *)
(* of the items and the adjustment alone.                                  *)
(***************************************************************************)
SettleRead(w, p) ==
    /\ pc[w] = "idle" /\ ~deleted
    /\ status \notin Unsettleable
    /\ p \in Pays => /\ p \notin pending \cup collected
                     /\ Free(p)
                     /\ Amount[p] <= Open(gross)
    /\ quote' = [quote EXCEPT ![w] = gross]
    /\ Goto(w, "settle", p)
    /\ UNCHANGED <<priceVars, bookVars, payVars, money, lockVars, seen, last>>

\* Mutant: the transaction does not lock the customer.
SettleBeginUnlocked(w) ==
    /\ pc[w] = "settle"
    /\ seen' = [seen EXCEPT ![w] = Snapshot]
    /\ Goto(w, "settling", job[w])
    /\ UNCHANGED <<priceVars, bookVars, payVars, money, lockVars, quote, last>>

\* The transaction begins: lockAccount, whose read of the level takes the snapshot.
SettleBegin(w) ==
    /\ pc[w] = "settle"
    /\ custLock = Nobody
    /\ custLock' = w
    /\ seen' = [seen EXCEPT ![w] = Snapshot]
    /\ Goto(w, "settling", job[w])
    /\ UNCHANGED <<priceVars, bookVars, payVars, money, rowLock, quote, last>>

(***************************************************************************)
(* The booking gets the price, whatever its status is by now; a payment at *)
(* the counter is collected, a QR code waits for the channel; recalc; the  *)
(* consumption is booked on the customer.  Having updated the booking, the *)
(* transaction reads the booking's current row and its own payment.        *)
(***************************************************************************)
SettleCommit(w) ==
    LET new == {job[w]} \cap (Pays \ Online)
    IN /\ pc[w] = "settling"
       /\ rowLock = Nobody
       /\ payable' = quote[w]
       /\ pending' = pending \cup ({job[w]} \cap Online)
       /\ collected' = collected \cup new
       /\ money' = Recalc([seen[w] EXCEPT !.collected = @ \cup new,
                                          !.payable = quote[w],
                                          !.settled = money.settled])
       /\ custLock' = Nobody
       /\ Done(w)
       /\ last' = "counter"
       /\ UNCHANGED <<gross, bookVars, returned, rowLock>>

----------------------------------------------------------------------------
(* Landing: settlePayment and deliver for a payment the channel collected, *)
(* executeRefund for a refund that was paid out.                           *)

(***************************************************************************)
(* The conditional update of the payment, or of the refund order, holds    *)
(* that row; then recalc reads.  Nothing locks the booking or its customer *)
(* before.                                                                 *)
(***************************************************************************)
LandRead(w, p) ==
    /\ pc[w] = "idle" /\ Free(p)
    /\ p \in pending \cup (collected \ returned)
    /\ seen' = [seen EXCEPT ![w] =
                  IF p \in collected
                  THEN [Snapshot EXCEPT !.returned = @ \cup {p}]
                  ELSE [Snapshot EXCEPT !.collected = @ \cup {p}]]
    /\ Goto(w, "landing", p)
    /\ UNCHANGED <<priceVars, bookVars, payVars, money, lockVars, quote, last>>

\* The update of the derived columns waits for the booking ...
LandWrite(w) ==
    /\ pc[w] = "landing"
    /\ rowLock = Nobody
    /\ rowLock' = w
    /\ Goto(w, "booked", job[w])
    /\ UNCHANGED <<priceVars, bookVars, payVars, money, custLock, quote, seen, last>>

\* ... and recordConsumption or reverseConsumption for the customer.
LandCommit(w) ==
    LET p == job[w]
    IN /\ pc[w] = "booked"
       /\ custLock = Nobody
       /\ collected' = collected \cup {p}
       /\ pending' = pending \ {p}
       /\ returned' = IF p \in collected THEN returned \cup {p} ELSE returned
       /\ money' = Recalc(seen[w])
       /\ rowLock' = Nobody
       /\ Done(w)
       /\ last' = "landing"
       /\ UNCHANGED <<priceVars, bookVars, custLock>>

----------------------------------------------------------------------------
(* The status of the booking. *)

\* confirm, arrive, no-show, cancel and the no-show job: one conditional update.
Move(m) ==
    /\ ~deleted /\ rowLock = Nobody
    /\ status = m[1]
    /\ status' = m[2]
    /\ UNCHANGED <<priceVars, deleted, visits, payVars, money, lockVars, workVars, last>>

\* Mutant: the booking is read without FOR UPDATE.
CompleteLockUnheld(w) ==
    /\ pc[w] = "idle" /\ ~deleted
    /\ status = "arrived"
    /\ Goto(w, "completing", NoPay)
    /\ UNCHANGED <<priceVars, bookVars, payVars, money, lockVars, quote, seen, last>>

\* runComplete and the completing job lock the booking and read its status ...
CompleteLock(w) ==
    /\ pc[w] = "idle" /\ ~deleted
    /\ rowLock = Nobody
    /\ status = "arrived"
    /\ rowLock' = w
    /\ Goto(w, "completing", NoPay)
    /\ UNCHANGED <<priceVars, bookVars, payVars, money, custLock, quote, seen, last>>

\* ... and count the visit on the customer in the same transaction.
CompleteCommit(w) ==
    /\ pc[w] = "completing"
    /\ custLock = Nobody
    /\ status' = "completed"
    /\ visits' = visits + 1
    /\ rowLock' = Nobody
    /\ Done(w)
    /\ UNCHANGED <<priceVars, deleted, payVars, money, custLock, last>>

----------------------------------------------------------------------------
(* Rescheduling, recounting, deleting. *)

\* update: the status is read and the new items quoted outside the transaction.
RescheduleRead(w, q) ==
    /\ pc[w] = "idle" /\ ~deleted
    /\ status \in {"pending", "confirmed"}
    /\ quote' = [quote EXCEPT ![w] = q]
    /\ Goto(w, "reschedule", NoPay)
    /\ UNCHANGED <<priceVars, bookVars, payVars, money, lockVars, seen, last>>

\* The booking is updated before recalc takes its snapshot, so nothing is missed.
RescheduleCommit(w) ==
    /\ pc[w] = "reschedule"
    /\ rowLock = Nobody
    /\ gross' = IF deleted THEN gross ELSE quote[w]
    /\ payable' = IF deleted THEN payable ELSE quote[w]
    /\ money' = Recalc([Snapshot EXCEPT !.payable = payable'])
    /\ Done(w)
    /\ last' = "counter"
    /\ UNCHANGED <<bookVars, payVars, lockVars>>

Recount ==
    /\ ~deleted /\ rowLock = Nobody
    /\ money' = Recalc(Snapshot)
    /\ last' = "counter"
    /\ UNCHANGED <<priceVars, bookVars, payVars, lockVars, workVars>>

RemoveRead(w) ==
    /\ pc[w] = "idle" /\ ~deleted
    /\ Total(money.paid) = 0
    /\ Goto(w, "remove", NoPay)
    /\ UNCHANGED <<priceVars, bookVars, payVars, money, lockVars, quote, seen, last>>

RemoveCommit(w) ==
    /\ pc[w] = "remove"
    /\ rowLock = Nobody
    /\ deleted' = TRUE
    /\ Done(w)
    /\ UNCHANGED <<priceVars, status, visits, payVars, money, lockVars, last>>

\* A victim of deadlock detection, an error or a restart: nothing was written.
Rollback(w) ==
    /\ pc[w] # "idle"
    /\ custLock' = IF custLock = w THEN Nobody ELSE custLock
    /\ rowLock' = IF rowLock = w THEN Nobody ELSE rowLock
    /\ Done(w)
    /\ UNCHANGED <<priceVars, bookVars, payVars, money, last>>

Work(w) ==
    \/ \E p \in Pays \cup {NoPay} : SettleRead(w, p)
    \/ SettleBegin(w) \/ SettleCommit(w)
    \/ \E p \in Pays : LandRead(w, p)
    \/ LandWrite(w) \/ LandCommit(w)
    \/ CompleteLock(w) \/ CompleteCommit(w)
    \/ \E q \in Quotes : RescheduleRead(w, q)
    \/ RescheduleCommit(w)
    \/ RemoveRead(w) \/ RemoveCommit(w)
    \/ Rollback(w)

Next ==
    \/ \E w \in Workers : Work(w)
    \/ \E m \in Moves : Move(m)
    \/ Recount

Spec == Init /\ [][Next]_vars

----------------------------------------------------------------------------

\* The columns never claim money that was not collected, or a refund that did
\* not land, however many transactions derive them from old snapshots (recalc).
NeverOverstated ==
    /\ money.paid \subseteq collected
    /\ money.back \subseteq returned

\* paid_amount, refund_amount and due_amount are what the head comment of
\* BookingSettlementService says they are.
Formula ==
    /\ Total(money.paid) = Total(collected)
    /\ Total(money.back) = Total(returned)
    /\ Due(money) = AtLeastZero(payable - Total(collected))

\* Settling, rescheduling and recounting leave the columns exact even while
\* landings are on their way: the first holds the customer from its snapshot to
\* its commit, the others take theirs after they locked the booking.
CounterIsExact == last = "counter" => Formula

\* A visit and its commission are counted once, and only for a booking that is
\* and stays completed, whoever completes or cancels it (runComplete).
CompletedOnce == visits = IF status = "completed" THEN 1 ELSE 0

\* A booking that was completed, cancelled or missed keeps that status.
FinalStays == [][(status \in Final) => status' = status]_vars

\* What is collected stays within what the booking costs.
NotOvercollected == Total(collected) <= payable

\* payable_amount is the price less the coupon.
PayableFormula == payable = AtLeastZero(gross - Coupon)
============================================================================
