-------------------------- MODULE RefundExecution --------------------------
(***************************************************************************)
(* The refund chain of the back end: RefundsService.apply, approve,        *)
(* executeRefund and reject, with the two rows they share (biz_refund and  *)
(* biz_payment.refunded_amount) and the payment channel that really moves  *)
(* the money.                                                              *)
(*                                                                         *)
(* A caller is one HTTP request being served.  Every await of the code is  *)
(* a point where other callers run, so a request is a program counter that *)
(* moves from one statement that touches shared state to the next.  A      *)
(* conditional UPDATE outside a transaction is one atomic step; the        *)
(* landing transaction is a read (its snapshot) and a commit.              *)
(***************************************************************************)
EXTENDS Sums

CONSTANTS
    Payments,     \* payment orders already collected, the ones a refund can name
    Refunds,      \* identities of the refund orders that may be applied for
    Callers,      \* requests served concurrently
    PaidAmount,   \* biz_payment.amount of every payment
    Online,       \* the payments collected by an online channel
    Faults,       \* the failures the environment may inject, see FaultKinds
    NoRefund,     \* a request that works on no refund order
    NoRow         \* a refund order that names no payment yet

(***************************************************************************)
(* "rejected": the channel answers HTTP >= 400, or is not configured       *)
(*             (providers turn both into ConflictException);               *)
(* "declined": the channel answers with a refund result that failed;       *)
(* "lost":     no answer arrives, whether or not the refund was executed;  *)
(* "landing":  the landing transaction rolls back;                         *)
(* "abort":    the request dies between two statements (process restart,   *)
(*             or an error of a statement nothing catches).                *)
(***************************************************************************)
FaultKinds == {"rejected", "declined", "lost", "landing", "abort"}

ASSUME PaidAmountAssumption == PaidAmount \in [Payments -> Nat \ {0}]
ASSUME OnlineAssumption == Online \subseteq Payments
ASSUME FaultsAssumption == Faults \subseteq FaultKinds

ASSUME NoneAssumption == NoRefund \notin Refunds /\ NoRow \notin Payments

Modes == {"original", "cash", "balance"}

VARIABLES
    payment,   \* biz_payment: status and refunded_amount of every payment
    refund,    \* biz_refund: status, payment, actual_amount, mode
    held,      \* history: the refunds whose amount is inside refunded_amount
    paidOut,   \* the refunds the channel has really executed
    landed,    \* history: how many times executeRefund committed a refund
    pc,        \* where each request stands
    cur,       \* the refund order a request works on
    sawFull    \* the comparison executeRefund made with the row it read

vars == <<payment, refund, held, paidOut, landed, pc, cur, sawFull>>

PaymentStatus == {"success", "partial_refunded", "refunded"}

\* "none": the row does not exist.  "draft": apply() has read the payment and
\* fixed the amount, and has not inserted the row yet.
RefundStatus == {"none", "draft", "pending", "approved", "success",
                 "failed", "rejected"}

Blank == [status |-> "none", payment |-> NoRow, amount |-> 0, mode |-> "cash"]

\* A request past gate 1 is the one that works on the refund.
Executing == {"reserving", "channel", "releasing", "marking", "landing",
              "committing", "unreserving"}
Locations == {"idle", "applying", "approving"} \cup Executing

PaymentRow == [status : PaymentStatus, refunded : Nat]
RefundRow == [status : RefundStatus, payment : Payments \cup {NoRow},
              amount : Nat, mode : Modes]

TypeOK ==
    /\ payment \in [Payments -> PaymentRow]
    /\ refund \in [Refunds -> RefundRow]
    /\ held \subseteq Refunds
    /\ paidOut \subseteq Refunds
    /\ landed \in [Refunds -> Nat]
    /\ pc \in [Callers -> Locations]
    /\ cur \in [Callers -> Refunds \cup {NoRefund}]
    /\ sawFull \in [Callers -> BOOLEAN]

Init ==
    /\ payment = [p \in Payments |-> [status |-> "success", refunded |-> 0]]
    /\ refund = [r \in Refunds |-> Blank]
    /\ held = {}
    /\ paidOut = {}
    /\ landed = [r \in Refunds |-> 0]
    /\ pc = [c \in Callers |-> "idle"]
    /\ cur = [c \in Callers |-> NoRefund]
    /\ sawFull = [c \in Callers |-> FALSE]

----------------------------------------------------------------------------
(* Requests. *)

Goto(c, l) == pc' = [pc EXCEPT ![c] = l]

\* The request is over, whether it answered or threw.
Finish(c) ==
    /\ Goto(c, "idle")
    /\ cur' = [cur EXCEPT ![c] = NoRefund]
    /\ sawFull' = [sawFull EXCEPT ![c] = FALSE]

SetStatus(r, s) == refund' = [refund EXCEPT ![r].status = s]

(***************************************************************************)
(* apply(), first half: resolvePayment reads the payment, which must be    *)
(* collected and not wholly refunded, and the amount is fixed against the  *)
(* rest that was read: the whole rest before the service starts, anything  *)
(* up to it afterwards.  The original route needs an online payment.       *)
(***************************************************************************)
Draft(c, r, p, a, m) ==
    /\ pc[c] = "idle" /\ refund[r].status = "none"
    /\ payment[p].status \in {"success", "partial_refunded"}
    /\ a \in 1..(PaidAmount[p] - payment[p].refunded)
    /\ m = "original" => p \in Online
    /\ refund' = [refund EXCEPT ![r] =
                    [status |-> "draft", payment |-> p, amount |-> a, mode |-> m]]
    /\ Goto(c, "applying")
    /\ cur' = [cur EXCEPT ![c] = r]
    /\ UNCHANGED <<payment, held, paidOut, landed, sawFull>>

\* apply(), second half: the row is inserted as pending, then approve() is called.
Insert(c) ==
    /\ pc[c] = "applying"
    /\ SetStatus(cur[c], "pending")
    /\ Goto(c, "approving")
    /\ UNCHANGED <<payment, held, paidOut, landed, cur, sawFull>>

\* POST /biz/refunds/:id/approve on an existing row.
Approve(c, r) ==
    /\ pc[c] = "idle"
    /\ refund[r].status \notin {"none", "draft"}
    /\ Goto(c, "approving")
    /\ cur' = [cur EXCEPT ![c] = r]
    /\ UNCHANGED <<payment, refund, held, paidOut, landed, sawFull>>

\* Mutant: the conditional update also takes an order somebody is executing.
GrabApprovedToo(c) ==
    /\ pc[c] = "approving"
    /\ refund[cur[c]].status \notin {"success", "rejected"}
    /\ SetStatus(cur[c], "approved")
    /\ Goto(c, "reserving")
    /\ UNCHANGED <<payment, held, paidOut, landed, cur, sawFull>>

\* Gate 1: pending | failed -> approved, by a conditional update.
Grab(c) ==
    /\ pc[c] = "approving"
    /\ refund[cur[c]].status \in {"pending", "failed"}
    /\ SetStatus(cur[c], "approved")
    /\ Goto(c, "reserving")
    /\ UNCHANGED <<payment, held, paidOut, landed, cur, sawFull>>

\* Gate 1 changed no row: already handled, rejected, or in another's hands.
GrabMiss(c) ==
    /\ pc[c] = "approving"
    /\ refund[cur[c]].status \notin {"pending", "failed"}
    /\ Finish(c)
    /\ UNCHANGED <<payment, refund, held, paidOut, landed>>

\* Mutant: the update of refunded_amount carries no condition.
ReserveUnchecked(c) ==
    LET r == cur[c]
        p == refund[r].payment
    IN /\ pc[c] = "reserving"
       /\ payment' = [payment EXCEPT ![p].refunded = @ + refund[r].amount]
       /\ held' = held \cup {r}
       /\ Goto(c, IF refund[r].mode = "original" THEN "channel" ELSE "landing")
       /\ UNCHANGED <<refund, paidOut, landed, cur, sawFull>>

(***************************************************************************)
(* Gate 2, reserveRefundAmount: refunded_amount grows by the amount if the *)
(* sum stays within the payment.  Refused, the request throws and the      *)
(* refund order keeps the status gate 1 gave it.                           *)
(***************************************************************************)
Reserve(c) ==
    LET r == cur[c]
        p == refund[r].payment
    IN /\ pc[c] = "reserving"
       /\ payment[p].refunded + refund[r].amount <= PaidAmount[p]
       /\ payment' = [payment EXCEPT ![p].refunded = @ + refund[r].amount]
       /\ held' = held \cup {r}
       /\ Goto(c, IF refund[r].mode = "original" THEN "channel" ELSE "landing")
       /\ UNCHANGED <<refund, paidOut, landed, cur, sawFull>>

ReserveRefused(c) ==
    LET r == cur[c]
        p == refund[r].payment
    IN /\ pc[c] = "reserving"
       /\ payment[p].refunded + refund[r].amount > PaidAmount[p]
       /\ Finish(c)
       /\ UNCHANGED <<payment, refund, held, paidOut, landed>>

----------------------------------------------------------------------------
(* The channel.  The merchant refund number makes a repeated call harmless. *)

ChannelPays(c) ==
    /\ pc[c] = "channel"
    /\ cur[c] \notin paidOut
    /\ paidOut' = paidOut \cup {cur[c]}
    /\ UNCHANGED <<payment, refund, held, landed, pc, cur, sawFull>>

\* The answer is success or processing.
ChannelAccepts(c) ==
    /\ pc[c] = "channel"
    /\ cur[c] \in paidOut
    /\ Goto(c, "landing")
    /\ UNCHANGED <<payment, refund, held, paidOut, landed, cur, sawFull>>

\* The answer is a refund that failed: release the quota, then mark the order.
ChannelDeclines(c) ==
    /\ "declined" \in Faults
    /\ pc[c] = "channel"
    /\ cur[c] \notin paidOut
    /\ Goto(c, "releasing")
    /\ UNCHANGED <<payment, refund, held, paidOut, landed, cur, sawFull>>

(***************************************************************************)
(* The provider throws ConflictException.  The catch block rethrows it     *)
(* before it releases or marks anything.                                   *)
(***************************************************************************)
ChannelRejects(c) ==
    /\ "rejected" \in Faults
    /\ pc[c] = "channel"
    /\ cur[c] \notin paidOut
    /\ Finish(c)
    /\ UNCHANGED <<payment, refund, held, paidOut, landed>>

\* The provider throws any other error: the answer did not arrive.
ChannelAnswerLost(c) ==
    /\ "lost" \in Faults
    /\ pc[c] = "channel"
    /\ Goto(c, "releasing")
    /\ UNCHANGED <<payment, refund, held, paidOut, landed, cur, sawFull>>

----------------------------------------------------------------------------
(* releaseRefundAmount and markFailed. *)

\* A conditional update too: the column never goes below zero.
ReleaseQuota(r) ==
    LET p == refund[r].payment
    IN IF payment[p].refunded >= refund[r].amount
       THEN /\ payment' = [payment EXCEPT ![p].refunded = @ - refund[r].amount]
            /\ held' = held \ {r}
       ELSE UNCHANGED <<payment, held>>

Release(c) ==
    /\ pc[c] = "releasing"
    /\ ReleaseQuota(cur[c])
    /\ Goto(c, "marking")
    /\ UNCHANGED <<refund, paidOut, landed, cur, sawFull>>

MarkFailed(c) ==
    /\ pc[c] = "marking"
    /\ IF refund[cur[c]].status = "approved"
       THEN SetStatus(cur[c], "failed")
       ELSE UNCHANGED refund
    /\ Finish(c)
    /\ UNCHANGED <<payment, held, paidOut, landed>>

----------------------------------------------------------------------------
(* executeRefund: one transaction. *)

\* Its first read fixes what it sees of refunded_amount.
LandRead(c) ==
    LET p == refund[cur[c]].payment
    IN /\ pc[c] = "landing"
       /\ refund[cur[c]].status = "approved"
       /\ sawFull' = [sawFull EXCEPT ![c] = payment[p].refunded >= PaidAmount[p]]
       /\ Goto(c, "committing")
       /\ UNCHANGED <<payment, refund, held, paidOut, landed, cur>>

\* Mutant: the landing adds the amount that gate 2 has added already.
LandCommitAccumulates(c) ==
    LET r == cur[c]
        p == refund[r].payment
        full == IF sawFull[c] THEN "refunded" ELSE "partial_refunded"
    IN /\ pc[c] = "committing"
       /\ SetStatus(r, "success")
       /\ payment' = [payment EXCEPT ![p] =
                        [status |-> full, refunded |-> @.refunded + refund[r].amount]]
       /\ landed' = [landed EXCEPT ![r] = @ + 1]
       /\ Finish(c)
       /\ UNCHANGED <<held, paidOut>>

(***************************************************************************)
(* The commit: the order becomes success, the payment's status is written  *)
(* from the comparison, and the member account, the commission and the     *)
(* booking are corrected once each; landed counts that.                    *)
(***************************************************************************)
LandCommit(c) ==
    LET r == cur[c]
        p == refund[r].payment
        full == IF sawFull[c] THEN "refunded" ELSE "partial_refunded"
    IN /\ pc[c] = "committing"
       /\ SetStatus(r, "success")
       /\ payment' = [payment EXCEPT ![p].status = full]
       /\ landed' = [landed EXCEPT ![r] = @ + 1]
       /\ Finish(c)
       /\ UNCHANGED <<held, paidOut>>

\* Mutant: the quota is given back although the channel has paid.
LandFailsReleases(c) ==
    /\ "landing" \in Faults
    /\ pc[c] \in {"landing", "committing"}
    /\ Goto(c, "unreserving")
    /\ UNCHANGED <<payment, refund, held, paidOut, landed, cur, sawFull>>

\* Mutant: a cash or balance refund that rolled back keeps its quota.
LandFailsKeepsQuota(c) ==
    /\ "landing" \in Faults
    /\ pc[c] \in {"landing", "committing"}
    /\ Finish(c)
    /\ UNCHANGED <<payment, refund, held, paidOut, landed>>

\* The transaction rolled back: the quota stays when the channel has paid.
LandFails(c) ==
    /\ "landing" \in Faults
    /\ pc[c] \in {"landing", "committing"}
    /\ IF refund[cur[c]].mode = "original"
       THEN Finish(c)
       ELSE Goto(c, "unreserving") /\ UNCHANGED <<cur, sawFull>>
    /\ UNCHANGED <<payment, refund, held, paidOut, landed>>

\* A refund without a channel call gives its quota back and keeps its status.
Unreserve(c) ==
    /\ pc[c] = "unreserving"
    /\ ReleaseQuota(cur[c])
    /\ Finish(c)
    /\ UNCHANGED <<refund, paidOut, landed>>

----------------------------------------------------------------------------

\* Mutant: the status is checked when the row is read and not by the update.
RejectUnlessRejected(r) ==
    /\ refund[r].status \notin {"none", "draft", "rejected"}
    /\ SetStatus(r, "rejected")
    /\ UNCHANGED <<payment, held, paidOut, landed, pc, cur, sawFull>>

\* POST /biz/refunds/:id/reject: a single conditional update of a pending order.
Reject(r) ==
    /\ refund[r].status = "pending"
    /\ SetStatus(r, "rejected")
    /\ UNCHANGED <<payment, held, paidOut, landed, pc, cur, sawFull>>

\* The request dies where it stands; a draft is only in its memory.
Abort(c) ==
    /\ "abort" \in Faults
    /\ pc[c] # "idle"
    /\ IF pc[c] = "applying"
       THEN refund' = [refund EXCEPT ![cur[c]] = Blank]
       ELSE UNCHANGED refund
    /\ Finish(c)
    /\ UNCHANGED <<payment, held, paidOut, landed>>

Gates(c) == Insert(c) \/ Grab(c) \/ GrabMiss(c) \/ Reserve(c) \/ ReserveRefused(c)
Channel(c) == \/ ChannelPays(c) \/ ChannelAccepts(c) \/ ChannelDeclines(c)
              \/ ChannelRejects(c) \/ ChannelAnswerLost(c)
Undo(c) == Release(c) \/ MarkFailed(c) \/ Unreserve(c)
Landing(c) == LandRead(c) \/ LandCommit(c) \/ LandFails(c)

Step(c) == Gates(c) \/ Channel(c) \/ Undo(c) \/ Landing(c) \/ Abort(c)

Next ==
    \/ \E c \in Callers, r \in Refunds, p \in Payments, m \in Modes :
          \E a \in 1..PaidAmount[p] : Draft(c, r, p, a, m)
    \/ \E c \in Callers, r \in Refunds : Approve(c, r)
    \/ \E c \in Callers : Step(c)
    \/ \E r \in Refunds : Reject(r)

Spec == Init /\ [][Next]_vars

----------------------------------------------------------------------------
(* What the refund chain promises. *)

Owners(r) == {c \in Callers : cur[c] = r /\ pc[c] \in Executing}

\* The payment never gives back more than it collected, whatever the
\* interleaving of requests that read the same rest (gate 2).
RefundedWithinPayment ==
    \A p \in Payments : payment[p].refunded <= PaidAmount[p]

\* Gate 1 lets one request at a time execute a refund order, across retries
\* of failed orders and double clicks; the order is approved meanwhile.
OneExecutor ==
    \A c, d \in Callers :
        /\ pc[c] \in Executing => refund[cur[c]].status = "approved"
        /\ (c # d /\ pc[c] \in Executing /\ pc[d] \in Executing) => cur[c] # cur[d]

\* A refund order lands exactly once if it succeeds and never otherwise, and a
\* landed order keeps its amount inside refunded_amount: the corrections of
\* member account, commission and booking are neither lost nor repeated.
LandsOnce ==
    \A r \in Refunds :
        /\ landed[r] = IF refund[r].status = "success" THEN 1 ELSE 0
        /\ refund[r].status = "success" => r \in held

\* The comment of reserveRefundAmount: the money the channel has given back is
\* never more than the quota held locally.  Order by order, which is stronger.
PaidOutIsHeld == paidOut \subseteq held

\* Quota is held for a reason: the money left, the order landed, or a request
\* is still working on it (approve's comment: "否则额度会被白占").
QuotaHasReason ==
    \A r \in held :
        \/ r \in paidOut
        \/ refund[r].status = "success"
        \/ Owners(r) # {}

AmountOf == [r \in Refunds |-> refund[r].amount]
HeldFor(p) == {r \in held : refund[r].payment = p}

\* refunded_amount is, at every moment, the sum of the amounts of the orders
\* that reserved it and did not release it: no reservation is counted twice
\* and none is released twice (gate 2, its release and the landing).
QuotaAccounts ==
    \A p \in Payments : payment[p].refunded = SumOf(AmountOf, HeldFor(p))

\* What the ledger sees of the orders: the rows written, and how they ended.
Written == {r \in Refunds : refund[r].status \notin {"none", "draft"}}
Opened == [r \in Written |-> [payment |-> refund[r].payment,
                              amount |-> refund[r].amount]]
SettledOrders == {r \in Refunds : refund[r].status = "success"}
RefusedOrders == {r \in Refunds : refund[r].status = "rejected"}

Ledger == INSTANCE RefundLedger
    WITH opened <- Opened, settled <- SettledOrders, refused <- RefusedOrders

\* The chain implements the ledger: whatever the requests, retries and channel
\* answers, each step opens, settles or refuses one order or changes nothing
\* the ledger sees, and a settlement never exceeds the payment.
ImplementsLedger == Ledger!LedgerSpec

\* Success and rejection are final.
Terminal ==
    [][\A r \in Refunds :
         refund[r].status \in {"success", "rejected"} => refund'[r] = refund[r]]_vars
============================================================================
