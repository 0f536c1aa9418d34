----------------------------- MODULE Receivables -----------------------------
(***************************************************************************)
(* Credit: one account that bookings may be charged to, the receivables of *)
(* one booking, and the settlements that pay them off, at the counter or   *)
(* by a QR code that is paid later or never (credit/receivables and        *)
(* credit/credit-accounts).                                                *)
(*                                                                         *)
(* No request locks a row before it looks: each reads a snapshot, decides, *)
(* and then relies on conditional UPDATEs to notice what happened since: a *)
(* Read and a Commit.  What a transaction wrote before its UPDATE misses   *)
(* is rolled back with it.                                                 *)
(***************************************************************************)
EXTENDS Sums, Sequences

CONSTANTS
    Callers,   \* requests at work at the same time
    Slips,     \* receivables that can be written, numbered in that order
    Amounts,   \* amounts a booking may be charged with
    Limits,    \* credit limits a manager may set, 0 for none
    Payable    \* payable_amount of the booking

ASSUME ReceivablesAssumption ==
    /\ \E n \in Slips : Slips = 1..n
    /\ Amounts \subseteq Nat \ {0}
    /\ Limits \subseteq Nat
    /\ Payable \in Nat

VARIABLES
    account,  \* biz_credit_account
    slip,     \* biz_receivable
    rows,     \* biz_receivable_payment with the state of the payment of each
    booking,  \* none, or biz_booking.credit_account_id: plain (NULL) or credit
    call      \* what a request decided on its snapshot

vars == <<account, slip, rows, booking, call>>

Outstanding == {"open", "partial", "overdue"}
Statuses == Outstanding \cup {"none", "settled", "cancelled"}

Idle == [op |-> "idle", id |-> 0, amount |-> 0]
AtLeastZero(n) == IF n > 0 THEN n ELSE 0

Owed(s) == s.amount - s.settled
OutstandingSlips == {r \in Slips : slip[r].status \in Outstanding}

\* The rows of a receivable whose payment is in one of the states
RowsTotal(r, states) ==
    SumOf([i \in DOMAIN rows[r] |-> rows[r][i].amount],
          {i \in DOMAIN rows[r] : rows[r][i].state \in states})

Init ==
    /\ \E limit \in Limits :
          account = [used |-> 0, limit |-> limit, active |-> TRUE, deleted |-> FALSE]
    /\ slip = [r \in Slips |-> [status |-> "none", amount |-> 0, settled |-> 0,
                                due |-> FALSE]]
    /\ rows = [r \in Slips |-> <<>>]
    /\ booking = "none"
    /\ call = [c \in Callers |-> Idle]

Begin(c, op, id, amount) ==
    /\ call[c] = Idle
    /\ call' = [call EXCEPT ![c] = [op |-> op, id |-> id, amount |-> amount]]
    /\ UNCHANGED <<account, slip, rows, booking>>

End(c) == call' = [call EXCEPT ![c] = Idle]

-----------------------------------------------------------------------------
(* Charging a booking                                                      *)

\* The condition on the account, in assertCreditAvailable and in the UPDATE
Chargeable(amount) ==
    /\ account.active /\ ~account.deleted
    /\ account.limit = 0 \/ account.used + amount <= account.limit

\* What applySettlement takes for the amount still due: paid_amount counts the
\* payments that were made, and no receivable
Collected ==
    SumOf([r \in Slips |-> RowsTotal(r, {"success"})], Slips)

Due == AtLeastZero(Payable - Collected)

\* A booking without credit
OpenPlain ==
    /\ booking = "none"
    /\ \A c \in Callers : call[c].op # "open"
    /\ booking' = "plain"
    /\ UNCHANGED <<account, slip, rows, call>>

\* The booking is created with the credit account, or charged when it is settled
OpenRead(c, amount) ==
    /\ booking = "none"
    /\ \A d \in Callers : call[d].op # "open"
    /\ amount <= Payable
    /\ Chargeable(amount)
    /\ Begin(c, "open", 0, amount)

ChargeRead(c, amount) ==
    /\ booking # "none"
    /\ amount <= Due
    /\ Chargeable(amount)
    /\ Begin(c, "charge", 0, amount)

\* Mutant: the account is not asked again
ClaimedUnconditionally(amount) == TRUE

\* The conditional UPDATE of createFromBooking
Claimed(amount) == Chargeable(amount)

\* create writes the account into the booking, applySettlement does not
ChargeCommit(c) ==
    /\ call[c].op \in {"open", "charge"}
    /\ Claimed(call[c].amount)
    /\ \E r \in Slips :
          /\ slip[r].status = "none"
          /\ \A q \in Slips : q < r => slip[q].status # "none"
          /\ slip' = [slip EXCEPT ![r].status = "open", ![r].amount = call[c].amount]
    /\ account' = [account EXCEPT !.used = @ + call[c].amount]
    /\ booking' = IF call[c].op = "open" THEN "credit" ELSE booking
    /\ End(c)
    /\ UNCHANGED rows

-----------------------------------------------------------------------------
(* Settling, cancelling, and the job that marks what is overdue            *)

SettleRead(c, r) ==
    \E total \in 1..Owed(slip[r]) :
        /\ slip[r].status \in Outstanding
        /\ Begin(c, "settle", r, total)

\* Mutant: the status is computed before settled_amount is added to
SettledOf(s, total) ==
    [s EXCEPT !.settled = @ + total,
              !.status = IF s.settled >= s.amount THEN "settled" ELSE "partial"]

\* The UPDATE of settle: MySQL computes the status from the new settled_amount
Settled(s, total) ==
    [s EXCEPT !.settled = @ + total,
              !.status = IF s.settled + total >= s.amount THEN "settled" ELSE "partial"]

\* Its condition
Settleable(s, total) == s.status \in Outstanding /\ s.settled + total <= s.amount

\* Payments at the counter are made, those by QR code wait for the channel
SettleCommit(c) ==
    \E state \in {"success", "pending"} :
        LET r == call[c].id
            total == call[c].amount
        IN  /\ call[c].op = "settle"
            /\ Settleable(slip[r], total)
            /\ slip' = [slip EXCEPT ![r] = Settled(@, total)]
            /\ rows' = [rows EXCEPT ![r] = Append(@, [amount |-> total, state |-> state])]
            /\ account' = [account EXCEPT !.used = AtLeastZero(@ - total)]
            /\ End(c)
            /\ UNCHANGED booking

\* Mutant: what was paid off in the meantime does not stop the cancellation
CancellableAlways(s) == s.status \in {"open", "overdue", "partial"}

Cancellable(s) == s.settled = 0 /\ s.status \in {"open", "overdue"}

CancelRead(c, r) == Cancellable(slip[r]) /\ Begin(c, "cancel", r, slip[r].amount)

\* The booking leaves the account, whatever else it owes there
CancelCommit(c) ==
    LET r == call[c].id
    IN  /\ call[c].op = "cancel"
        /\ Cancellable(slip[r])
        /\ slip' = [slip EXCEPT ![r].status = "cancelled"]
        /\ account' = [account EXCEPT !.used = AtLeastZero(@ - call[c].amount)]
        /\ booking' = "plain"
        /\ End(c)
        /\ UNCHANGED rows

\* The day after due_date; it concerns nobody once nothing is owed
DayPasses(r) ==
    /\ slip[r].status \in Outstanding /\ ~slip[r].due
    /\ slip' = [slip EXCEPT ![r].due = TRUE]
    /\ UNCHANGED <<account, rows, booking, call>>

\* Mutant: a receivable that was partly paid is passed over
LateOpenOnly == {r \in Slips : slip[r].due /\ slip[r].status = "open"}

Late == {r \in Slips : slip[r].due /\ slip[r].status \in {"open", "partial"}}

MarkOverdue ==
    /\ Late # {}
    /\ slip' = [r \in Slips |-> IF r \in Late
                    THEN [slip[r] EXCEPT !.status = "overdue"] ELSE slip[r]]
    /\ UNCHANGED <<account, rows, booking, call>>

\* The payment of a QR code lands, or is closed: by hand or when it expires.
\* Neither looks at the receivable.
Answered(r, i, state) ==
    /\ rows[r][i].state = "pending"
    /\ rows' = [rows EXCEPT ![r][i].state = state]
    /\ UNCHANGED <<account, slip, booking, call>>

Lands(r) == \E i \in DOMAIN rows[r] : Answered(r, i, "success")
Closes(r) == \E i \in DOMAIN rows[r] : Answered(r, i, "closed")

-----------------------------------------------------------------------------
(* The account                                                             *)

LimitRead(c, limit) ==
    /\ ~account.deleted
    /\ limit = 0 \/ limit >= account.used
    /\ Begin(c, "limit", 0, limit)

\* Nothing but deleted_at is asked again
LimitWrite(c) ==
    /\ call[c].op = "limit"
    /\ account' = IF account.deleted THEN account
                  ELSE [account EXCEPT !.limit = call[c].amount]
    /\ End(c)
    /\ UNCHANGED <<slip, rows, booking>>

SwitchActive ==
    /\ ~account.deleted
    /\ account' = [account EXCEPT !.active = ~@]
    /\ UNCHANGED <<slip, rows, booking, call>>

RemoveRead(c) ==
    /\ ~account.deleted
    /\ OutstandingSlips = {}
    /\ Begin(c, "remove", 0, 0)

RemoveWrite(c) ==
    /\ call[c].op = "remove"
    /\ account' = [account EXCEPT !.deleted = TRUE]
    /\ End(c)
    /\ UNCHANGED <<slip, rows, booking>>

\* A conditional UPDATE hit no row, InnoDB chose the transaction as the victim
\* of a deadlock, or the request died: rolled back
Rollback(c) ==
    /\ call[c] # Idle
    /\ End(c)
    /\ UNCHANGED <<account, slip, rows, booking>>

Request(c) ==
    \/ \E amount \in Amounts : OpenRead(c, amount) \/ ChargeRead(c, amount)
    \/ \E r \in Slips : SettleRead(c, r) \/ CancelRead(c, r)
    \/ \E limit \in Limits : LimitRead(c, limit)
    \/ RemoveRead(c)
    \/ ChargeCommit(c) \/ SettleCommit(c) \/ CancelCommit(c)
    \/ LimitWrite(c) \/ RemoveWrite(c) \/ Rollback(c)

Next ==
    \/ OpenPlain \/ SwitchActive \/ MarkOverdue
    \/ \E r \in Slips : DayPasses(r) \/ Lands(r) \/ Closes(r)
    \/ \E c \in Callers : Request(c)

\* The daily job is the only thing that must happen
Spec == Init /\ [][Next]_vars /\ WF_vars(MarkOverdue)

-----------------------------------------------------------------------------
TypeOK ==
    /\ account \in [used : Nat, limit : Nat, active : BOOLEAN, deleted : BOOLEAN]
    /\ slip \in [Slips -> [status : Statuses, amount : Nat, settled : Nat,
                           due : BOOLEAN]]
    /\ rows \in [Slips -> Seq([amount : Nat, state : {"success", "pending", "closed"}])]
    /\ booking \in {"none", "plain", "credit"}
    /\ call \in [Callers -> [op : {"idle", "open", "charge", "settle", "cancel",
                                   "limit", "remove"}, id : Nat, amount : Nat]]

\* used_amount is what the reports sum up, amount minus settled_amount over the
\* outstanding receivables, and a receivable is outstanding exactly while it is
\* owed something: charges, settlements and cancellations that read the same
\* rows never count twice (createFromBooking, settle, cancel).
UsedIsOutstanding ==
    /\ account.used = SumOf([r \in Slips |-> Owed(slip[r])], OutstandingSlips)
    /\ \A r \in Slips :
          /\ slip[r].settled <= slip[r].amount
          /\ slip[r].status = "settled" <=> slip[r].settled = slip[r].amount
                                            /\ slip[r].status # "none"

\* Settled money has its rows, and nothing was settled on what is cancelled
SettledHasRows ==
    \A r \in Slips :
        /\ slip[r].settled = RowsTotal(r, {"success", "pending", "closed"})
        /\ slip[r].status = "cancelled" => slip[r].settled = 0

\* No charge goes beyond the limit in force, to a switched off or a deleted
\* account, whatever the two requests that share the last of it have read.
ChargesWithinLimit ==
    [][account'.used > account.used =>
          /\ account.active /\ ~account.deleted
          /\ account.limit = 0 \/ account'.used <= account.limit]_vars

\* A receivable past its due date does not stay open or partly paid: the job
\* marks it again after each settlement (markOverdue).
DueIsMarked ==
    \A r \in Slips :
        slip[r].due /\ slip[r].status \in {"open", "partial"}
            ~> slip[r].status \notin {"open", "partial"}

\* 18.4 of the design: what is on credit counts as revenue when it is settled;
\* so the money of what is settled was collected, or its code can still be paid
SettledIsCollected ==
    \A r \in Slips : slip[r].status = "settled" =>
        \A i \in DOMAIN rows[r] : rows[r][i].state # "closed"
=============================================================================
