----------------------------- MODULE Commission -----------------------------
(***************************************************************************)
(* The commission of the staff (reports/commission): accrued item by item  *)
(* in the transaction that completes a booking, reversed in the one that   *)
(* lands a refund, reversed by hand, and paid out month by month.          *)
(*                                                                         *)
(* Accruing and reversing lock what they change, and completing a booking  *)
(* and landing its refund both lock the booking: one step each.  settle    *)
(* deliberately reads without a lock and relies on its conditional UPDATE: *)
(* a Read and a Commit.                                                    *)
(***************************************************************************)
EXTENDS Sums, SequencesExt

CONSTANTS
    Bookings,
    Positions, \* items of a booking
    Shares,    \* what the rules may give for an item, 0 for no commission
    Managers,  \* requests that settle at the same time
    LastMonth, \* bound of the exploration: the months that come
    MaxRefunds \* bound of the exploration: refunds that land

ASSUME CommissionAssumption ==
    /\ IsFiniteSet(Positions) /\ Positions # {} /\ Shares \subseteq Nat
    /\ LastMonth \in Nat \ {0} /\ MaxRefunds \in Nat

Months == 1..LastMonth

VARIABLES
    completed, \* bookings that are completed
    record,    \* biz_commission_record by id
    month,     \* the month of the shop's day
    asked,     \* what a manager's settlement read
    payout,    \* history: what settlements answered, in their order
    refunded,  \* history: bookings with a refund landed after completion
    refunds    \* how much of the bound is used up

commissionVars == <<completed, record, month, asked, payout, refunded, refunds>>

NotAsked == [op |-> "idle"]
NoBatch == 0
Ids == DOMAIN record
Accrued == {i \in Ids : record[i].status = "accrued"}
OfMonth(p) == {i \in Ids : record[i].period = p}
Total(ids) == SumOf([i \in Ids |-> record[i].amount], ids)

CommissionInit ==
    /\ completed = {}
    /\ record = <<>>
    /\ month = 1
    /\ asked = [m \in Managers |-> NotAsked]
    /\ payout = <<>>
    /\ refunded = {}
    /\ refunds = 0

-----------------------------------------------------------------------------
\* accrueForBooking: a record for every item that has none in force and whose
\* rule, price and base give more than zero; share is what they give
Accruals(b, share) ==
    LET missing == {n \in Positions :
                      /\ share[n] > 0
                      /\ \A i \in Ids : <<record[i].booking, record[i].item>> = <<b, n>>
                                            => record[i].status = "reversed"}
    IN  {[booking |-> b, item |-> n, amount |-> share[n], period |-> month,
          status |-> "accrued", batch |-> NoBatch] : n \in missing}

\* runComplete and autoCompleteExpired: whoever comes second finds it completed
Complete(b) ==
    /\ b \notin completed
    /\ completed' = completed \cup {b}
    /\ \E share \in [Positions -> Shares] :
          record' = record \o SetToSeq(Accruals(b, share))
    /\ UNCHANGED <<month, asked, payout, refunded, refunds>>

\* Mutant: only what was accrued in the running month
ReversibleThisMonth(b) ==
    {i \in Accrued : record[i].booking = b /\ record[i].period = month}

\* reverseForBooking: what is paid out stays
Reversible(b) == {i \in Accrued : record[i].booking = b}

Reversed(ids) ==
    [i \in Ids |-> IF i \in ids THEN [record[i] EXCEPT !.status = "reversed"]
                   ELSE record[i]]

\* finalize of a refund order; a deposit may be refunded before completion
RefundLands(b) ==
    /\ refunds < MaxRefunds
    /\ refunds' = refunds + 1
    /\ record' = Reversed(Reversible(b))
    /\ refunded' = refunded \cup ({b} \cap completed)
    /\ UNCHANGED <<completed, month, asked, payout>>

\* reverseRecord: its conditional UPDATE decides
ReverseRecord(i) ==
    /\ i \in Accrued
    /\ record' = Reversed({i})
    /\ UNCHANGED <<completed, month, asked, payout, refunded, refunds>>

-----------------------------------------------------------------------------
\* The largest sequence of the month's batches, plus one
NextBatch(p) == Max({record[i].batch : i \in OfMonth(p)} \cup {NoBatch}) + 1

BatchRead(m, p) ==
    LET ids == Accrued \cap OfMonth(p)
    IN  /\ asked[m] = NotAsked /\ ids # {}
        /\ asked' = [asked EXCEPT ![m] = [op |-> "settle", period |-> p, ids |-> ids,
                                          batch |-> NextBatch(p), amount |-> Total(ids)]]
        /\ UNCHANGED <<completed, record, month, payout, refunded, refunds>>

\* Mutant: settles whatever the UPDATE still finds
UnchangedSinceSome(ids) == ids \cap Accrued # {}

\* The UPDATE found every record that was read still accrued
UnchangedSince(ids) == ids \subseteq Accrued

BatchCommit(m) ==
    /\ asked[m] # NotAsked
    /\ UnchangedSince(asked[m].ids)
    /\ record' = [i \in Ids |->
                    IF i \in asked[m].ids \cap Accrued
                    THEN [record[i] EXCEPT !.status = "settled", !.batch = asked[m].batch]
                    ELSE record[i]]
    /\ payout' = Append(payout, [period |-> asked[m].period, batch |-> asked[m].batch,
                                 amount |-> asked[m].amount])
    /\ asked' = [asked EXCEPT ![m] = NotAsked]
    /\ UNCHANGED <<completed, month, refunded, refunds>>

\* 409, an error or a deadlock: the transaction is rolled back
SettleFails(m) ==
    /\ asked[m] # NotAsked
    /\ asked' = [asked EXCEPT ![m] = NotAsked]
    /\ UNCHANGED <<completed, record, month, payout, refunded, refunds>>

NextMonth ==
    /\ month < LastMonth
    /\ month' = month + 1
    /\ UNCHANGED <<completed, record, asked, payout, refunded, refunds>>

CommissionNext ==
    \/ \E b \in Bookings : Complete(b) \/ RefundLands(b)
    \/ \E i \in Ids : ReverseRecord(i)
    \/ \E m \in Managers, p \in Months : BatchRead(m, p)
    \/ \E m \in Managers : BatchCommit(m) \/ SettleFails(m)
    \/ NextMonth

CommissionSpec == CommissionInit /\ [][CommissionNext]_commissionVars

-----------------------------------------------------------------------------
Records == [booking : Bookings, item : Positions, amount : Nat, period : Months,
            status : {"accrued", "settled", "reversed"}, batch : Nat]
Settlements == [op : {"settle"}, period : Months, ids : SUBSET Nat, batch : Nat,
                amount : Nat]

CommissionTypeOK ==
    /\ completed \subseteq Bookings
    /\ record \in Seq(Records)
    /\ month \in Months
    /\ asked \in [Managers -> Settlements \cup {NotAsked}]
    /\ payout \in Seq([period : Months, batch : Nat, amount : Nat])
    /\ refunded \subseteq Bookings
    /\ refunds \in 0..MaxRefunds

PaidOut(p, batch) ==
    {i \in OfMonth(p) : record[i].status = "settled" /\ record[i].batch = batch}

\* Two managers settle a month while refunds land and bookings are completed:
\* no two answers name the same batch, and each names the sum of its records.
BatchesAddUp ==
    \A k \in 1..Len(payout) :
        /\ payout[k].amount = Total(PaidOut(payout[k].period, payout[k].batch))
        /\ \A j \in 1..Len(payout) : j # k =>
              <<payout[j].period, payout[j].batch>> # <<payout[k].period, payout[k].batch>>

\* After a refund of a completed booking nothing of it is left to be paid out,
\* and it is not accrued again, whatever month it is and whoever settles.
RefundedIsNotDue ==
    \A i \in Accrued : record[i].booking \notin refunded
=============================================================================
