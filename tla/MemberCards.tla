----------------------------- MODULE MemberCards -----------------------------
(***************************************************************************)
(* Cards for a number of visits (membership/member-cards) and the goods    *)
(* bought with points that are such cards (membership/points-goods), on    *)
(* top of the account of their owner, whose operations they call within    *)
(* their own transactions.                                                 *)
(*                                                                         *)
(* A request first reads the card in the snapshot of its transaction, then *)
(* locks the owner and changes the card with a conditional UPDATE: a Read  *)
(* and a Commit.  Between the two another request, or the job that expires *)
(* cards with a statement of its own, may change the card.                 *)
(***************************************************************************)
EXTENDS MemberAccounts, FiniteSets

CONSTANTS
    Cards,       \* the cards that may be issued, numbered in that order
    TotalTimes,  \* total_times of the card type
    Price,       \* price of the card type
    GoodsPoints, \* points of the goods
    GoodsStock,  \* stock of the goods, a number (-1 is not explored)
    PerLimit,    \* per_limit of the goods, 0 for none
    MaxUses      \* bound of the exploration: uses written for one card

ASSUME CardsAssumption ==
    /\ \E n \in Cards : Cards = 1..n
    /\ TotalTimes \in Nat \ {0} /\ Price \in Nat
    /\ GoodsPoints \in Nat \ {0} /\ GoodsStock \in Nat /\ PerLimit \in Nat
    /\ MaxUses \in Nat

VARIABLES
    card,   \* rows: status, used_times, and whether expire_at has passed
    log,    \* uses and reverts written to biz_member_card_log
    redeem, \* biz_points_redeem by the card it issued
    stock,  \* stock of the goods
    repaid  \* history: refunds of money made for a card

cardVars == <<card, log, redeem, stock, repaid>>
vars == <<accountVars, cardVars>>

Statuses == {"none", "active", "used_up", "expired", "refunded"}

Issued == {k \in Cards : card[k].status # "none"}

Init ==
    /\ AccountInit
    /\ card = [k \in Cards |-> [status |-> "none", used |-> 0, due |-> FALSE]]
    /\ log = [k \in Cards |-> [use |-> 0, revert |-> 0]]
    /\ redeem = [k \in Cards |-> "none"]
    /\ stock = GoodsStock
    /\ repaid = [k \in Cards |-> 0]

Begin(c, op, k) ==
    /\ call[c] = Idle
    /\ call' = [call EXCEPT ![c] = [op |-> op, arg |-> k]]
    /\ UNCHANGED <<member, ledger, cardVars>>

\* The caller's operation on the card it read, answered either way
Ends(c, op, k) ==
    /\ call[c] = [op |-> op, arg |-> k]
    /\ call' = [call EXCEPT ![c] = Idle]

\* A conditional UPDATE hit no row: the transaction is rolled back
Conflict(c, op, k) ==
    /\ Ends(c, op, k)
    /\ UNCHANGED <<member, ledger, cardVars>>

\* A request fails between its two steps, or its client goes away
Abandon(c) ==
    /\ call[c] # Idle
    /\ call' = [call EXCEPT ![c] = Idle]
    /\ UNCHANGED <<member, ledger, cardVars>>

-----------------------------------------------------------------------------
(* Issuing: inserting the row needs nothing read before the lock           *)

NewCard(k) ==
    /\ card[k].status = "none"
    /\ \A j \in Cards : j < k => j \in Issued
    /\ card' = [card EXCEPT ![k].status = "active"]

\* issue: with a balance the purses pay, otherwise the money came elsewhere;
\* issueCard books the price as spent
Issue(k) ==
    \E fromBalance \in BOOLEAN, mode \in Modes :
        LET m == IF fromBalance /\ Price > 0 THEN Charged(member, Price, mode)
                 ELSE member
            l == IF fromBalance /\ Price > 0
                 THEN ChargePosted(member, ledger, Price, mode) ELSE ledger
        IN  /\ fromBalance /\ Price > 0 => Covered(member, Price, mode)
            /\ NewCard(k)
            /\ Become(Earned(m, Price), Post(l, 0, 0, PointsOf(Price), Price))
            /\ UNCHANGED <<call, log, redeem, stock, repaid>>

-----------------------------------------------------------------------------
(* Using a card and taking a use back                                      *)

\* assertUsable
Usable(k) ==
    /\ card[k].status = "active" /\ card[k].used < TotalTimes /\ ~card[k].due

UseRead(c, k) == Usable(k) /\ Begin(c, "use", k)

\* Mutant: used_times first, as .set() orders the columns; the status then
\* reads the new value
UsedOnceReordered(r) ==
    [r EXCEPT !.status = IF r.used + 2 >= TotalTimes THEN "used_up" ELSE "active",
              !.used = @ + 1]

\* The UPDATE of useCard: it names the status before it adds to used_times
UsedOnce(r) ==
    [r EXCEPT !.status = IF r.used + 1 >= TotalTimes THEN "used_up" ELSE "active",
              !.used = @ + 1]

UseCommit(c, k) ==
    /\ Ends(c, "use", k)
    /\ Usable(k) /\ log[k].use < MaxUses
    /\ card' = [card EXCEPT ![k] = UsedOnce(@)]
    /\ log' = [log EXCEPT ![k].use = @ + 1]
    /\ UNCHANGED <<member, ledger, redeem, stock, repaid>>

RevertRead(c, k) ==
    /\ card[k].status \notin {"none", "refunded"}
    /\ log[k].use > 0
    /\ Begin(c, "revert", k)

\* Mutant: the UPDATE trusts the status read before the lock
RevertCommitUnchecked(c, k) ==
    /\ Ends(c, "revert", k)
    /\ card[k].used > 0
    /\ card' = [card EXCEPT ![k].used = @ - 1, ![k].status = "active"]
    /\ log' = [log EXCEPT ![k].revert = @ + 1]
    /\ UNCHANGED <<member, ledger, redeem, stock, repaid>>

\* The UPDATE of revertUse brings a card that was used up or expired back
RevertCommit(c, k) ==
    /\ Ends(c, "revert", k)
    /\ card[k].status # "refunded" /\ card[k].used > 0
    /\ card' = [card EXCEPT ![k].used = @ - 1, ![k].status = "active"]
    /\ log' = [log EXCEPT ![k].revert = @ + 1]
    /\ UNCHANGED <<member, ledger, redeem, stock, repaid>>

\* Time passes expire_at
Due(k) ==
    /\ card[k].status # "none" /\ ~card[k].due
    /\ card' = [card EXCEPT ![k].due = TRUE]
    /\ UNCHANGED <<accountVars, log, redeem, stock, repaid>>

\* expireCards: one statement over all cards
ExpireCards ==
    LET expired == {k \in Cards : card[k].status = "active" /\ card[k].due}
    IN  /\ expired # {}
        /\ card' = [k \in Cards |-> IF k \in expired
                        THEN [card[k] EXCEPT !.status = "expired"] ELSE card[k]]
        /\ UNCHANGED <<accountVars, log, redeem, stock, repaid>>

-----------------------------------------------------------------------------
(* Refunding a card                                                        *)

RefundRead(c, k) ==
    /\ card[k].status \notin {"none", "refunded"}
    /\ Begin(c, "refund", k)

\* The conditional UPDATE of refund and voidCard
Voidable(k) == card[k].status # "refunded"

\* refund: a person enters the amount; zero only leaves a trace
RefundCommit(c, k) ==
    \E amount \in {0, Price} :
        /\ Ends(c, "refund", k)
        /\ Voidable(k)
        /\ card' = [card EXCEPT ![k].status = "refunded"]
        /\ IF amount > 0
           THEN /\ Become(Reversed(member, amount),
                          ReversalPosted(member, ledger, amount))
                /\ repaid' = [repaid EXCEPT ![k] = @ + 1]
           ELSE UNCHANGED <<member, ledger, repaid>>
        /\ UNCHANGED <<log, redeem, stock>>

-----------------------------------------------------------------------------
(* Goods bought with points                                                *)

Successful == {k \in Cards : redeem[k] = "success"}

\* PointsGoodsService.redeem: the stock's UPDATE locks the goods before the
\* redemptions are counted
Redeem(k) ==
    /\ stock > 0
    /\ PerLimit > 0 => Cardinality(Successful) < PerLimit
    /\ member.points >= GoodsPoints
    /\ NewCard(k)
    /\ stock' = stock - 1
    /\ redeem' = [redeem EXCEPT ![k] = "success"]
    /\ Become([member EXCEPT !.points = @ - GoodsPoints],
              Post(ledger, 0, 0, -GoodsPoints, 0))
    /\ UNCHANGED <<call, log, repaid>>

TakeBackRead(c, k) == redeem[k] = "success" /\ Begin(c, "takeback", k)

\* Mutant: the record is only looked at before the transaction changes it
TakeBackCommitUngated(c, k) ==
    /\ Ends(c, "takeback", k)
    /\ redeem' = [redeem EXCEPT ![k] = "reverted"]
    /\ Become([member EXCEPT !.points = @ + GoodsPoints],
              Post(ledger, 0, 0, GoodsPoints, 0))
    /\ card' = [card EXCEPT ![k].status = "refunded"]
    /\ stock' = stock + 1
    /\ UNCHANGED <<log, repaid>>

\* revertRedeem: the record, the points, the card if it is not refunded yet,
\* the stock
TakeBackCommit(c, k) ==
    /\ Ends(c, "takeback", k)
    /\ redeem[k] = "success"
    /\ redeem' = [redeem EXCEPT ![k] = "reverted"]
    /\ Become([member EXCEPT !.points = @ + GoodsPoints],
              Post(ledger, 0, 0, GoodsPoints, 0))
    /\ card' = [card EXCEPT ![k].status = "refunded"]
    /\ stock' = stock + 1
    /\ UNCHANGED <<log, repaid>>

Refused(c, k) ==
    \/ Conflict(c, "use", k) /\ ~Usable(k)
    \/ Conflict(c, "revert", k) /\ (card[k].status = "refunded" \/ card[k].used = 0)
    \/ Conflict(c, "refund", k) /\ card[k].status = "refunded"
    \/ Conflict(c, "takeback", k) /\ redeem[k] # "success"

Next ==
    \/ AccountNext /\ UNCHANGED cardVars
    \/ ExpireCards
    \/ \E c \in Callers : Abandon(c)
    \/ \E k \in Cards : Issue(k) \/ Redeem(k) \/ Due(k)
    \/ \E c \in Callers, k \in Cards :
          \/ UseRead(c, k) \/ UseCommit(c, k)
          \/ RevertRead(c, k) \/ RevertCommit(c, k)
          \/ RefundRead(c, k) \/ RefundCommit(c, k)
          \/ TakeBackRead(c, k) \/ TakeBackCommit(c, k)
          \/ Refused(c, k)

Spec == Init /\ [][Next]_vars

-----------------------------------------------------------------------------
TypeOK ==
    /\ AccountTypeOK
    /\ call \in [Callers -> [op : {"idle", "ensure", "levels", "use", "revert",
                                   "refund", "takeback"}, arg : Nat]]
    /\ card \in [Cards -> [status : Statuses, used : 0..TotalTimes, due : BOOLEAN]]
    /\ log \in [Cards -> [use : Nat, revert : Nat]]
    /\ redeem \in [Cards -> {"none", "success", "reverted"}]
    /\ stock \in Nat
    /\ repaid \in [Cards -> Nat]

\* The row agrees with the log, and a card is used up exactly when its last
\* time is: useCard's UPDATE depends on the order in which MySQL assigns.
CardFollowsLog ==
    \A k \in Cards :
        /\ card[k].used = log[k].use - log[k].revert
        /\ card[k].status = "used_up" => card[k].used = TotalTimes
        /\ card[k].status \in {"active", "expired"} => card[k].used < TotalTimes

\* Money for a card is given back at most once, and what was redeemed returns
\* to the stock once and leaves its card void, however many requests found the
\* card not refunded and the redemption successful (refund, revertRedeem).
GivenBackOnce ==
    /\ \A k \in Cards : repaid[k] <= 1
    /\ stock + Cardinality(Successful) = GoodsStock
    /\ \A k \in Cards : redeem[k] = "reverted" => card[k].status = "refunded"

\* A refunded card is never brought back, by a use, by a use taken back or by
\* the job.
RefundedStays ==
    [][\A k \in Cards : card[k].status = "refunded"
                            => card'[k].status = "refunded"]_vars
=============================================================================
