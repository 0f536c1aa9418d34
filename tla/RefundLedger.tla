---------------------------- MODULE RefundLedger ----------------------------
(***************************************************************************)
(* What the refund chain promises, with no request, quota, channel or      *)
(* retry: an order is opened once for a payment and an amount, it ends at  *)
(* most once, refused or settled, and what is settled for a payment never  *)
(* exceeds what the payment collected.                                     *)
(***************************************************************************)
EXTENDS Sums

CONSTANTS Payments, Refunds, PaidAmount

VARIABLES
    opened,    \* the orders written so far, with their payment and amount
    settled,   \* the orders whose money has been accounted for
    refused    \* the orders turned down

ledgerVars == <<opened, settled, refused>>

Settled(p, S) ==
    SumOf([r \in S |-> opened[r].amount], {r \in S : opened[r].payment = p})

LedgerInit ==
    /\ opened = [r \in {} |-> 0]
    /\ settled = {}
    /\ refused = {}

Open(r, p, a) ==
    /\ r \in Refunds \ DOMAIN opened
    /\ opened' = [q \in DOMAIN opened \cup {r} |->
                    IF q = r THEN [payment |-> p, amount |-> a] ELSE opened[q]]
    /\ UNCHANGED <<settled, refused>>

Settle(r) ==
    /\ r \in DOMAIN opened \ (settled \cup refused)
    /\ Settled(opened[r].payment, settled \cup {r}) <= PaidAmount[opened[r].payment]
    /\ settled' = settled \cup {r}
    /\ UNCHANGED <<opened, refused>>

Refuse(r) ==
    /\ r \in DOMAIN opened \ (settled \cup refused)
    /\ refused' = refused \cup {r}
    /\ UNCHANGED <<opened, settled>>

LedgerNext ==
    \E r \in Refunds :
        \/ \E p \in Payments : \E a \in 1..PaidAmount[p] : Open(r, p, a)
        \/ Settle(r)
        \/ Refuse(r)

LedgerSpec == LedgerInit /\ [][LedgerNext]_ledgerVars
=============================================================================
