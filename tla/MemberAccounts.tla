--------------------------- MODULE MemberAccounts ---------------------------
(***************************************************************************)
(* The account of one member: the two purses, the points, the spending and *)
(* the level of the customer row, and the append-only ledger of            *)
(* biz_member_transaction (membership/member-accounts).                    *)
(*                                                                         *)
(* Every operation locks the customer row first, so what it does after the *)
(* lock is one step.  Two operations rely on what they read before: the    *)
(* enrolment of a customer and the nightly recount of the levels; they are *)
(* a Read and a Write.  The ledger is represented by the sums that         *)
(* sumLedger() takes over it.                                              *)
(***************************************************************************)
EXTENDS Integers, Sequences

CONSTANTS
    Callers,      \* requests and jobs that run at the same time
    Amounts,      \* amounts of money an operation may move
    Bonuses,      \* what a recharge plan gives on top
    Modes,        \* biz.member.bonusDeductMode, read anew by each payment
    Adjustments,  \* deltas a manager may enter: [principal, bonus, points]
    Threshold,    \* upgrade_amount of the levels 1..n, by their sort
    CentsPerYuan, \* CENTS_PER_YUAN
    PointsPerYuan,
    MaxMoney,     \* bound of the exploration: purses and spending
    MaxPoints     \* bound of the exploration: points and points earned

Levels == 1..Len(Threshold)
NoLevel == 0

ASSUME AccountsAssumption ==
    /\ Amounts \subseteq Nat \ {0} /\ Bonuses \subseteq Nat
    /\ Modes \subseteq {"bonus_first", "principal_first", "proportional"}
    /\ Adjustments \subseteq [principal : Int, bonus : Int, points : Int]
    /\ CentsPerYuan \in Nat \ {0} /\ PointsPerYuan \in Nat
    /\ MaxMoney \in Nat /\ MaxPoints \in Nat

\* MemberLevelsService.assertMonotonic
ASSUME LevelsAssumption ==
    /\ Threshold \in Seq(Nat)
    /\ \A k, l \in Levels : k <= l => Threshold[k] <= Threshold[l]

VARIABLES
    member,  \* the customer row
    ledger,  \* sums over the ledger's entries
    call     \* what a request or job read before it took the lock

accountVars == <<member, ledger, call>>

Idle == [op |-> "idle", arg |-> 0]
Larger(a, b) == IF a >= b THEN a ELSE b
Smaller(a, b) == IF a <= b THEN a ELSE b

-----------------------------------------------------------------------------
(* Pure parts: what an operation makes of the row and of the sums.         *)

\* writeLedger: an entry with its deltas; s is what sumLedger counts as spent
Post(l, p, b, pts, s) ==
    [principal |-> l.principal + p, bonus |-> l.bonus + b,
     points |-> l.points + pts, earned |-> l.earned + Larger(pts, 0),
     spent |-> l.spent + s]

\* splitBalanceDeduction and the branch for principal_first before it
BonusPart(amount, mode, p, b) ==
    CASE mode = "principal_first" -> Larger(amount - p, 0)
      [] mode = "bonus_first" -> Smaller(amount, b)
      [] mode = "proportional" ->
            IF p + b <= 0 THEN 0 ELSE Smaller(b, (amount * b) \div (p + b))

PrincipalPart(amount, mode, p, b) == amount - BonusPart(amount, mode, p, b)

PointsOf(amount) == (amount \div CentsPerYuan) * PointsPerYuan

\* pickUpgradeLevel: the highest level whose threshold is reached
EarnedLevel(spent) ==
    LET reached == {l \in Levels : Threshold[l] <= spent}
    IN  IF reached = {} THEN NoLevel
        ELSE CHOOSE l \in reached : \A k \in reached : k <= l

\* pickLowestLevel
LowestLevel == IF Levels = {} THEN NoLevel ELSE 1

\* syncLevel: only upwards
Synced(m) == [m EXCEPT !.level = Larger(@, EarnedLevel(m.spent))]

\* applyEarning
Earned(m, amount) ==
    Synced([m EXCEPT !.spent = @ + amount, !.points = @ + PointsOf(amount),
                     !.total = @ + PointsOf(amount)])

\* reverseEarning: spending and points are cut at zero
Reversed(m, amount) ==
    Synced([m EXCEPT !.spent = Larger(@ - amount, 0),
                     !.points = Larger(@ - PointsOf(amount), 0)])

\* Mutant: the missing points are not written back
ReversalUnadjusted(m, l, amount) == Post(l, 0, 0, -PointsOf(amount), -amount)

\* the refund entry and, when points were missing, the adjust entry after it
ReversalPosted(m, l, amount) ==
    LET missing == Larger(PointsOf(amount) - m.points, 0)
        refund == Post(l, 0, 0, -PointsOf(amount), -amount)
    IN  IF missing > 0 THEN Post(refund, 0, 0, missing, 0) ELSE refund

-----------------------------------------------------------------------------
AccountInit ==
    /\ member = [principal |-> 0, bonus |-> 0, points |-> 0, total |-> 0,
                 spent |-> 0, level |-> NoLevel]
    /\ ledger = [principal |-> 0, bonus |-> 0, points |-> 0, earned |-> 0,
                 spent |-> 0]
    /\ call = [c \in Callers |-> Idle]

\* The row and the sums after an operation, within the bounds of exploration
Become(m, l) ==
    /\ m.principal <= MaxMoney /\ m.bonus <= MaxMoney /\ m.spent <= MaxMoney
    /\ -l.spent <= MaxMoney
    /\ m.points <= MaxPoints /\ l.earned <= MaxPoints
    /\ member' = m /\ ledger' = l

\* Mutant: the purses are changed without a condition
CoveredAlways(m, amount, mode) == TRUE

\* The conditional UPDATE of applyBalancePayment and refundMember
Covered(m, amount, mode) ==
    /\ BonusPart(amount, mode, m.principal, m.bonus) <= m.bonus
    /\ PrincipalPart(amount, mode, m.principal, m.bonus) <= m.principal

Charged(m, amount, mode) ==
    [m EXCEPT !.principal = @ - PrincipalPart(amount, mode, m.principal, m.bonus),
              !.bonus = @ - BonusPart(amount, mode, m.principal, m.bonus)]

ChargePosted(m, l, amount, mode) ==
    Post(l, -PrincipalPart(amount, mode, m.principal, m.bonus),
            -BonusPart(amount, mode, m.principal, m.bonus), 0, 0)

\* applyBalancePayment; refundMember with mode balance does the same
PayFromBalance ==
    \E amount \in Amounts, mode \in Modes :
        /\ Covered(member, amount, mode)
        /\ Become(Charged(member, amount, mode),
                  ChargePosted(member, ledger, amount, mode))
        /\ UNCHANGED call

\* recordConsumption
Consume ==
    \E amount \in Amounts :
        /\ Become(Earned(member, amount),
                  Post(ledger, 0, 0, PointsOf(amount), amount))
        /\ UNCHANGED call

\* reverseConsumption, and creditBalance when the refund goes to the purse
Refund ==
    \E amount \in Amounts : \E back \in {0, amount} :
        LET m == Reversed(member, amount)
            l == ReversalPosted(member, ledger, amount)
        IN  /\ Become([m EXCEPT !.principal = @ + back], Post(l, back, 0, 0, 0))
            /\ UNCHANGED call

\* deductPoints for a booking
SpendPoints ==
    \E points \in Amounts :
        /\ member.points >= points
        /\ Become([member EXCEPT !.points = @ - points],
                  Post(ledger, 0, 0, -points, 0))
        /\ UNCHANGED call

\* recharge; a customer without a level enters at the lowest
Recharge ==
    \E pay \in Amounts, gift \in Bonuses :
        /\ Become([member EXCEPT !.principal = @ + pay, !.bonus = @ + gift,
                                 !.level = IF @ = NoLevel THEN LowestLevel ELSE @],
                  Post(ledger, pay, gift, 0, 0))
        /\ UNCHANGED call

NoDelta == [principal |-> 0, bonus |-> 0, points |-> 0]

\* adjustMember: deltas, refused as a whole when one purse cannot bear them,
\* and the level, up or down, in the same transaction
Adjust ==
    \E d \in Adjustments \cup {NoDelta}, level \in Levels \cup {NoLevel} :
        LET m == [member EXCEPT !.principal = @ + d.principal,
                                !.bonus = @ + d.bonus,
                                !.points = @ + d.points, !.level = level]
        IN  /\ d # NoDelta \/ level # member.level
            /\ m.principal >= 0 /\ m.bonus >= 0 /\ m.points >= 0
            /\ Become(m, Post(ledger, d.principal, d.bonus, d.points, 0))
            /\ UNCHANGED call

\* Mutant: the points earned are taken for the points left
RecountedNet(m, l) ==
    [principal |-> Larger(l.principal, 0), bonus |-> Larger(l.bonus, 0),
     points |-> Larger(l.points, 0), total |-> Larger(l.points, 0),
     spent |-> Larger(l.spent, 0), level |-> EarnedLevel(l.spent)]

\* recount: everything from the ledger, under the lock
Recounted(m, l) ==
    [principal |-> Larger(l.principal, 0), bonus |-> Larger(l.bonus, 0),
     points |-> Larger(l.points, 0), total |-> Larger(l.earned, 0),
     spent |-> Larger(l.spent, 0), level |-> EarnedLevel(l.spent)]

Recount ==
    /\ member' = Recounted(member, ledger)
    /\ UNCHANGED <<ledger, call>>

\* ensureMember: the level is read before the transaction and relied on in it
EnsureRead(c) ==
    /\ call[c] = Idle
    /\ call' = [call EXCEPT ![c] = [op |-> "ensure", arg |-> member.level]]
    /\ UNCHANGED <<member, ledger>>

EnsureWrite(c) ==
    /\ call[c].op = "ensure"
    /\ call' = [call EXCEPT ![c] = Idle]
    /\ member' = IF call[c].arg = NoLevel
                 THEN [member EXCEPT !.level = LowestLevel] ELSE member
    /\ UNCHANGED ledger

\* recountAllLevels: reads every row, then writes the levels that differ
LevelsRead(c) ==
    /\ call[c] = Idle
    /\ EarnedLevel(member.spent) # member.level
    /\ call' = [call EXCEPT ![c] = [op |-> "levels", arg |-> EarnedLevel(member.spent)]]
    /\ UNCHANGED <<member, ledger>>

LevelsWrite(c) ==
    /\ call[c].op = "levels"
    /\ call' = [call EXCEPT ![c] = Idle]
    /\ member' = [member EXCEPT !.level = call[c].arg]
    /\ UNCHANGED ledger

AccountNext ==
    \/ PayFromBalance \/ Consume \/ Refund \/ SpendPoints \/ Recharge
    \/ Adjust \/ Recount
    \/ \E c \in Callers : \/ EnsureRead(c) \/ EnsureWrite(c)
                          \/ LevelsRead(c) \/ LevelsWrite(c)

AccountSpec == AccountInit /\ [][AccountNext]_accountVars

-----------------------------------------------------------------------------
AccountTypeOK ==
    /\ member \in [principal : Nat, bonus : Nat, points : Nat, total : Nat,
                   spent : Nat, level : Levels \cup {NoLevel}]
    /\ ledger \in [principal : Int, bonus : Int, points : Int, earned : Nat,
                   spent : Int]

\* The reconciliation equations: each purse and the points are the sums of
\* their entries, whatever was cut at zero on the way (header of the service);
\* cutting a reversal at zero can only favour the spending, and with it the
\* level, never understate it (reverseEarning).
LedgerBalances ==
    /\ member.principal = ledger.principal
    /\ member.bonus = ledger.bonus
    /\ member.points = ledger.points
    /\ member.spent >= ledger.spent

\* points_total counts what was ever earned and only grows: neither a reversal
\* nor the recount from the ledger may lower it.
PointsTotalNeverFalls == [][member'.total >= member.total]_member
=============================================================================
