-------------------------- MODULE MemberCardsProofs --------------------------
(***************************************************************************)
(* Theorems about an account, its cards and the goods bought with points,  *)
(* for any number of requests, cards, levels and amounts.  What is proved  *)
(* of the account (the row against the sums of the ledger) and of the      *)
(* cards (the row against its log) are two halves of one invariant.        *)
(***************************************************************************)
EXTENDS MemberCards, TLAPS, FiniteSetTheorems, WellFoundedInduction

MemberRows == [principal : Nat, bonus : Nat, points : Nat, total : Nat,
               spent : Nat, level : Levels \cup {NoLevel}]
LedgerSums == [principal : Int, bonus : Int, points : Int, earned : Nat,
               spent : Int]

\* A row and sums that balance; points_total never exceeds what was earned.
Agree(m, l) ==
    /\ m \in MemberRows /\ l \in LedgerSums
    /\ m.principal = l.principal /\ m.bonus = l.bonus /\ m.points = l.points
    /\ m.spent >= l.spent /\ m.total <= l.earned

Calls == [op : {"idle", "ensure", "levels", "use", "revert", "refund", "takeback"},
          arg : Nat]

\* A recount of the levels writes a level.
CallsMatch ==
    \A c \in Callers : call[c].op = "levels" => call[c].arg \in Levels \cup {NoLevel}

AccountInv == Agree(member, ledger) /\ call \in [Callers -> Calls] /\ CallsMatch

CardRows == [status : Statuses, used : 0..TotalTimes, due : BOOLEAN]
LogRows == [use : Nat, revert : Nat]

CardsTypeOK ==
    /\ card \in [Cards -> CardRows]
    /\ log \in [Cards -> LogRows]
    /\ redeem \in [Cards -> {"none", "success", "reverted"}]
    /\ stock \in Nat
    /\ repaid \in [Cards -> Nat]

\* A card not issued is unused, and who redeemed or was repaid has had a card.
CardsMatch ==
    \A k \in Cards :
        /\ card[k].status = "none" => card[k].used = 0
        /\ redeem[k] = "success" => card[k].status # "none"
        /\ repaid[k] # 0 => card[k].status = "refunded"

CardInv == CardsTypeOK /\ CardsMatch /\ CardFollowsLog /\ GivenBackOnce

-----------------------------------------------------------------------------
(* Levels and amounts                                                      *)

\* A set of numbers up to n has a greatest one.
LEMMA Greatest ==
    ASSUME NEW n \in Nat, NEW S \in SUBSET (1..n), S # {}
    PROVE  \E l \in S : \A k \in S : k <= l
  <1> DEFINE T == {n - l : l \in S}
  <1>1. T \subseteq Nat
    OBVIOUS
  <1>2. T # {}
    OBVIOUS
  <1>3. PICK x \in T : \A y \in T : ~(<<y, x>> \in OpToRel(<, Nat))
    BY <1>1, <1>2, WFMin, NatLessThanWellFounded, Zenon
  <1>4. \A y \in T : ~(y < x)
    BY <1>1, <1>3 DEF OpToRel
  <1>5. PICK l \in S : x = n - l
    BY <1>1
  <1>6. \A k \in S : ~(n - k < n - l)
    BY <1>4, <1>5
  <1>7. \A k \in S : k <= l
    BY <1>6
  <1> QED
    BY <1>7

\* pickUpgradeLevel and pickLowestLevel return a level, or none.
LEMMA EarnedLevelType ==
    ASSUME NEW spent \in Int
    PROVE  /\ EarnedLevel(spent) \in Levels \cup {NoLevel}
           /\ LowestLevel \in Levels \cup {NoLevel}
  <1> DEFINE reached == {l \in Levels : Threshold[l] <= spent}
  <1>1. Len(Threshold) \in Nat
    BY LevelsAssumption
  <1>2. CASE reached = {}
    BY <1>1, <1>2 DEF EarnedLevel, LowestLevel, Levels
  <1>3. CASE reached # {}
    <2>1. \E l \in reached : \A k \in reached : k <= l
      BY <1>1, <1>3, Greatest DEF Levels
    <2> QED
      BY <1>1, <1>3, <2>1 DEF EarnedLevel, LowestLevel, Levels
  <1> QED
    BY <1>2, <1>3

LEMMA PointsOfType ==
    ASSUME NEW amount \in Nat
    PROVE  PointsOf(amount) \in Nat
  <1>1. amount \div CentsPerYuan \in Nat
    BY AccountsAssumption
  <1> QED
    BY <1>1, AccountsAssumption DEF PointsOf

LEMMA BonusPartType ==
    ASSUME NEW amount \in Nat, NEW mode \in Modes, NEW p \in Nat, NEW b \in Nat
    PROVE  BonusPart(amount, mode, p, b) \in Int
  <1>1. mode \in {"bonus_first", "principal_first", "proportional"}
    BY AccountsAssumption
  <1>2. p + b > 0 => (amount * b) \div (p + b) \in Int
    <2> SUFFICES ASSUME p + b > 0 PROVE (amount * b) \div (p + b) \in Int
      OBVIOUS
    <2>1. amount * b \in Nat /\ p + b \in Nat \ {0}
      OBVIOUS
    <2> QED
      BY <2>1
  <1> DEFINE share == (amount * b) \div (p + b)
  <1> HIDE DEF share
  <1>3. BonusPart(amount, mode, p, b) =
          CASE mode = "principal_first" -> Larger(amount - p, 0)
            [] mode = "bonus_first" -> Smaller(amount, b)
            [] mode = "proportional" -> IF p + b <= 0 THEN 0 ELSE Smaller(b, share)
    BY DEF BonusPart, share
  <1> QED
    BY <1>1, <1>2, <1>3 DEF Larger, Smaller, share

-----------------------------------------------------------------------------
(* What an operation makes of a row and sums that agree                    *)

LEMMA ChargedAgree ==
    ASSUME NEW m, NEW l, Agree(m, l), NEW amount \in Nat, NEW mode \in Modes,
           Covered(m, amount, mode)
    PROVE  /\ Agree(Charged(m, amount, mode), ChargePosted(m, l, amount, mode))
           /\ Charged(m, amount, mode).total = m.total
  <1> DEFINE bonus == BonusPart(amount, mode, m.principal, m.bonus)
  <1>1. bonus \in Int
    BY BonusPartType DEF Agree, MemberRows
  <1>2. bonus <= m.bonus /\ amount - bonus <= m.principal
    BY DEF Covered, PrincipalPart
  <1>3. /\ Charged(m, amount, mode) =
             [m EXCEPT !.principal = @ - (amount - bonus), !.bonus = @ - bonus]
        /\ ChargePosted(m, l, amount, mode) = Post(l, -(amount - bonus), -bonus, 0, 0)
    BY DEF Charged, ChargePosted, PrincipalPart
  <1> DEFINE row == [m EXCEPT !.principal = @ - (amount - bonus), !.bonus = @ - bonus]
             sums == Post(l, -(amount - bonus), -bonus, 0, 0)
  <1> HIDE DEF bonus
  <1>4. m \in MemberRows
    BY DEF Agree
  <1>5. row \in MemberRows
    <2>1. m.principal - (amount - bonus) \in Nat /\ m.bonus - bonus \in Nat
      BY <1>1, <1>2, <1>4 DEF MemberRows
    <2> QED
      BY <1>4, <2>1, Zenon DEF MemberRows
  <1>6. /\ row.principal = m.principal - (amount - bonus) /\ row.bonus = m.bonus - bonus
        /\ row.points = m.points /\ row.total = m.total /\ row.spent = m.spent
    BY <1>4 DEF MemberRows
  <1>7. /\ sums \in LedgerSums
        /\ sums.principal = l.principal - (amount - bonus) /\ sums.bonus = l.bonus - bonus
        /\ sums.points = l.points /\ sums.earned = l.earned /\ sums.spent = l.spent
    BY <1>1 DEF Agree, LedgerSums, Post, Larger
  <1> HIDE DEF row, sums
  <1>8. Agree(row, sums) /\ row.total = m.total
    BY <1>1, <1>4, <1>7, <1>5, <1>6 DEF Agree, MemberRows, LedgerSums
  <1> QED
    BY <1>3, <1>8 DEF row, sums

LEMMA SyncedType ==
    ASSUME NEW m \in MemberRows
    PROVE  /\ Synced(m) \in MemberRows
           /\ Synced(m).principal = m.principal /\ Synced(m).bonus = m.bonus
           /\ Synced(m).points = m.points /\ Synced(m).total = m.total
           /\ Synced(m).spent = m.spent
  <1>1. EarnedLevel(m.spent) \in Levels \cup {NoLevel}
    BY EarnedLevelType DEF MemberRows
  <1>2. Larger(m.level, EarnedLevel(m.spent)) \in Levels \cup {NoLevel}
    BY <1>1 DEF MemberRows, Larger
  <1> QED
    BY <1>2 DEF Synced, MemberRows

LEMMA EarnedAgree ==
    ASSUME NEW m, NEW l, Agree(m, l), NEW amount \in Nat
    PROVE  /\ Agree(Earned(m, amount), Post(l, 0, 0, PointsOf(amount), amount))
           /\ Earned(m, amount).total >= m.total
  <1> DEFINE points == PointsOf(amount)
             raised == [m EXCEPT !.spent = @ + amount, !.points = @ + points,
                                 !.total = @ + points]
  <1>1. points \in Nat
    BY PointsOfType
  <1>2. Earned(m, amount) = Synced(raised)
    BY DEF Earned
  <1> HIDE DEF points
  <1>3. /\ raised \in MemberRows
        /\ raised.principal = m.principal /\ raised.bonus = m.bonus
        /\ raised.points = m.points + points /\ raised.total = m.total + points
        /\ raised.spent = m.spent + amount
    <2>1. m \in MemberRows
      BY DEF Agree
    <2>2. /\ m.spent + amount \in Nat /\ m.points + points \in Nat
          /\ m.total + points \in Nat
      BY <1>1, <2>1 DEF MemberRows
    <2>3. raised \in MemberRows
      BY <2>1, <2>2, Zenon DEF MemberRows
    <2> QED
      BY <2>1, <2>3 DEF MemberRows
  <1> HIDE DEF raised
  <1>4. Agree(Synced(raised), Post(l, 0, 0, points, amount))
    BY <1>1, <1>3, SyncedType DEF Agree, MemberRows, LedgerSums, Post, Larger
  <1>5. Synced(raised).total = m.total + points
    BY <1>3, SyncedType
  <1>6. m.total \in Nat
    BY DEF Agree, MemberRows
  <1>7. Earned(m, amount).total >= m.total
    BY <1>1, <1>2, <1>5, <1>6
  <1> QED
    BY <1>2, <1>4, <1>7 DEF points

\* What is cut at zero gets the entry that makes up for it.
LEMMA ReversedAgree ==
    ASSUME NEW m, NEW l, Agree(m, l), NEW amount \in Nat
    PROVE  /\ Agree(Reversed(m, amount), ReversalPosted(m, l, amount))
           /\ Reversed(m, amount).total = m.total
  <1> DEFINE points == PointsOf(amount)
             cut == [m EXCEPT !.spent = Larger(@ - amount, 0),
                              !.points = Larger(@ - points, 0)]
             missing == Larger(points - m.points, 0)
             refund == Post(l, 0, 0, -points, -amount)
  <1>1. points \in Nat
    BY PointsOfType
  <1>2. /\ Reversed(m, amount) = Synced(cut)
        /\ ReversalPosted(m, l, amount) =
             IF missing > 0 THEN Post(refund, 0, 0, missing, 0) ELSE refund
    BY DEF Reversed, ReversalPosted
  <1> HIDE DEF points
  <1>3. /\ cut \in MemberRows
        /\ cut.principal = m.principal /\ cut.bonus = m.bonus /\ cut.total = m.total
        /\ cut.points = Larger(m.points - points, 0)
        /\ cut.spent = Larger(m.spent - amount, 0)
    <2>1. m \in MemberRows
      BY DEF Agree
    <2>2. Larger(m.spent - amount, 0) \in Nat /\ Larger(m.points - points, 0) \in Nat
      BY <1>1, <2>1 DEF MemberRows, Larger
    <2>3. cut \in MemberRows
      BY <2>1, <2>2, Zenon DEF MemberRows
    <2> QED
      BY <2>1, <2>3 DEF MemberRows
  <1>4. /\ refund \in LedgerSums
        /\ refund.principal = l.principal /\ refund.bonus = l.bonus
        /\ refund.points = l.points - points /\ refund.spent = l.spent - amount
        /\ refund.earned = l.earned
    BY <1>1 DEF Agree, LedgerSums, Post, Larger
  <1> HIDE DEF cut, refund
  <1>5. /\ Synced(cut) \in MemberRows
        /\ Synced(cut).principal = m.principal /\ Synced(cut).bonus = m.bonus
        /\ Synced(cut).total = m.total
        /\ Synced(cut).points = Larger(m.points - points, 0)
        /\ Synced(cut).spent = Larger(m.spent - amount, 0)
    BY <1>3, SyncedType
  <1>6. CASE missing > 0
    <2> DEFINE sums == Post(refund, 0, 0, missing, 0)
    <2>1. /\ sums \in LedgerSums
          /\ sums.principal = l.principal /\ sums.bonus = l.bonus
          /\ sums.points = 0 /\ sums.spent = l.spent - amount
          /\ sums.earned >= l.earned
      BY <1>1, <1>4, <1>6 DEF Agree, MemberRows, LedgerSums, Post, Larger
    <2>2. ReversalPosted(m, l, amount) = sums
      BY <1>2, <1>6
    <2> HIDE DEF sums
    <2>3. m.points - points <= 0
      BY <1>1, <1>6 DEF Agree, MemberRows, Larger
    <2>4. Agree(Synced(cut), sums)
      BY <1>1, <1>5, <2>1, <2>3 DEF Agree, MemberRows, LedgerSums, Larger
    <2> QED
      BY <1>2, <1>5, <2>2, <2>4
  <1>7. CASE ~(missing > 0)
    <2>1. ReversalPosted(m, l, amount) = refund /\ m.points - points >= 0
      BY <1>1, <1>2, <1>7 DEF Agree, MemberRows, Larger
    <2>2. Agree(Synced(cut), refund)
      BY <1>1, <1>4, <1>5, <2>1 DEF Agree, MemberRows, LedgerSums, Larger
    <2> QED
      BY <1>2, <1>5, <2>1, <2>2
  <1> QED
    BY <1>6, <1>7

\* recount: the sums put the row right, and the total is what was earned.
LEMMA RecountedAgree ==
    ASSUME NEW m, NEW l, Agree(m, l)
    PROVE  Agree(Recounted(m, l), l) /\ Recounted(m, l).total >= m.total
  <1>1. EarnedLevel(l.spent) \in Levels \cup {NoLevel}
    BY EarnedLevelType DEF Agree, LedgerSums
  <1> QED
    BY <1>1 DEF Recounted, Agree, MemberRows, LedgerSums, Larger

-----------------------------------------------------------------------------
(* The account: every step keeps row and sums in agreement                 *)

Balanced == Agree(member, ledger)' /\ member'.total >= member.total

LEMMA BecomeBalanced ==
    ASSUME NEW m, NEW l, Become(m, l), Agree(m, l), m.total >= member.total
    PROVE  Balanced
  BY DEF Become, Balanced, Agree

\* Purses and points changed by what an entry says.
LEMMA DeltaAgree ==
    ASSUME Agree(member, ledger), NEW m \in MemberRows,
           NEW p \in Int, NEW b \in Int, NEW x \in Int,
           m.principal = member.principal + p, m.bonus = member.bonus + b,
           m.points = member.points + x, m.total = member.total, m.spent = member.spent
    PROVE  Agree(m, Post(ledger, p, b, x, 0)) /\ m.total >= member.total
  <1> DEFINE l == Post(ledger, p, b, x, 0)
  <1>1. member.total \in Nat
    BY DEF Agree, MemberRows
  <1>2. /\ l \in LedgerSums
        /\ l.principal = ledger.principal + p /\ l.bonus = ledger.bonus + b
        /\ l.points = ledger.points + x /\ l.spent = ledger.spent
        /\ l.earned >= ledger.earned
    BY DEF Agree, LedgerSums, Post, Larger
  <1> HIDE DEF l
  <1>3. Agree(m, l) /\ m.total >= member.total
    BY <1>1, <1>2 DEF Agree, MemberRows, LedgerSums
  <1> QED
    BY <1>3 DEF l

\* An operation of the account leaves its row and its sums in agreement.
LEMMA AccountBalanced ==
    ASSUME AccountInv, AccountNext
    PROVE  Balanced
  <1>1. Agree(member, ledger) /\ member \in MemberRows /\ ledger \in LedgerSums
    BY DEF AccountInv, Agree
  <1>2. \A a \in Amounts : a \in Nat
    BY AccountsAssumption
  <1>3. /\ member.total \in Nat /\ member.principal \in Nat /\ member.bonus \in Nat
        /\ member.points \in Nat /\ member.level \in Levels \cup {NoLevel}
    BY <1>1 DEF MemberRows
  <1>4. CASE PayFromBalance
    <2>1. PICK amount \in Amounts, mode \in Modes :
             /\ Covered(member, amount, mode)
             /\ Become(Charged(member, amount, mode),
                       ChargePosted(member, ledger, amount, mode))
      BY <1>4 DEF PayFromBalance
    <2>2. /\ Agree(Charged(member, amount, mode), ChargePosted(member, ledger, amount, mode))
          /\ Charged(member, amount, mode).total = member.total
      BY <1>1, <1>2, <2>1, ChargedAgree
    <2> QED
      BY <1>3, <2>1, <2>2, BecomeBalanced
  <1>5. CASE Consume
    <2>1. PICK amount \in Amounts :
             Become(Earned(member, amount), Post(ledger, 0, 0, PointsOf(amount), amount))
      BY <1>5 DEF Consume
    <2> QED
      BY <1>1, <1>2, <2>1, EarnedAgree, BecomeBalanced
  <1>6. CASE Refund
    <2>1. PICK amount \in Amounts, back \in Nat :
             Become([Reversed(member, amount) EXCEPT !.principal = @ + back],
                    Post(ReversalPosted(member, ledger, amount), back, 0, 0, 0))
      BY <1>2, <1>6 DEF Refund
    <2> DEFINE m == Reversed(member, amount)
               l == ReversalPosted(member, ledger, amount)
               row == [m EXCEPT !.principal = @ + back]
               sums == Post(l, back, 0, 0, 0)
    <2>2. Agree(m, l) /\ m.total = member.total
      BY <1>1, <1>2, ReversedAgree
    <2>3. Become(row, sums)
      BY <2>1
    <2> HIDE DEF m, l
    <2>4. m \in MemberRows /\ m.principal + back \in Nat
      BY <2>2 DEF Agree, MemberRows
    <2>5. row \in MemberRows
      BY <2>4, Zenon DEF MemberRows
    <2>6. /\ row.principal = m.principal + back /\ row.bonus = m.bonus
          /\ row.points = m.points /\ row.total = m.total /\ row.spent = m.spent
      BY <2>4 DEF MemberRows
    <2>7. /\ sums \in LedgerSums
          /\ sums.principal = l.principal + back /\ sums.bonus = l.bonus
          /\ sums.points = l.points /\ sums.earned = l.earned /\ sums.spent = l.spent
      BY <2>2 DEF Agree, LedgerSums, Post, Larger
    <2> HIDE DEF row, sums
    <2>8. Agree(row, sums) /\ row.total >= member.total
      BY <1>3, <2>2, <2>5, <2>6, <2>7 DEF Agree, MemberRows, LedgerSums
    <2> QED
      BY <2>3, <2>8, BecomeBalanced
  <1>7. CASE SpendPoints
    <2>1. PICK points \in Amounts :
             /\ member.points >= points
             /\ Become([member EXCEPT !.points = @ - points],
                       Post(ledger, 0, 0, -points, 0))
      BY <1>7 DEF SpendPoints
    <2> DEFINE row == [member EXCEPT !.points = @ - points]
    <2>2. member.points - points \in Nat
      BY <1>2, <1>3, <2>1
    <2>3. row \in MemberRows
      BY <1>1, <2>2, Zenon DEF MemberRows
    <2>4. /\ row.principal = member.principal + 0 /\ row.bonus = member.bonus + 0
          /\ row.points = member.points + (-points)
          /\ row.total = member.total /\ row.spent = member.spent
      BY <1>1, <1>2, <1>3 DEF MemberRows
    <2>5. Become(row, Post(ledger, 0, 0, -points, 0)) /\ -points \in Int
      BY <1>2, <2>1
    <2> HIDE DEF row
    <2>6. Agree(row, Post(ledger, 0, 0, -points, 0)) /\ row.total >= member.total
      BY <1>1, <2>3, <2>4, <2>5, DeltaAgree
    <2> QED
      BY <2>5, <2>6, BecomeBalanced
  <1>8. CASE Recharge
    <2>1. PICK pay \in Amounts, gift \in Bonuses :
             Become([member EXCEPT !.principal = @ + pay, !.bonus = @ + gift,
                                   !.level = IF @ = NoLevel THEN LowestLevel ELSE @],
                    Post(ledger, pay, gift, 0, 0))
      BY <1>8 DEF Recharge
    <2> DEFINE level == IF member.level = NoLevel THEN LowestLevel ELSE member.level
               row == [member EXCEPT !.principal = @ + pay, !.bonus = @ + gift,
                                     !.level = level]
    <2>2. level \in Levels \cup {NoLevel}
      BY <1>3, EarnedLevelType
    <2>3. pay \in Nat /\ gift \in Nat
      BY <1>2, AccountsAssumption
    <2> HIDE DEF level
    <2>4. row \in MemberRows
      <3>1. member.principal + pay \in Nat /\ member.bonus + gift \in Nat
        BY <1>3, <2>3
      <3> QED
        BY <1>1, <2>2, <3>1, Zenon DEF MemberRows
    <2>5. /\ row.principal = member.principal + pay /\ row.bonus = member.bonus + gift
          /\ row.points = member.points + 0
          /\ row.total = member.total /\ row.spent = member.spent
      BY <1>1, <1>3 DEF MemberRows
    <2>6. Become(row, Post(ledger, pay, gift, 0, 0))
      BY <2>1 DEF level
    <2> HIDE DEF row
    <2>7. Agree(row, Post(ledger, pay, gift, 0, 0)) /\ row.total >= member.total
      BY <1>1, <2>3, <2>4, <2>5, DeltaAgree
    <2> QED
      BY <2>6, <2>7, BecomeBalanced
  <1>9. CASE Adjust
    <2>1. PICK d \in Adjustments \cup {NoDelta}, level \in Levels \cup {NoLevel} :
             LET m == [member EXCEPT !.principal = @ + d.principal,
                                     !.bonus = @ + d.bonus,
                                     !.points = @ + d.points, !.level = level]
             IN  /\ m.principal >= 0 /\ m.bonus >= 0 /\ m.points >= 0
                 /\ Become(m, Post(ledger, d.principal, d.bonus, d.points, 0))
      BY <1>9 DEF Adjust
    <2> DEFINE row == [member EXCEPT !.principal = @ + d.principal, !.bonus = @ + d.bonus,
                                     !.points = @ + d.points, !.level = level]
    <2>2. d.principal \in Int /\ d.bonus \in Int /\ d.points \in Int
      BY AccountsAssumption DEF NoDelta
    <2>3. /\ member.principal + d.principal \in Nat /\ member.bonus + d.bonus \in Nat
          /\ member.points + d.points \in Nat
      BY <1>1, <1>3, <2>1, <2>2 DEF MemberRows
    <2>4. row \in MemberRows
      BY <1>1, <2>3, Zenon DEF MemberRows
    <2>5. /\ row.principal = member.principal + d.principal
          /\ row.bonus = member.bonus + d.bonus /\ row.points = member.points + d.points
          /\ row.total = member.total /\ row.spent = member.spent
      BY <1>1 DEF MemberRows
    <2>6. Become(row, Post(ledger, d.principal, d.bonus, d.points, 0))
      BY <2>1
    <2> HIDE DEF row
    <2>7. /\ Agree(row, Post(ledger, d.principal, d.bonus, d.points, 0))
          /\ row.total >= member.total
      BY <1>1, <2>2, <2>4, <2>5, DeltaAgree
    <2> QED
      BY <2>6, <2>7, BecomeBalanced
  <1>10. CASE Recount
    BY <1>1, <1>10, RecountedAgree DEF Recount, Balanced, Agree
  <1>11. ASSUME NEW c \in Callers, EnsureRead(c) \/ LevelsRead(c)
         PROVE  Balanced
    BY <1>1, <1>3, <1>11 DEF EnsureRead, LevelsRead, Balanced, Agree
  <1>12. ASSUME NEW c \in Callers, EnsureWrite(c) \/ LevelsWrite(c)
         PROVE  Balanced
    <2>1. /\ ledger' = ledger
          /\ \/ member' = member
             \/ \E level \in Levels \cup {NoLevel} :
                   member' = [member EXCEPT !.level = level]
      BY <1>12, EarnedLevelType DEF AccountInv, CallsMatch, EnsureWrite, LevelsWrite
    <2>2. CASE member' = member
      BY <1>1, <1>3, <2>1, <2>2 DEF Balanced, Agree
    <2>3. CASE member' # member
      <3>1. PICK level \in Levels \cup {NoLevel} : member' = [member EXCEPT !.level = level]
        BY <2>1, <2>3
      <3>2. member' \in MemberRows
        BY <1>1, <3>1, Zenon DEF MemberRows
      <3> QED
        BY <1>1, <1>3, <2>1, <3>1, <3>2 DEF Balanced, Agree, MemberRows
    <2> QED
      BY <2>2, <2>3
  <1> QED
    BY <1>4, <1>5, <1>6, <1>7, <1>8, <1>9, <1>10, <1>11, <1>12 DEF AccountNext

LEMMA InitInv == Init => AccountInv /\ CardInv
  <1> SUFFICES ASSUME Init PROVE AccountInv /\ CardInv
    OBVIOUS
  <1>1. AccountInv
    BY DEF Init, AccountInit, AccountInv, Agree, MemberRows, LedgerSums, Calls,
        CallsMatch, Idle, NoLevel
  <1>2. CardsTypeOK /\ CardsMatch /\ CardFollowsLog
    BY CardsAssumption
       DEF Init, CardsTypeOK, CardsMatch, CardFollowsLog, Statuses, CardRows, LogRows
  <1>3. Successful = {}
    BY DEF Init, Successful
  <1>4. GivenBackOnce
    BY <1>3, FS_EmptySet, CardsAssumption DEF Init, GivenBackOnce
  <1> QED
    BY <1>1, <1>2, <1>4 DEF CardInv

\* An operation on a card leaves the account in agreement, too.
LEMMA NextBalanced ==
    ASSUME AccountInv, Next
    PROVE  Balanced
  <1>1. Agree(member, ledger) /\ member \in MemberRows /\ ledger \in LedgerSums
    BY DEF AccountInv, Agree
  <1>2. /\ member.total \in Nat /\ member.principal \in Nat /\ member.bonus \in Nat
        /\ member.points \in Nat
    BY <1>1 DEF MemberRows
  <1>3. Price \in Nat /\ GoodsPoints \in Nat
    BY CardsAssumption
  <1>4. CASE UNCHANGED <<member, ledger>>
    BY <1>1, <1>2, <1>4 DEF Balanced, Agree
  <1>5. CASE AccountNext
    BY <1>5, AccountBalanced
  <1>6. ASSUME NEW k \in Cards, Issue(k)
        PROVE  Balanced
    <2>1. PICK fromBalance \in BOOLEAN, mode \in Modes :
             LET m == IF fromBalance /\ Price > 0 THEN Charged(member, Price, mode)
                      ELSE member
                 l == IF fromBalance /\ Price > 0
                      THEN ChargePosted(member, ledger, Price, mode) ELSE ledger
             IN  /\ fromBalance /\ Price > 0 => Covered(member, Price, mode)
                 /\ Become(Earned(m, Price), Post(l, 0, 0, PointsOf(Price), Price))
      BY <1>6 DEF Issue
    <2> DEFINE pays == fromBalance /\ Price > 0
               m == IF pays THEN Charged(member, Price, mode) ELSE member
               l == IF pays THEN ChargePosted(member, ledger, Price, mode) ELSE ledger
    <2>2. Become(Earned(m, Price), Post(l, 0, 0, PointsOf(Price), Price))
      BY <2>1
    <2>3. Agree(m, l) /\ m.total = member.total
      <3>1. CASE pays
        <4>1. Covered(member, Price, mode)
          BY <2>1, <3>1
        <4>2. /\ Agree(Charged(member, Price, mode), ChargePosted(member, ledger, Price, mode))
              /\ Charged(member, Price, mode).total = member.total
          BY <1>1, <1>3, <4>1, ChargedAgree
        <4> QED
          BY <3>1, <4>2
      <3>2. CASE ~pays
        BY <1>1, <3>2
      <3> QED
        BY <3>1, <3>2
    <2> HIDE DEF m, l
    <2>4. /\ Agree(Earned(m, Price), Post(l, 0, 0, PointsOf(Price), Price))
          /\ Earned(m, Price).total >= m.total
      BY <1>3, <2>3, EarnedAgree
    <2> QED
      BY <2>2, <2>3, <2>4, BecomeBalanced
  <1>7. ASSUME NEW c \in Callers, NEW k \in Cards, RefundCommit(c, k)
        PROVE  Balanced
    <2>1. \/ UNCHANGED <<member, ledger>>
          \/ Become(Reversed(member, Price), ReversalPosted(member, ledger, Price))
      BY <1>7 DEF RefundCommit
    <2>2. /\ Agree(Reversed(member, Price), ReversalPosted(member, ledger, Price))
          /\ Reversed(member, Price).total = member.total
      BY <1>1, <1>3, ReversedAgree
    <2> QED
      BY <1>2, <1>4, <2>1, <2>2, BecomeBalanced
  <1>8. ASSUME NEW x \in Int, member.points + x \in Nat,
               Become([member EXCEPT !.points = @ + x], Post(ledger, 0, 0, x, 0))
        PROVE  Balanced
    <2> DEFINE row == [member EXCEPT !.points = @ + x]
    <2>1. row \in MemberRows
      BY <1>1, <1>8, Zenon DEF MemberRows
    <2>2. /\ row.principal = member.principal + 0 /\ row.bonus = member.bonus + 0
          /\ row.points = member.points + x
          /\ row.total = member.total /\ row.spent = member.spent
      BY <1>1, <1>2 DEF MemberRows
    <2>3. Become(row, Post(ledger, 0, 0, x, 0))
      BY <1>8
    <2> HIDE DEF row
    <2>4. Agree(row, Post(ledger, 0, 0, x, 0)) /\ row.total >= member.total
      BY <1>1, <1>8, <2>1, <2>2, DeltaAgree
    <2> QED
      BY <2>3, <2>4, BecomeBalanced
  <1>9. ASSUME NEW k \in Cards, Redeem(k)
        PROVE  Balanced
    <2>1. /\ member.points >= GoodsPoints
          /\ Become([member EXCEPT !.points = @ - GoodsPoints],
                    Post(ledger, 0, 0, -GoodsPoints, 0))
      BY <1>9 DEF Redeem
    <2>2. [member EXCEPT !.points = @ - GoodsPoints] =
            [member EXCEPT !.points = @ + (-GoodsPoints)]
      <3>1. member.points - GoodsPoints = member.points + (-GoodsPoints)
        BY <1>2, <1>3
      <3> QED
        BY <3>1
    <2>3. -GoodsPoints \in Int /\ member.points + (-GoodsPoints) \in Nat
      BY <1>2, <1>3, <2>1
    <2> QED
      BY <1>8, <2>1, <2>2, <2>3
  <1>10. ASSUME NEW c \in Callers, NEW k \in Cards, TakeBackCommit(c, k)
         PROVE  Balanced
    <2>1. Become([member EXCEPT !.points = @ + GoodsPoints],
                 Post(ledger, 0, 0, GoodsPoints, 0))
      BY <1>10 DEF TakeBackCommit
    <2> QED
      BY <1>2, <1>3, <1>8, <2>1
  <1>11. ASSUME NEW c \in Callers, NEW k \in Cards,
                \/ UseRead(c, k) \/ UseCommit(c, k) \/ RevertRead(c, k)
                \/ RevertCommit(c, k) \/ RefundRead(c, k) \/ TakeBackRead(c, k)
                \/ Refused(c, k)
         PROVE  Balanced
    BY <1>4, <1>11 DEF UseRead, UseCommit, RevertRead, RevertCommit,
        RefundRead, TakeBackRead, Refused, Conflict, Begin
  <1>12. ASSUME ExpireCards \/ \E k \in Cards : Due(k)
         PROVE  Balanced
    BY <1>4, <1>12 DEF ExpireCards, Due, accountVars
  <1>13. ASSUME NEW c \in Callers, Abandon(c)
         PROVE  Balanced
    BY <1>4, <1>13 DEF Abandon
  <1> QED
    BY <1>5, <1>6, <1>7, <1>9, <1>10, <1>11, <1>12, <1>13 DEF Next

\* What a request remembers.
LEMMA NextCalls ==
    ASSUME AccountInv, Next
    PROVE  call' \in [Callers -> Calls] /\ CallsMatch'
  <1>1. call \in [Callers -> Calls] /\ CallsMatch
    BY DEF AccountInv
  <1>2. /\ member.level \in Levels \cup {NoLevel}
        /\ EarnedLevel(member.spent) \in Levels \cup {NoLevel}
    BY EarnedLevelType DEF AccountInv, Agree, MemberRows
  <1>3. \A k \in Cards : k \in Nat
    BY CardsAssumption
  <1>4. Len(Threshold) \in Nat /\ \A v \in Levels \cup {NoLevel} : v \in Nat
    BY LevelsAssumption DEF Levels, NoLevel
  <1> DEFINE Remembers ==
               \/ UNCHANGED call
               \/ \E c \in Callers, e \in Calls :
                     /\ call' = [call EXCEPT ![c] = e]
                     /\ e.op = "levels" => e.arg \in Levels \cup {NoLevel}
  <1>5. Remembers
    <2>1. Idle \in Calls /\ Idle.op # "levels"
      BY DEF Idle, Calls
    <2>2. CASE AccountNext
      <3>1. ASSUME NEW c \in Callers, LevelsRead(c) \/ EnsureRead(c)
            PROVE  Remembers
        <4>1. PICK e \in {[op |-> "ensure", arg |-> member.level],
                          [op |-> "levels", arg |-> EarnedLevel(member.spent)]} :
                 call' = [call EXCEPT ![c] = e]
          BY <3>1 DEF LevelsRead, EnsureRead
        <4>2. e \in Calls /\ e.arg \in Levels \cup {NoLevel}
          BY <1>2, <1>4 DEF Calls
        <4> QED
          BY <4>1, <4>2
      <3>2. ASSUME NEW c \in Callers, LevelsWrite(c) \/ EnsureWrite(c)
            PROVE  Remembers
        BY <2>1, <3>2 DEF LevelsWrite, EnsureWrite
      <3> QED
        BY <2>2, <3>1, <3>2 DEF AccountNext, PayFromBalance, Consume, Refund, SpendPoints,
            Recharge, Adjust, Recount
    <2>3. ASSUME NEW c \in Callers, Abandon(c)
          PROVE  Remembers
      BY <2>1, <2>3 DEF Abandon
    <2>4. CASE ExpireCards
      BY <2>4 DEF ExpireCards, accountVars
    <2>5. ASSUME NEW k \in Cards, Issue(k) \/ Redeem(k) \/ Due(k)
          PROVE  Remembers
      BY <2>5 DEF Issue, Redeem, Due, accountVars
    <2>6. ASSUME NEW c \in Callers, NEW k \in Cards,
                 UseRead(c, k) \/ RevertRead(c, k) \/ RefundRead(c, k) \/ TakeBackRead(c, k)
          PROVE  Remembers
      <3>1. PICK e \in [op : {"use", "revert", "refund", "takeback"}, arg : {k}] :
               call' = [call EXCEPT ![c] = e]
        BY <2>6 DEF UseRead, RevertRead, RefundRead, TakeBackRead, Begin
      <3>2. e \in Calls /\ e.op # "levels"
        BY <1>3 DEF Calls
      <3> QED
        BY <3>1, <3>2
    <2>7. ASSUME NEW c \in Callers, NEW k \in Cards,
                 \/ UseCommit(c, k) \/ RevertCommit(c, k) \/ RefundCommit(c, k)
                 \/ TakeBackCommit(c, k) \/ Refused(c, k)
          PROVE  Remembers
      <3>1. call' = [call EXCEPT ![c] = Idle]
        BY <2>7 DEF UseCommit, RevertCommit, RefundCommit, TakeBackCommit, Refused,
            Conflict, Ends
      <3> QED
        BY <2>1, <3>1
    <2> QED
      BY <2>2, <2>3, <2>4, <2>5, <2>6, <2>7 DEF Next
  <1>6. CASE UNCHANGED call
    BY <1>1, <1>6 DEF CallsMatch
  <1>7. CASE ~UNCHANGED call
    <2>1. PICK c \in Callers, e \in Calls :
              /\ call' = [call EXCEPT ![c] = e]
              /\ e.op = "levels" => e.arg \in Levels \cup {NoLevel}
      BY <1>5, <1>7
    <2> QED
      BY <1>1, <2>1 DEF CallsMatch
  <1> QED
    BY <1>6, <1>7

-----------------------------------------------------------------------------
(* The cards                                                               *)

\* Redemptions are counted as elements of a finite set.
LEMMA Redemptions ==
    ASSUME CardsTypeOK, NEW k \in Cards
    PROVE  /\ IsFiniteSet(Successful)
           /\ redeem' = [redeem EXCEPT ![k] = "success"] /\ redeem[k] # "success"
                => Cardinality(Successful') = Cardinality(Successful) + 1
           /\ redeem' = [redeem EXCEPT ![k] = "reverted"] /\ redeem[k] = "success"
                => Cardinality(Successful') = Cardinality(Successful) - 1
  <1>1. IsFiniteSet(Cards)
    <2>1. PICK n \in Nat : Cards = 1..n
      BY CardsAssumption
    <2> QED
      BY <2>1, FS_Interval
  <1>2. IsFiniteSet(Successful)
    BY <1>1, FS_Subset DEF Successful
  <1>3. ASSUME redeem' = [redeem EXCEPT ![k] = "success"], redeem[k] # "success"
        PROVE  Cardinality(Successful') = Cardinality(Successful) + 1
    <2>1. Successful' = Successful \cup {k} /\ k \notin Successful
      BY <1>3 DEF Successful, CardsTypeOK
    <2> QED
      BY <1>2, <2>1, FS_AddElement
  <1>4. ASSUME redeem' = [redeem EXCEPT ![k] = "reverted"], redeem[k] = "success"
        PROVE  Cardinality(Successful') = Cardinality(Successful) - 1
    <2>1. Successful' = Successful \ {k} /\ k \in Successful
      BY <1>4 DEF Successful, CardsTypeOK
    <2> QED
      BY <1>2, <2>1, FS_RemoveElement
  <1> QED
    BY <1>2, <1>3, <1>4

\* The UPDATEs of one card, by what they set.
LEMMA CardSet ==
    ASSUME CardsTypeOK, NEW k \in Cards, NEW row \in CardRows, card' = [card EXCEPT ![k] = row]
    PROVE  /\ card' \in [Cards -> CardRows] /\ card'[k] = row
           /\ \A j \in Cards \ {k} : card'[j] = card[j]
  BY DEF CardsTypeOK

LEMMA LogSet ==
    ASSUME CardsTypeOK, NEW k \in Cards, NEW row \in LogRows, log' = [log EXCEPT ![k] = row]
    PROVE  /\ log' \in [Cards -> LogRows] /\ log'[k] = row
           /\ \A j \in Cards \ {k} : log'[j] = log[j]
  BY DEF CardsTypeOK

LEMMA RowTypes ==
    ASSUME CardsTypeOK, NEW k \in Cards
    PROVE  /\ card[k] \in CardRows /\ log[k] \in LogRows
           /\ card[k].status \in Statuses /\ card[k].used \in 0..TotalTimes
           /\ log[k].use \in Nat /\ log[k].revert \in Nat
  BY DEF CardsTypeOK, CardRows, LogRows

\* A card with another status.
LEMMA StatusSet ==
    ASSUME NEW row \in CardRows, NEW status \in Statuses
    PROVE  /\ [row EXCEPT !.status = status] \in CardRows
           /\ [row EXCEPT !.status = status].status = status
           /\ [row EXCEPT !.status = status].used = row.used
  BY DEF CardRows

\* One card and its log change; nothing was redeemed, returned or repaid.
LEMMA CardChanged ==
    ASSUME CardInv, NEW k \in Cards,
           card' \in [Cards -> CardRows], log' \in [Cards -> LogRows],
           \A j \in Cards \ {k} : card'[j] = card[j] /\ log'[j] = log[j],
           UNCHANGED <<redeem, stock, repaid>>,
           card'[k].used = log'[k].use - log'[k].revert,
           card'[k].status # "none", card[k].status # "refunded",
           card'[k].status = "used_up" => card'[k].used = TotalTimes,
           card'[k].status \in {"active", "expired"} => card'[k].used < TotalTimes
    PROVE  CardInv'
  <1>1. CardsTypeOK'
    BY DEF CardInv, CardsTypeOK
  <1>2. CardsMatch'
    BY DEF CardInv, CardsMatch
  <1>3. CardFollowsLog'
    BY DEF CardInv, CardFollowsLog
  <1>4. GivenBackOnce'
    BY DEF CardInv, GivenBackOnce, Successful
  <1> QED
    BY <1>1, <1>2, <1>3, <1>4 DEF CardInv

LEMMA UseInv ==
    ASSUME CardInv, NEW c \in Callers, NEW k \in Cards, UseCommit(c, k)
    PROVE  CardInv' /\ card[k].status # "refunded"
  <1> DEFINE used == card[k].used + 1
             status == IF used >= TotalTimes THEN "used_up" ELSE "active"
             row == [card[k] EXCEPT !.status = status, !.used = used]
             entry == [log[k] EXCEPT !.use = @ + 1]
  <1>1. /\ card[k].status = "active" /\ card[k].used < TotalTimes
        /\ card' = [card EXCEPT ![k] = row]
        /\ log' = [log EXCEPT ![k] = entry]
        /\ UNCHANGED <<redeem, stock, repaid>>
    BY DEF UseCommit, Usable, UsedOnce
  <1>2. /\ CardsTypeOK /\ TotalTimes \in Nat
        /\ card[k].used = log[k].use - log[k].revert
    BY CardsAssumption DEF CardInv, CardFollowsLog
  <1>3. /\ card[k] \in CardRows /\ log[k] \in LogRows
        /\ card[k].used \in 0..TotalTimes /\ log[k].use \in Nat /\ log[k].revert \in Nat
    BY <1>2, RowTypes
  <1>4. /\ used \in 0..TotalTimes /\ used = log[k].use + 1 - log[k].revert
        /\ status \in Statuses \ {"none"}
        /\ status = "used_up" => used = TotalTimes
        /\ status \in {"active", "expired"} => used < TotalTimes
    BY <1>1, <1>2, <1>3 DEF Statuses
  <1> HIDE DEF used, status
  <1>5. row \in CardRows /\ row.status = status /\ row.used = used
    BY <1>3, <1>4 DEF CardRows
  <1>6. entry \in LogRows /\ entry.use = log[k].use + 1 /\ entry.revert = log[k].revert
    BY <1>3 DEF LogRows
  <1> HIDE DEF row, entry
  <1>7. /\ card' \in [Cards -> CardRows] /\ card'[k] = row
        /\ log' \in [Cards -> LogRows] /\ log'[k] = entry
        /\ \A j \in Cards \ {k} : card'[j] = card[j] /\ log'[j] = log[j]
    BY <1>1, <1>2, <1>5, <1>6, CardSet, LogSet
  <1>8. /\ card'[k].used = log'[k].use - log'[k].revert
        /\ card'[k].status # "none" /\ card[k].status # "refunded"
        /\ card'[k].status = "used_up" => card'[k].used = TotalTimes
        /\ card'[k].status \in {"active", "expired"} => card'[k].used < TotalTimes
    BY <1>1, <1>3, <1>4, <1>5, <1>6, <1>7
  <1>9. CardInv'
    BY <1>1, <1>7, <1>8, CardChanged
  <1> QED
    BY <1>1, <1>9

LEMMA RevertInv ==
    ASSUME CardInv, NEW c \in Callers, NEW k \in Cards, RevertCommit(c, k)
    PROVE  CardInv' /\ card[k].status # "refunded"
  <1> DEFINE used == card[k].used - 1
             row == [card[k] EXCEPT !.used = used, !.status = "active"]
             entry == [log[k] EXCEPT !.revert = @ + 1]
  <1>1. /\ CardsTypeOK /\ TotalTimes \in Nat
        /\ card[k].used = log[k].use - log[k].revert
    BY CardsAssumption DEF CardInv, CardFollowsLog
  <1>2. /\ card[k].status # "refunded" /\ card[k].used > 0
        /\ card' = [card EXCEPT ![k] = row]
        /\ log' = [log EXCEPT ![k] = entry]
        /\ UNCHANGED <<redeem, stock, repaid>>
    BY <1>1 DEF RevertCommit, CardsTypeOK
  <1>3. /\ card[k] \in CardRows /\ log[k] \in LogRows
        /\ card[k].used \in 0..TotalTimes /\ log[k].use \in Nat /\ log[k].revert \in Nat
    BY <1>1, RowTypes
  <1>4. /\ used \in 0..TotalTimes /\ used < TotalTimes
        /\ used = log[k].use - (log[k].revert + 1)
    BY <1>1, <1>2, <1>3
  <1> HIDE DEF used
  <1>5. row \in CardRows /\ row.status = "active" /\ row.used = used
    BY <1>3, <1>4 DEF CardRows, Statuses
  <1>6. entry \in LogRows /\ entry.use = log[k].use /\ entry.revert = log[k].revert + 1
    BY <1>3 DEF LogRows
  <1> HIDE DEF row, entry
  <1>7. /\ card' \in [Cards -> CardRows] /\ card'[k] = row
        /\ log' \in [Cards -> LogRows] /\ log'[k] = entry
        /\ \A j \in Cards \ {k} : card'[j] = card[j] /\ log'[j] = log[j]
    BY <1>1, <1>2, <1>5, <1>6, CardSet, LogSet
  <1>8. CardInv'
    BY <1>2, <1>4, <1>5, <1>6, <1>7, CardChanged
  <1> QED
    BY <1>2, <1>8

\* The clock and the job: due cards that are active expire.
LEMMA ClockInv ==
    ASSUME CardInv, ExpireCards \/ \E k \in Cards : Due(k)
    PROVE  /\ CardInv'
           /\ \A k \in Cards : card[k].status = "refunded" => card'[k].status = "refunded"
  <1> DEFINE Ages ==
               /\ UNCHANGED <<log, redeem, stock, repaid>>
               /\ card' \in [Cards -> CardRows]
               /\ \A k \in Cards :
                     /\ card'[k].used = card[k].used
                     /\ \/ card'[k].status = card[k].status
                        \/ card[k].status = "active" /\ card'[k].status = "expired"
  <1>1. \A k \in Cards :
          /\ card[k] \in CardRows
          /\ [card[k] EXCEPT !.status = "expired"] \in CardRows
          /\ [card[k] EXCEPT !.status = "expired"].status = "expired"
          /\ [card[k] EXCEPT !.status = "expired"].used = card[k].used
    BY RowTypes, StatusSet DEF CardInv, Statuses
  <1>2. ASSUME ExpireCards
        PROVE  Ages
    <2> DEFINE Expired(k) == card[k].status = "active" /\ card[k].due
    <2>1. card' = [k \in Cards |-> IF Expired(k)
                      THEN [card[k] EXCEPT !.status = "expired"] ELSE card[k]]
      BY <1>2 DEF ExpireCards
    <2>2. UNCHANGED <<log, redeem, stock, repaid>>
      BY <1>2 DEF ExpireCards
    <2> HIDE DEF Expired
    <2>3. \A k \in Cards : card'[k] = IF Expired(k)
                               THEN [card[k] EXCEPT !.status = "expired"] ELSE card[k]
      BY <2>1
    <2>4. \A k \in Cards : /\ card'[k] \in CardRows
                           /\ card'[k].used = card[k].used
                           /\ \/ card'[k].status = card[k].status
                              \/ card[k].status = "active" /\ card'[k].status = "expired"
      BY <1>1, <2>3 DEF Expired
    <2>5. card' \in [Cards -> CardRows]
      BY <2>1, <2>3, <2>4
    <2> QED
      BY <2>2, <2>4, <2>5
  <1>3. ASSUME NEW k \in Cards, Due(k)
        PROVE  Ages
    <2> DEFINE row == [card[k] EXCEPT !.due = TRUE]
    <2>1. card' = [card EXCEPT ![k] = row] /\ UNCHANGED <<log, redeem, stock, repaid>>
      BY <1>3 DEF Due
    <2>2. row \in CardRows /\ row.status = card[k].status /\ row.used = card[k].used
      BY <1>1 DEF CardRows
    <2> HIDE DEF row
    <2>3. /\ card' \in [Cards -> CardRows] /\ card'[k] = row
          /\ \A j \in Cards \ {k} : card'[j] = card[j]
      BY <2>1, <2>2, CardSet DEF CardInv
    <2> QED
      BY <2>1, <2>2, <2>3
  <1>4. Ages
    BY <1>2, <1>3
  <1>5. CardsTypeOK' /\ CardsMatch' /\ CardFollowsLog'
    BY <1>4 DEF CardInv, CardsTypeOK, CardsMatch, CardFollowsLog
  <1>6. GivenBackOnce'
    BY <1>4 DEF CardInv, GivenBackOnce, Successful
  <1> QED
    BY <1>4, <1>5, <1>6 DEF CardInv

\* Issuing a card, by itself or for points.
LEMMA NewCardInv ==
    ASSUME CardInv, NEW k \in Cards, Issue(k) \/ Redeem(k)
    PROVE  CardInv' /\ card[k].status # "refunded"
  <1>1. /\ card[k].status = "none" /\ card' = [card EXCEPT ![k].status = "active"]
        /\ UNCHANGED <<log, repaid>>
        /\ \/ UNCHANGED <<redeem, stock>>
           \/ /\ stock > 0 /\ stock' = stock - 1
              /\ redeem' = [redeem EXCEPT ![k] = "success"]
    BY DEF Issue, Redeem, NewCard
  <1>2. /\ card[k].used = 0 /\ redeem[k] # "success" /\ repaid[k] = 0
        /\ TotalTimes > 0 /\ TotalTimes \in Nat /\ GoodsStock \in Nat
    BY <1>1, CardsAssumption DEF CardInv, CardsMatch, CardsTypeOK
  <1>3. /\ card'[k].status = "active" /\ card'[k].used = card[k].used
        /\ card' \in [Cards -> CardRows] /\ \A j \in Cards \ {k} : card'[j] = card[j]
    BY <1>1, RowTypes, StatusSet DEF CardInv, CardsTypeOK, Statuses
  <1>4. CardsTypeOK'
    BY <1>1, <1>3 DEF CardInv, CardsTypeOK
  <1>5. CardsMatch' /\ CardFollowsLog'
    BY <1>1, <1>2, <1>3 DEF CardInv, CardsMatch, CardFollowsLog, CardsTypeOK
  <1>6. GivenBackOnce'
    <2>1. stock' + Cardinality(Successful') = GoodsStock
      <3>1. CASE UNCHANGED <<redeem, stock>>
        BY <3>1 DEF CardInv, GivenBackOnce, Successful
      <3>2. CASE stock' = stock - 1 /\ redeem' = [redeem EXCEPT ![k] = "success"]
        <4>1. /\ Cardinality(Successful') = Cardinality(Successful) + 1
              /\ Cardinality(Successful) \in Nat
          BY <1>2, <3>2, Redemptions, FS_CardinalityType DEF CardInv
        <4> QED
          BY <3>2, <4>1 DEF CardInv, GivenBackOnce, CardsTypeOK
      <3> QED
        BY <1>1, <3>1, <3>2
    <2>2. \A j \in Cards : repaid'[j] <= 1
      BY <1>1 DEF CardInv, GivenBackOnce
    <2>3. \A j \in Cards : redeem'[j] = "reverted" => card'[j].status = "refunded"
      BY <1>1, <1>3 DEF CardInv, GivenBackOnce, CardsTypeOK
    <2> QED
      BY <2>1, <2>2, <2>3 DEF GivenBackOnce
  <1> QED
    BY <1>1, <1>4, <1>5, <1>6 DEF CardInv

\* refund and voidCard: the conditional UPDATE lets one of them in.
LEMMA RefundInv ==
    ASSUME CardInv, NEW c \in Callers, NEW k \in Cards, RefundCommit(c, k)
    PROVE  CardInv' /\ card'[k].status = "refunded"
  <1>1. /\ card[k].status # "refunded" /\ card' = [card EXCEPT ![k].status = "refunded"]
        /\ UNCHANGED <<log, redeem, stock>>
        /\ repaid' = repaid \/ repaid' = [repaid EXCEPT ![k] = @ + 1]
    BY DEF RefundCommit, Voidable
  <1>2. repaid[k] = 0
    BY <1>1 DEF CardInv, CardsMatch
  <1>3. /\ card'[k].status = "refunded" /\ card'[k].used = card[k].used
        /\ card' \in [Cards -> CardRows] /\ \A j \in Cards \ {k} : card'[j] = card[j]
    BY <1>1, RowTypes, StatusSet DEF CardInv, CardsTypeOK, Statuses
  <1>4. /\ repaid' \in [Cards -> Nat] /\ repaid'[k] \in {0, 1}
        /\ \A j \in Cards \ {k} : repaid'[j] = repaid[j]
    BY <1>1, <1>2 DEF CardInv, CardsTypeOK
  <1>5. CardsTypeOK'
    BY <1>1, <1>3, <1>4 DEF CardInv, CardsTypeOK
  <1>6. CardsMatch' /\ CardFollowsLog'
    BY <1>1, <1>3, <1>4 DEF CardInv, CardsMatch, CardFollowsLog
  <1>7. GivenBackOnce'
    BY <1>1, <1>3, <1>4 DEF CardInv, GivenBackOnce, Successful
  <1> QED
    BY <1>3, <1>5, <1>6, <1>7 DEF CardInv

\* revertRedeem: the record decides, the card is void afterwards.
LEMMA TakeBackInv ==
    ASSUME CardInv, NEW c \in Callers, NEW k \in Cards, TakeBackCommit(c, k)
    PROVE  CardInv' /\ card'[k].status = "refunded"
  <1>1. /\ redeem[k] = "success" /\ redeem' = [redeem EXCEPT ![k] = "reverted"]
        /\ card' = [card EXCEPT ![k].status = "refunded"]
        /\ stock' = stock + 1 /\ UNCHANGED <<log, repaid>>
    BY DEF TakeBackCommit
  <1>2. /\ card'[k].status = "refunded" /\ card'[k].used = card[k].used
        /\ card' \in [Cards -> CardRows] /\ \A j \in Cards \ {k} : card'[j] = card[j]
    BY <1>1, RowTypes, StatusSet DEF CardInv, CardsTypeOK, Statuses
  <1>3. CardsTypeOK'
    BY <1>1, <1>2 DEF CardInv, CardsTypeOK
  <1>4. CardsMatch' /\ CardFollowsLog'
    BY <1>1, <1>2 DEF CardInv, CardsMatch, CardFollowsLog, CardsTypeOK
  <1>5. GivenBackOnce'
    <2>1. /\ Cardinality(Successful') = Cardinality(Successful) - 1
          /\ Cardinality(Successful) \in Nat
      BY <1>1, Redemptions, FS_CardinalityType DEF CardInv
    <2>2. stock' + Cardinality(Successful') = GoodsStock
      BY <1>1, <2>1 DEF CardInv, GivenBackOnce, CardsTypeOK
    <2>3. \A j \in Cards : redeem'[j] = "reverted" => card'[j].status = "refunded"
      BY <1>1, <1>2 DEF CardInv, GivenBackOnce, CardsTypeOK
    <2> QED
      BY <1>1, <2>2, <2>3 DEF CardInv, GivenBackOnce
  <1> QED
    BY <1>2, <1>3, <1>4, <1>5 DEF CardInv

\* Every step keeps the cards in order, and a refunded card refunded.
LEMMA NextCards ==
    ASSUME CardInv, [Next]_vars
    PROVE  /\ CardInv'
           /\ \A k \in Cards : card[k].status = "refunded" => card'[k].status = "refunded"
  <1> DEFINE Stays == \A k \in Cards :
                 card[k].status = "refunded" => card'[k].status = "refunded"
  <1>1. CASE UNCHANGED cardVars
    <2>1. CardInv'
      BY <1>1 DEF cardVars, CardInv, CardsTypeOK, CardsMatch, CardFollowsLog,
          GivenBackOnce, Successful
    <2>2. Stays
      BY <1>1 DEF cardVars
    <2> QED
      BY <2>1, <2>2
  <1>2. ASSUME NEW k \in Cards, \A j \in Cards \ {k} : card'[j] = card[j],
               card[k].status # "refunded" \/ card'[k].status = "refunded"
        PROVE  Stays
    BY <1>2
  <1>3. ASSUME NEW k \in Cards, Issue(k) \/ Redeem(k)
        PROVE  CardInv' /\ Stays
    <2>1. \A j \in Cards \ {k} : card'[j] = card[j]
      BY <1>3 DEF Issue, Redeem, NewCard, CardInv, CardsTypeOK
    <2> QED
      BY <1>2, <1>3, <2>1, NewCardInv
  <1>4. ASSUME NEW c \in Callers, NEW k \in Cards, UseCommit(c, k) \/ RevertCommit(c, k)
        PROVE  CardInv' /\ Stays
    <2>1. \A j \in Cards \ {k} : card'[j] = card[j]
      BY <1>4 DEF UseCommit, RevertCommit, CardInv, CardsTypeOK
    <2> QED
      BY <1>2, <1>4, <2>1, UseInv, RevertInv
  <1>5. ASSUME NEW c \in Callers, NEW k \in Cards,
               RefundCommit(c, k) \/ TakeBackCommit(c, k)
        PROVE  CardInv' /\ Stays
    <2>1. \A j \in Cards \ {k} : card'[j] = card[j]
      BY <1>5 DEF RefundCommit, TakeBackCommit, CardInv, CardsTypeOK
    <2> QED
      BY <1>2, <1>5, <2>1, RefundInv, TakeBackInv
  <1>6. CASE ExpireCards \/ \E k \in Cards : Due(k)
    BY <1>6, ClockInv
  <1>7. ASSUME NEW c \in Callers,
               \/ Abandon(c)
               \/ \E k \in Cards : \/ UseRead(c, k) \/ RevertRead(c, k)
                                   \/ RefundRead(c, k) \/ TakeBackRead(c, k)
                                   \/ Refused(c, k)
        PROVE  UNCHANGED cardVars
    BY <1>7 DEF Abandon, UseRead, RevertRead, RefundRead, TakeBackRead, Refused,
        Conflict, Begin
  <1>8. CASE UNCHANGED vars
    BY <1>1, <1>8 DEF vars
  <1> QED
    BY <1>1, <1>3, <1>4, <1>5, <1>6, <1>7, <1>8 DEF Next

-----------------------------------------------------------------------------
LEMMA NextInv ==
    ASSUME AccountInv, CardInv, [Next]_vars
    PROVE  AccountInv' /\ CardInv'
  <1>1. CASE Next
    BY <1>1, NextBalanced, NextCalls, NextCards DEF AccountInv, Balanced
  <1>2. CASE UNCHANGED vars
    <2>1. AccountInv'
      BY <1>2 DEF vars, accountVars, AccountInv, Agree, CallsMatch
    <2> QED
      BY <2>1, NextCards
  <1> QED
    BY <1>1, <1>2

LEMMA SpecInv == Spec => [](AccountInv /\ CardInv)
  BY InitInv, NextInv, PTL DEF Spec

\* Rows, sums, calls, cards and stock keep their types: above all, no purse, no
\* points and no spending become negative (applyBalancePayment, reverseEarning).
THEOREM MemberTypeOK == Spec => []TypeOK
  <1>1. AccountInv /\ CardInv => TypeOK
    BY DEF AccountInv, CardInv, Agree, MemberRows, LedgerSums, AccountTypeOK, TypeOK,
        Calls, CardsTypeOK, CardRows, LogRows
  <1> QED
    BY <1>1, SpecInv, PTL

\* The header of the service: the row is the sum of its ledger.
THEOREM MemberLedgerBalances == Spec => []LedgerBalances
  <1>1. AccountInv => LedgerBalances
    BY DEF AccountInv, Agree, LedgerBalances
  <1> QED
    BY <1>1, SpecInv, PTL

\* recount and reverseEarning never lower points_total.
THEOREM MemberPointsTotalNeverFalls == Spec => PointsTotalNeverFalls
  <1>1. AccountInv /\ [Next]_vars => [member'.total >= member.total]_member
    BY NextBalanced DEF Balanced, vars, accountVars
  <1> QED
    BY <1>1, SpecInv, PTL DEF Spec, PointsTotalNeverFalls

\* useCard, revertUse and expireCards keep a card in line with its log.
THEOREM MemberCardFollowsLog == Spec => []CardFollowsLog
  BY SpecInv, PTL DEF CardInv

\* refund, voidCard and revertRedeem give nothing back twice.
THEOREM MemberGivenBackOnce == Spec => []GivenBackOnce
  BY SpecInv, PTL DEF CardInv

\* revertUse and expireCards ask whether a card is refunded when they change it.
THEOREM MemberRefundedStays == Spec => RefundedStays
  <1>1. CardInv /\ [Next]_vars =>
          [\A k \in Cards : card[k].status = "refunded" => card'[k].status = "refunded"]_vars
    BY NextCards
  <1> QED
    BY <1>1, SpecInv, PTL DEF Spec, RefundedStays
=============================================================================
