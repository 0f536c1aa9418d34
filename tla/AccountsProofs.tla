---------------------------- MODULE AccountsProofs ----------------------------
(***************************************************************************)
(* Theorems about the two accounts that requests settle without a lock:    *)
(* credit (Receivables), for any number of requests, receivables, amounts  *)
(* and limits, and the commission of the staff (Commission), for any       *)
(* number of managers, bookings, items, amounts and months.                *)
(***************************************************************************)
EXTENDS Receivables, Commission, SumsProofs

SlipRows == [status : Statuses, amount : Nat, settled : Nat, due : BOOLEAN]
PaymentRows == [amount : Nat, state : {"success", "pending", "closed"}]
Calls == [op : {"idle", "open", "charge", "settle", "cancel", "limit", "remove"},
          id : Nat, amount : Nat]

\* A request charges an amount above zero, and settles or cancels a receivable.
CallsMatch ==
    \A c \in Callers :
        /\ call[c].op \in {"open", "charge"} => call[c].amount > 0
        /\ call[c].op \in {"settle", "cancel"} => call[c].id \in Slips

\* settle and cancel: never more settled than owed, settled exactly when all of
\* it is, nothing settled on what is cancelled.
Sound(s) ==
    /\ s.settled <= s.amount
    /\ s.status \in {"none", "cancelled"} => s.settled = 0
    /\ s.status = "none" \/ (s.status = "settled" <=> s.settled = s.amount)

SlipsSound == \A r \in Slips : Sound(slip[r])

IInv == TypeOK /\ CallsMatch /\ SlipsSound

-----------------------------------------------------------------------------
LEMMA Types ==
    ASSUME TypeOK
    PROVE  /\ slip \in [Slips -> SlipRows] /\ call \in [Callers -> Calls]
           /\ account.used \in Nat /\ account.limit \in Nat
           /\ rows \in [Slips -> Seq(PaymentRows)]
  BY DEF TypeOK, SlipRows, PaymentRows, Calls

\* A request that begins, ends or is rolled back.
LEMMA CallSet ==
    ASSUME IInv, NEW c \in Callers, NEW e \in Calls, call' = [call EXCEPT ![c] = e],
           e.op \in {"open", "charge"} => e.amount > 0,
           e.op \in {"settle", "cancel"} => e.id \in Slips
    PROVE  call' \in [Callers -> Calls] /\ CallsMatch'
  BY Types DEF IInv, CallsMatch

LEMMA EndSet ==
    ASSUME IInv, NEW c \in Callers, End(c)
    PROVE  call' \in [Callers -> Calls] /\ CallsMatch'
  <1>1. Idle \in Calls /\ Idle.op = "idle"
    BY DEF Idle, Calls
  <1> QED
    BY <1>1, CallSet DEF End

LEMMA BeginInv ==
    ASSUME IInv, NEW c \in Callers, NEW op, NEW id \in Nat, NEW amount \in Nat,
           op \in {"open", "charge", "settle", "cancel", "limit", "remove"},
           op \in {"open", "charge"} => amount > 0,
           op \in {"settle", "cancel"} => id \in Slips,
           Begin(c, op, id, amount)
    PROVE  IInv' /\ account' = account
  <1> DEFINE e == [op |-> op, id |-> id, amount |-> amount]
  <1>1. e \in Calls
    BY DEF Calls
  <1>2. call' = [call EXCEPT ![c] = e] /\ UNCHANGED <<account, slip, rows, booking>>
    BY DEF Begin
  <1>3. call' \in [Callers -> Calls] /\ CallsMatch'
    BY <1>1, <1>2, CallSet
  <1> QED
    BY <1>2, <1>3 DEF IInv, TypeOK, Calls, SlipsSound

\* A receivable gets another row.
LEMMA SlipSet ==
    ASSUME IInv, NEW r \in Slips, NEW s \in SlipRows, Sound(s),
           slip' = [slip EXCEPT ![r] = s]
    PROVE  slip' \in [Slips -> SlipRows] /\ SlipsSound'
  BY Types DEF IInv, SlipsSound

LEMMA ParamsAreNumbers ==
    /\ \A a \in Amounts : a \in Nat /\ a > 0
    /\ \A l \in Limits : l \in Nat
    /\ \A r \in Slips : r \in Nat
  BY ReceivablesAssumption

LEMMA InitInv == Init => IInv
  <1> SUFFICES ASSUME Init PROVE IInv
    OBVIOUS
  <1>1. TypeOK
    BY ParamsAreNumbers DEF Init, TypeOK, Statuses, Outstanding, Idle
  <1>2. CallsMatch
    BY DEF Init, CallsMatch, Idle
  <1>3. SlipsSound
    BY DEF Init, SlipsSound, Sound
  <1> QED
    BY <1>1, <1>2, <1>3 DEF IInv

\* A request that looks.
LEMMA ReadsInv ==
    ASSUME IInv, NEW c \in Callers,
           \/ \E amount \in Amounts : OpenRead(c, amount) \/ ChargeRead(c, amount)
           \/ \E r \in Slips : SettleRead(c, r) \/ CancelRead(c, r)
           \/ \E limit \in Limits : LimitRead(c, limit)
           \/ RemoveRead(c)
    PROVE  IInv' /\ account' = account
  <1>1. ASSUME NEW amount \in Amounts, OpenRead(c, amount) \/ ChargeRead(c, amount)
        PROVE  IInv' /\ account' = account
    BY <1>1, ParamsAreNumbers, BeginInv DEF OpenRead, ChargeRead
  <1>2. ASSUME NEW r \in Slips, SettleRead(c, r)
        PROVE  IInv' /\ account' = account
    <2>1. PICK total \in 1..Owed(slip[r]) : Begin(c, "settle", r, total)
      BY <1>2 DEF SettleRead
    <2>2. total \in Nat
      BY Types DEF IInv, SlipRows, Owed
    <2> QED
      BY <2>1, <2>2, ParamsAreNumbers, BeginInv
  <1>3. ASSUME NEW r \in Slips, CancelRead(c, r)
        PROVE  IInv' /\ account' = account
    <2>1. slip[r].amount \in Nat
      BY Types DEF IInv, SlipRows
    <2> QED
      BY <1>3, <2>1, ParamsAreNumbers, BeginInv DEF CancelRead
  <1>4. ASSUME NEW limit \in Limits, LimitRead(c, limit)
        PROVE  IInv' /\ account' = account
    BY <1>4, ParamsAreNumbers, BeginInv DEF LimitRead
  <1>5. CASE RemoveRead(c)
    BY <1>5, BeginInv DEF RemoveRead
  <1> QED
    BY <1>1, <1>2, <1>3, <1>4, <1>5

LEMMA ChargeInv ==
    ASSUME IInv, NEW c \in Callers, ChargeCommit(c)
    PROVE  /\ IInv'
           /\ account.active /\ ~account.deleted
           /\ account.limit = 0 \/ account'.used <= account.limit
  <1> DEFINE amount == call[c].amount
  <1>1. /\ amount \in Nat /\ amount > 0 /\ slip \in [Slips -> SlipRows]
        /\ account \in [used : Nat, limit : Nat, active : BOOLEAN, deleted : BOOLEAN]
    BY Types DEF IInv, TypeOK, Calls, CallsMatch, ChargeCommit
  <1>2. PICK r \in Slips : /\ slip[r].status = "none"
                           /\ slip' = [slip EXCEPT ![r].status = "open", ![r].amount = amount]
    BY DEF ChargeCommit
  <1>3. /\ account' = [account EXCEPT !.used = @ + amount] /\ Chargeable(amount)
        /\ booking' \in {"none", "plain", "credit"} /\ End(c) /\ UNCHANGED rows
    BY DEF ChargeCommit, Claimed, IInv, TypeOK
  <1> HIDE DEF amount
  <1> DEFINE s == [slip[r] EXCEPT !.status = "open", !.amount = amount]
  <1>4. s \in SlipRows /\ s.settled = 0 /\ s.amount = amount /\ s.status = "open"
    BY <1>1, <1>2 DEF SlipRows, Statuses, Outstanding, IInv, SlipsSound, Sound
  <1>5. slip' = [slip EXCEPT ![r] = s]
    BY <1>1, <1>2
  <1> HIDE DEF s
  <1>6. slip' \in [Slips -> SlipRows] /\ SlipsSound'
    <2>1. Sound(s)
      BY <1>1, <1>4 DEF Sound
    <2> QED
      BY <1>4, <1>5, <2>1, SlipSet
  <1>7. call' \in [Callers -> Calls] /\ CallsMatch'
    BY <1>3, EndSet
  <1>8. /\ account' \in [used : Nat, limit : Nat, active : BOOLEAN, deleted : BOOLEAN]
        /\ account'.used = account.used + amount
    BY <1>1, <1>3
  <1>9. TypeOK'
    BY <1>3, <1>6, <1>7, <1>8 DEF IInv, TypeOK, SlipRows, Calls
  <1> QED
    BY <1>3, <1>6, <1>7, <1>8, <1>9 DEF Chargeable, IInv

\* used_amount is cut at zero, never raised.
LEMMA Lowered ==
    ASSUME TypeOK, NEW n \in Nat,
           account' = [account EXCEPT !.used = AtLeastZero(@ - n)]
    PROVE  /\ account' \in [used : Nat, limit : Nat, active : BOOLEAN, deleted : BOOLEAN]
           /\ account'.used <= account.used
  <1>1. AtLeastZero(account.used - n) \in Nat /\ AtLeastZero(account.used - n) <= account.used
    BY Types DEF AtLeastZero
  <1> QED
    BY <1>1 DEF TypeOK

LEMMA SettleInv ==
    ASSUME IInv, NEW c \in Callers, SettleCommit(c)
    PROVE  IInv' /\ account'.used <= account.used
  <1> DEFINE r == call[c].id
             total == call[c].amount
             s == Settled(slip[r], total)
  <1>1. /\ r \in Slips /\ total \in Nat
        /\ slip \in [Slips -> SlipRows] /\ slip[r] \in SlipRows /\ Sound(slip[r])
    BY Types DEF IInv, CallsMatch, SettleCommit, Calls, SlipsSound
  <1>2. PICK state \in {"success", "pending"} :
          /\ Settleable(slip[r], total)
          /\ slip' = [slip EXCEPT ![r] = s]
          /\ rows' = [rows EXCEPT ![r] = Append(@, [amount |-> total, state |-> state])]
          /\ account' = [account EXCEPT !.used = AtLeastZero(@ - total)]
          /\ End(c) /\ booking' = booking
    BY DEF SettleCommit
  <1> HIDE DEF total, r
  <1>3. /\ slip[r].settled + total <= slip[r].amount
        /\ slip[r].status \in Outstanding
        /\ slip[r].settled \in Nat /\ slip[r].amount \in Nat
    BY <1>1, <1>2 DEF Settleable, SlipRows
  <1>4. /\ s \in SlipRows /\ s.settled = slip[r].settled + total
        /\ s.amount = slip[r].amount
        /\ s.status = IF slip[r].settled + total >= slip[r].amount
                      THEN "settled" ELSE "partial"
    <2> DEFINE settled == slip[r].settled + total
               status == IF settled >= slip[r].amount THEN "settled" ELSE "partial"
    <2>1. s = [slip[r] EXCEPT !.settled = settled, !.status = status]
      BY <1>1 DEF Settled, SlipRows
    <2>2. settled \in Nat /\ status \in Statuses
      BY <1>1, <1>3 DEF Statuses, Outstanding
    <2> HIDE DEF settled, status, s
    <2>3. s \in SlipRows
      BY <1>1, <2>1, <2>2, Zenon DEF SlipRows
    <2>4. s.settled = settled /\ s.status = status /\ s.amount = slip[r].amount
      BY <1>1, <2>1 DEF SlipRows
    <2> QED
      BY <2>3, <2>4 DEF settled, status
  <1> HIDE DEF s
  <1>5. Sound(s)
    BY <1>1, <1>3, <1>4 DEF Sound
  <1>6. slip' \in [Slips -> SlipRows] /\ SlipsSound'
    BY <1>1, <1>2, <1>4, <1>5, SlipSet
  <1>7. rows' \in [Slips -> Seq(PaymentRows)]
    <2>1. [amount |-> total, state |-> state] \in PaymentRows
      BY <1>1 DEF PaymentRows
    <2>2. rows \in [Slips -> Seq(PaymentRows)]
      BY Types DEF IInv
    <2>3. Append(rows[r], [amount |-> total, state |-> state]) \in Seq(PaymentRows)
      BY <1>1, <2>1, <2>2
    <2> QED
      BY <1>2, <2>2, <2>3
  <1>8. call' \in [Callers -> Calls] /\ CallsMatch'
    BY <1>2, EndSet
  <1>9. /\ account' \in [used : Nat, limit : Nat, active : BOOLEAN, deleted : BOOLEAN]
        /\ account'.used <= account.used
    BY <1>1, <1>2, Lowered DEF IInv
  <1> QED
    BY <1>2, <1>6, <1>7, <1>8, <1>9 DEF IInv, TypeOK, SlipRows, PaymentRows,
       Calls

LEMMA CancelInv ==
    ASSUME IInv, NEW c \in Callers, CancelCommit(c)
    PROVE  IInv' /\ account'.used <= account.used
  <1> DEFINE r == call[c].id
             s == [slip[r] EXCEPT !.status = "cancelled"]
  <1>1. /\ r \in Slips /\ call[c].amount \in Nat
        /\ slip \in [Slips -> SlipRows] /\ slip[r] \in SlipRows /\ Sound(slip[r])
    BY Types DEF IInv, CallsMatch, CancelCommit, Calls, SlipsSound
  <1>2. /\ Cancellable(slip[r])
        /\ slip' = [slip EXCEPT ![r] = s]
        /\ account' = [account EXCEPT !.used = AtLeastZero(@ - call[c].amount)]
        /\ booking' = "plain" /\ End(c) /\ rows' = rows
    BY DEF CancelCommit
  <1> HIDE DEF r
  <1>3. /\ s \in SlipRows /\ s.status = "cancelled"
        /\ s.settled = slip[r].settled /\ s.amount = slip[r].amount
    BY <1>1 DEF SlipRows, Statuses
  <1> HIDE DEF s
  <1>4. Sound(s)
    BY <1>1, <1>2, <1>3 DEF Sound, Cancellable
  <1>5. slip' \in [Slips -> SlipRows] /\ SlipsSound'
    BY <1>1, <1>2, <1>3, <1>4, SlipSet
  <1>6. call' \in [Callers -> Calls] /\ CallsMatch'
    BY <1>2, EndSet
  <1>7. /\ account' \in [used : Nat, limit : Nat, active : BOOLEAN, deleted : BOOLEAN]
        /\ account'.used <= account.used
    BY <1>1, <1>2, Lowered DEF IInv
  <1> QED
    BY <1>2, <1>5, <1>6, <1>7 DEF IInv, TypeOK, SlipRows, Calls

\* The clock and the job that marks what is overdue.
LEMMA OverdueInv ==
    ASSUME IInv, MarkOverdue \/ \E r \in Slips : DayPasses(r)
    PROVE  IInv' /\ account' = account
  <1>1. slip \in [Slips -> SlipRows] /\ SlipsSound
    BY Types DEF IInv
  <1>2. UNCHANGED <<account, rows, booking, call>>
    BY DEF MarkOverdue, DayPasses
  <1>3. \A r \in Slips :
          LET s == [slip[r] EXCEPT !.status = "overdue"]
          IN  /\ s \in SlipRows /\ s.status = "overdue"
              /\ s.settled = slip[r].settled /\ s.amount = slip[r].amount
    BY <1>1 DEF SlipRows, Statuses, Outstanding
  <1>4. slip' \in [Slips -> SlipRows] /\ SlipsSound'
    <2>1. CASE MarkOverdue
      <3>1. slip' = [r \in Slips |-> IF r \in Late
                        THEN [slip[r] EXCEPT !.status = "overdue"] ELSE slip[r]]
        BY <2>1 DEF MarkOverdue
      <3>2. slip' \in [Slips -> SlipRows]
        BY <1>1, <1>3, <3>1
      <3>3. \A r \in Slips : slip'[r] = slip[r] \/
              /\ slip[r].status \in {"open", "partial"} /\ slip'[r].status = "overdue"
              /\ slip'[r].settled = slip[r].settled /\ slip'[r].amount = slip[r].amount
        BY <1>3, <3>1 DEF Late
      <3> QED
        BY <1>1, <3>2, <3>3 DEF SlipsSound, Sound
    <2>2. ASSUME NEW r \in Slips, DayPasses(r)
          PROVE  slip' \in [Slips -> SlipRows] /\ SlipsSound'
      <3> DEFINE s == [slip[r] EXCEPT !.due = TRUE]
      <3>1. slip' = [slip EXCEPT ![r] = s]
        BY <2>2 DEF DayPasses
      <3>2. /\ s \in SlipRows /\ s.status = slip[r].status
            /\ s.settled = slip[r].settled /\ s.amount = slip[r].amount
        BY <1>1 DEF SlipRows
      <3>3. Sound(s)
        BY <1>1, <3>2 DEF Sound, SlipsSound
      <3> QED
        BY <3>1, <3>2, <3>3, SlipSet
    <2> QED
      BY <2>1, <2>2
  <1> QED
    BY <1>2, <1>4 DEF IInv, TypeOK, SlipRows, CallsMatch

\* The payment of a QR code.
LEMMA AnsweredInv ==
    ASSUME IInv, NEW r \in Slips, NEW i \in DOMAIN rows[r],
           NEW state \in {"success", "closed"}, Answered(r, i, state)
    PROVE  IInv' /\ account' = account
  <1>1. rows \in [Slips -> Seq(PaymentRows)]
    BY Types DEF IInv
  <1>2. rows' = [rows EXCEPT ![r] = [rows[r] EXCEPT ![i].state = state]]
    BY DEF Answered
  <1>3. [rows[r] EXCEPT ![i].state = state] \in Seq(PaymentRows)
    <2>1. rows[r] \in Seq(PaymentRows) /\ rows[r][i] \in PaymentRows
      BY <1>1
    <2> DEFINE row == [rows[r][i] EXCEPT !.state = state]
    <2>2. row \in PaymentRows
      BY <2>1, Zenon DEF PaymentRows
    <2>3. [rows[r] EXCEPT ![i].state = state] = [rows[r] EXCEPT ![i] = row]
      BY <2>1
    <2> HIDE DEF row
    <2> QED
      BY <2>1, <2>2, <2>3
  <1>4. rows' \in [Slips -> Seq(PaymentRows)]
    BY <1>1, <1>2, <1>3
  <1>5. UNCHANGED <<account, slip, booking, call>>
    BY DEF Answered
  <1> QED
    BY <1>4, <1>5 DEF IInv, TypeOK, PaymentRows, CallsMatch, SlipsSound

\* What happens to the account, and a request that fails.
LEMMA AccountInv ==
    ASSUME IInv,
           \/ OpenPlain \/ SwitchActive
           \/ \E c \in Callers : LimitWrite(c) \/ RemoveWrite(c) \/ Rollback(c)
    PROVE  IInv' /\ account'.used = account.used
  <1>1. account \in [used : Nat, limit : Nat, active : BOOLEAN, deleted : BOOLEAN]
    BY DEF IInv, TypeOK
  <1>2. CASE OpenPlain \/ SwitchActive
    BY <1>1, <1>2 DEF OpenPlain, SwitchActive, IInv, TypeOK, CallsMatch,
       SlipsSound
  <1>3. ASSUME NEW c \in Callers, LimitWrite(c) \/ RemoveWrite(c) \/ Rollback(c)
        PROVE  IInv' /\ account'.used = account.used
    <2>1. End(c) /\ UNCHANGED <<slip, rows, booking>>
      BY <1>3 DEF LimitWrite, RemoveWrite, Rollback
    <2>2. call' \in [Callers -> Calls] /\ CallsMatch'
      BY <2>1, EndSet
    <2>3. call[c].amount \in Nat
      BY Types DEF IInv, Calls
    <2>4. /\ account' \in [used : Nat, limit : Nat, active : BOOLEAN, deleted : BOOLEAN]
          /\ account'.used = account.used
      BY <1>1, <1>3, <2>3 DEF LimitWrite, RemoveWrite, Rollback
    <2> QED
      BY <2>1, <2>2, <2>4 DEF IInv, TypeOK, Calls, SlipsSound
  <1> QED
    BY <1>2, <1>3

\* What raises the used part of the limit.
Charges ==
    account'.used > account.used =>
        /\ account.active /\ ~account.deleted
        /\ account.limit = 0 \/ account'.used <= account.limit

LEMMA NextInv ==
    ASSUME IInv, [Next]_vars
    PROVE  IInv' /\ (account' = account \/ Charges)
  <1>1. account.used \in Nat
    BY Types DEF IInv
  <1>2. CASE UNCHANGED vars
    BY <1>2 DEF vars, IInv, TypeOK, CallsMatch, SlipsSound
  <1>3. ASSUME NEW c \in Callers, SettleCommit(c) \/ CancelCommit(c)
        PROVE  IInv' /\ Charges
    <2>1. IInv' /\ account'.used <= account.used
      BY <1>3, SettleInv, CancelInv
    <2>2. account'.used \in Nat
      BY <2>1 DEF IInv, TypeOK
    <2> QED
      BY <1>1, <2>1, <2>2 DEF Charges
  <1>4. ASSUME NEW c \in Callers, ChargeCommit(c)
        PROVE  IInv' /\ Charges
    BY <1>4, ChargeInv DEF Charges
  <1>5. CASE \/ OpenPlain \/ SwitchActive
             \/ \E c \in Callers : LimitWrite(c) \/ RemoveWrite(c) \/ Rollback(c)
    <2>1. IInv' /\ account'.used = account.used
      BY <1>5, AccountInv
    <2> QED
      BY <1>1, <2>1 DEF Charges
  <1>6. CASE MarkOverdue \/ \E r \in Slips : DayPasses(r)
    BY <1>6, OverdueInv
  <1>7. ASSUME NEW r \in Slips, Lands(r) \/ Closes(r)
        PROVE  IInv' /\ account' = account
    BY <1>7, AnsweredInv DEF Lands, Closes
  <1>8. ASSUME NEW c \in Callers, Request(c)
        PROVE  IInv' /\ (account' = account \/ Charges)
    BY <1>3, <1>4, <1>5, <1>8, ReadsInv DEF Request
  <1> QED
    BY <1>2, <1>5, <1>6, <1>7, <1>8 DEF Next

LEMMA SpecInv == Spec => []IInv
  BY InitInv, NextInv, PTL DEF Spec

\* Account, receivables, rows and calls keep their types; used_amount never
\* becomes negative, whatever was cut at zero.
THEOREM CreditTypeOK == Spec => []TypeOK
  BY SpecInv, PTL DEF IInv

\* settle and cancel: no two requests settle more than is owed or settle what
\* is cancelled, and the status says whether anything is left.
THEOREM CreditSlipsSound == Spec => []SlipsSound
  BY SpecInv, PTL DEF IInv

\* createFromBooking: a charge stays within the limit in force when it is written.
THEOREM CreditChargesWithinLimit == Spec => ChargesWithinLimit
  <1>1. IInv /\ [Next]_vars =>
          [account'.used > account.used =>
              /\ account.active /\ ~account.deleted
              /\ account.limit = 0 \/ account'.used <= account.limit]_vars
    BY NextInv DEF Charges, IInv, TypeOK
  <1> QED
    BY <1>1, SpecInv, PTL DEF Spec, ChargesWithinLimit

-----------------------------------------------------------------------------
(* The sums.  What a receivable contributes to used_amount changes with the *)
(* one receivable a step writes; a cancellation takes off the amount it     *)
(* read, so CancelKnows says that this is still the receivable's amount.    *)

All == {"success", "pending", "closed"}

\* What the receivables f are owed, which of them are outstanding, and the sum.
Owing(f) == [r \in Slips |-> Owed(f[r])]
OutstandingOf(f) == {r \in Slips : f[r].status \in Outstanding}
UsedOf(f) == SumOf(Owing(f), OutstandingOf(f))

Contribution(s) == IF s.status \in Outstanding THEN Owed(s) ELSE 0

CancelKnows ==
    \A c \in Callers : call[c].op = "cancel" =>
        /\ slip[call[c].id].status # "none"
        /\ slip[call[c].id].amount = call[c].amount

RowsAddUp == \A r \in Slips : slip[r].settled = RowsTotal(r, All)

SumsMatch == CancelKnows /\ account.used = UsedOf(slip) /\ RowsAddUp

LEMMA SlipsFinite ==
    /\ IsFiniteSet(Slips)
    /\ \A S : S \subseteq Slips => IsFiniteSet(S)
  <1>1. PICK n \in Slips : Slips = 1..n
    BY ReceivablesAssumption
  <1>2. IsFiniteSet(Slips)
    BY <1>1, ParamsAreNumbers, FS_Interval
  <1> QED
    BY <1>2, FS_Subset

\* One receivable apart, what is owed on the others adds up.
LEMMA OneApart ==
    ASSUME NEW f \in [Slips -> SlipRows], \A q \in Slips : Sound(f[q]), NEW r \in Slips
    PROVE  /\ UsedOf(f) = Contribution(f[r]) + SumOf(Owing(f), OutstandingOf(f) \ {r})
           /\ SumOf(Owing(f), OutstandingOf(f) \ {r}) \in Nat
           /\ Contribution(f[r]) \in Nat
  <1>1. /\ \A q \in Slips : Owing(f)[q] \in Nat /\ Owing(f)[q] = Owed(f[q])
        /\ OutstandingOf(f) \subseteq Slips /\ IsFiniteSet(OutstandingOf(f))
        /\ IsFiniteSet(OutstandingOf(f) \ {r})
    BY SlipsFinite DEF Owing, Owed, SlipRows, Sound, OutstandingOf
  <1>2. SumOf(Owing(f), OutstandingOf(f) \ {r}) \in Nat
    BY <1>1, SumIsNat
  <1>3. CASE r \in OutstandingOf(f)
    <2>1. UsedOf(f) = Owing(f)[r] + SumOf(Owing(f), OutstandingOf(f) \ {r})
      BY <1>1, <1>3, SumTakesOut DEF UsedOf
    <2> QED
      BY <1>1, <1>2, <1>3, <2>1 DEF Contribution, OutstandingOf
  <1>4. CASE r \notin OutstandingOf(f)
    <2>1. OutstandingOf(f) \ {r} = OutstandingOf(f) /\ Contribution(f[r]) = 0
      BY <1>4 DEF Contribution, OutstandingOf
    <2> QED
      BY <1>2, <2>1 DEF UsedOf
  <1> QED  BY <1>3, <1>4

\* Receivables that owe the same and are outstanding alike are owed the same sum.
LEMMA SameSum ==
    ASSUME NEW f, NEW g, NEW S, S \subseteq Slips,
           \A q \in S : Owed(g[q]) = Owed(f[q])
    PROVE  SumOf(Owing(g), S) = SumOf(Owing(f), S)
  <1>1. \A q \in S : Owing(f)[q] = Owing(g)[q]
    BY DEF Owing
  <1> QED
    BY <1>1, SlipsFinite, SumAgrees

\* A step that writes one receivable moves the sum by its contribution.
LEMMA OneSlipMoves ==
    ASSUME NEW f \in [Slips -> SlipRows], \A q \in Slips : Sound(f[q]),
           NEW g \in [Slips -> SlipRows], \A q \in Slips : Sound(g[q]),
           NEW r \in Slips, \A q \in Slips \ {r} : g[q] = f[q]
    PROVE  /\ UsedOf(g) - Contribution(g[r]) = UsedOf(f) - Contribution(f[r])
           /\ UsedOf(f) >= Contribution(f[r])
           /\ UsedOf(f) \in Nat /\ UsedOf(g) \in Nat
           /\ Contribution(f[r]) \in Nat /\ Contribution(g[r]) \in Nat
  <1>1. OutstandingOf(g) \ {r} = OutstandingOf(f) \ {r}
    BY DEF OutstandingOf
  <1>2. SumOf(Owing(g), OutstandingOf(f) \ {r}) = SumOf(Owing(f), OutstandingOf(f) \ {r})
    BY SameSum DEF OutstandingOf
  <1> QED
    BY <1>1, <1>2, OneApart

LEMMA SumStands ==
    ASSUME NEW f, NEW g,
           \A q \in Slips : /\ Owed(g[q]) = Owed(f[q])
                            /\ g[q].status \in Outstanding <=> f[q].status \in Outstanding
    PROVE  UsedOf(g) = UsedOf(f)
  <1>1. OutstandingOf(g) = OutstandingOf(f)
    BY DEF OutstandingOf
  <1> QED
    BY <1>1, SameSum DEF UsedOf, OutstandingOf

\* The rows of a receivable all count, whatever became of their payments.
RowsSum(seq) == SumOf([i \in DOMAIN seq |-> seq[i].amount], DOMAIN seq)

LEMMA RowsAreAll ==
    ASSUME NEW seq \in Seq(PaymentRows)
    PROVE  /\ {i \in DOMAIN seq : seq[i].state \in All} = DOMAIN seq
           /\ IsFiniteSet(DOMAIN seq)
           /\ \A i \in DOMAIN seq : seq[i] \in PaymentRows
           /\ RowsSum(seq) \in Int
  <1>1. DOMAIN seq = 1..Len(seq) /\ Len(seq) \in Nat
    OBVIOUS
  <1>2. \A i \in DOMAIN seq : seq[i] \in PaymentRows
    OBVIOUS
  <1>3. {i \in DOMAIN seq : seq[i].state \in All} = DOMAIN seq
    BY <1>2 DEF All, PaymentRows
  <1>4. IsFiniteSet(DOMAIN seq)
    BY <1>1, FS_Interval
  <1>5. RowsSum(seq) \in Int
    <2> DEFINE f == [i \in DOMAIN seq |-> seq[i].amount]
    <2>1. \A i \in DOMAIN seq : f[i] \in Int
      BY <1>2 DEF PaymentRows
    <2> HIDE DEF f
    <2>2. SumOf(f, DOMAIN seq) \in Int
      BY <1>4, <2>1, SumIsInt
    <2> QED  BY <2>2 DEF f, RowsSum
  <1> QED
    BY <1>2, <1>3, <1>4, <1>5

LEMMA RowsTotals ==
    ASSUME \A r \in Slips : rows[r] \in Seq(PaymentRows) /\ rows'[r] \in Seq(PaymentRows)
    PROVE  \A r \in Slips : /\ RowsTotal(r, All) = RowsSum(rows[r])
                             /\ RowsTotal(r, All)' = RowsSum(rows'[r])
  BY RowsAreAll DEF RowsTotal, RowsSum

\* A row more.
LEMMA RowAppended ==
    ASSUME NEW seq \in Seq(PaymentRows), NEW row \in PaymentRows
    PROVE  RowsSum(Append(seq, row)) = RowsSum(seq) + row.amount
  <1> DEFINE n == Len(seq) + 1
             new == Append(seq, row)
             f == [i \in DOMAIN seq |-> seq[i].amount]
             g == [i \in DOMAIN new |-> new[i].amount]
  <1>1. /\ DOMAIN new = DOMAIN seq \cup {n} /\ n \notin DOMAIN seq
        /\ \A i \in DOMAIN seq : new[i] = seq[i]
        /\ new[n] = row
    OBVIOUS
  <1>2. /\ IsFiniteSet(DOMAIN seq)
        /\ \A i \in DOMAIN seq : f[i] \in Int /\ g[i] \in Int /\ f[i] = g[i]
        /\ g[n] = row.amount /\ row.amount \in Int
    <2>1. \A i \in DOMAIN seq : seq[i] \in PaymentRows
      OBVIOUS
    <2>2. \A x \in PaymentRows : x.amount \in Int
      BY DEF PaymentRows
    <2>3. IsFiniteSet(DOMAIN seq)
      BY RowsAreAll
    <2> HIDE DEF new, n
    <2> QED
      BY <1>1, <2>1, <2>2, <2>3
  <1>3. RowsSum(seq) = SumOf(f, DOMAIN seq) /\ RowsSum(new) = SumOf(g, DOMAIN new)
    BY DEF RowsSum
  <1> HIDE DEF f, g, n, new
  <1>4. SumOf(g, DOMAIN seq \cup {n}) = g[n] + SumOf(g, DOMAIN seq)
    BY <1>1, <1>2, SumPutsIn
  <1>5. SumOf(f, DOMAIN seq) = SumOf(g, DOMAIN seq) /\ SumOf(f, DOMAIN seq) \in Int
    BY <1>2, SumAgrees, SumIsInt
  <1>6. RowsSum(new) = RowsSum(seq) + row.amount
    BY <1>1, <1>2, <1>3, <1>4, <1>5
  <1> QED  BY <1>6 DEF new

\* A payment that is made or closed keeps its amount.
LEMMA RowAnswered ==
    ASSUME NEW seq \in Seq(PaymentRows), NEW new \in Seq(PaymentRows),
           DOMAIN new = DOMAIN seq, \A i \in DOMAIN seq : new[i].amount = seq[i].amount
    PROVE  RowsSum(new) = RowsSum(seq)
  <1>1. [i \in DOMAIN new |-> new[i].amount] = [i \in DOMAIN seq |-> seq[i].amount]
    OBVIOUS
  <1> QED
    BY <1>1 DEF RowsSum

\* A request that begins or ends: a cancellation has just read what it takes off.
LEMMA CallKept ==
    ASSUME IInv, CancelKnows, NEW c \in Callers,
           \A d \in Callers \ {c} : call'[d] = call[d],
           call'[c].op = "cancel" => /\ slip'[call'[c].id].status # "none"
                                     /\ slip'[call'[c].id].amount = call'[c].amount,
           \A r \in Slips : slip[r].status # "none" =>
               slip'[r].status # "none" /\ slip'[r].amount = slip[r].amount
    PROVE  CancelKnows'
  BY DEF IInv, CallsMatch, CancelKnows

LEMMA EndKept ==
    ASSUME IInv, CancelKnows, NEW c \in Callers, End(c),
           \A r \in Slips : slip[r].status # "none" =>
               slip'[r].status # "none" /\ slip'[r].amount = slip[r].amount
    PROVE  CancelKnows'
  <1>1. call' = [call EXCEPT ![c] = Idle] /\ call \in [Callers -> Calls]
    BY Types DEF End, IInv
  <1>2. call'[c].op # "cancel" /\ \A d \in Callers \ {c} : call'[d] = call[d]
    BY <1>1 DEF Idle
  <1> QED
    BY <1>2, CallKept

LEMMA SumsInit == Init => SumsMatch
  <1> SUFFICES ASSUME Init PROVE SumsMatch
    OBVIOUS
  <1>1. CancelKnows
    BY DEF Init, CancelKnows, Idle
  <1>2. account.used = UsedOf(slip)
    <2>1. OutstandingOf(slip) = {}
      BY DEF Init, OutstandingOf, Outstanding
    <2>2. UsedOf(slip) = 0
      BY <2>1, SumOfNothing DEF UsedOf
    <2> QED
      BY <2>2 DEF Init
  <1>3. RowsAddUp
    <2>1. ASSUME NEW r \in Slips
          PROVE  slip[r].settled = 0 /\ RowsTotal(r, All) = 0
      <3>1. rows[r] = <<>> /\ {i \in DOMAIN rows[r] : rows[r][i].state \in All} = {}
        BY DEF Init
      <3> QED
        BY <3>1, SumOfNothing DEF Init, RowsTotal
    <2> QED
      BY <2>1 DEF RowsAddUp
  <1> QED
    BY <1>1, <1>2, <1>3 DEF SumsMatch

LEMMA ChargeSums ==
    ASSUME IInv, SumsMatch, IInv', NEW c \in Callers, ChargeCommit(c)
    PROVE  SumsMatch'
  <1> DEFINE amount == call[c].amount
  <1>1. /\ slip \in [Slips -> SlipRows] /\ slip' \in [Slips -> SlipRows]
        /\ amount \in Nat /\ account.used \in Nat
        /\ \A q \in Slips : Sound(slip[q]) /\ Sound(slip'[q])
    BY Types DEF IInv, SlipsSound, TypeOK, SlipRows, Calls
  <1>2. PICK r \in Slips : /\ slip[r].status = "none"
                           /\ slip' = [slip EXCEPT ![r].status = "open", ![r].amount = amount]
    BY DEF ChargeCommit
  <1>3. account' = [account EXCEPT !.used = @ + amount] /\ End(c) /\ rows' = rows
    BY DEF ChargeCommit
  <1>4. account'.used = account.used + amount
    BY <1>1, <1>3 DEF IInv, TypeOK
  <1> HIDE DEF amount
  <1>5. /\ \A q \in Slips \ {r} : slip'[q] = slip[q]
        /\ slip'[r].status = "open" /\ slip'[r].amount = amount
        /\ slip'[r].settled = slip[r].settled /\ slip[r].settled = 0
    BY <1>1, <1>2 DEF SlipRows, Sound
  <1>6. Contribution(slip[r]) = 0 /\ Contribution(slip'[r]) = amount
    BY <1>1, <1>2, <1>5 DEF Contribution, Outstanding, Owed
  <1>7. UsedOf(slip') = UsedOf(slip) + amount
    BY <1>1, <1>5, <1>6, OneSlipMoves
  <1>8. CancelKnows'
    BY <1>2, <1>3, <1>5, EndKept DEF SumsMatch
  <1>9. RowsAddUp'
    BY <1>3, <1>5 DEF SumsMatch, RowsAddUp, RowsTotal
  <1> QED
    BY <1>4, <1>7, <1>8, <1>9 DEF SumsMatch

LEMMA SettleSums ==
    ASSUME IInv, SumsMatch, IInv', NEW c \in Callers, SettleCommit(c)
    PROVE  SumsMatch'
  <1> DEFINE r == call[c].id
             total == call[c].amount
  <1>1. /\ slip \in [Slips -> SlipRows] /\ slip' \in [Slips -> SlipRows]
        /\ r \in Slips /\ total \in Nat /\ account.used \in Nat
        /\ \A q \in Slips : Sound(slip[q]) /\ Sound(slip'[q])
    BY Types DEF IInv, SlipsSound, TypeOK, SlipRows, Calls, CallsMatch,
       SettleCommit
  <1>2. PICK state \in {"success", "pending"} :
          /\ Settleable(slip[r], total)
          /\ slip' = [slip EXCEPT ![r] = Settled(@, total)]
          /\ rows' = [rows EXCEPT ![r] = Append(@, [amount |-> total, state |-> state])]
          /\ account' = [account EXCEPT !.used = AtLeastZero(@ - total)]
          /\ End(c)
    BY DEF SettleCommit
  <1>3. account'.used = AtLeastZero(account.used - total)
    BY <1>2 DEF IInv, TypeOK
  <1> HIDE DEF r, total
  <1>4. /\ slip[r].settled \in Nat /\ slip[r].amount \in Nat
        /\ slip[r].settled + total <= slip[r].amount /\ slip[r].status \in Outstanding
    BY <1>1, <1>2 DEF SlipRows, Settleable
  <1>5. /\ \A q \in Slips \ {r} : slip'[q] = slip[q]
        /\ slip'[r].settled = slip[r].settled + total
        /\ slip'[r].amount = slip[r].amount
        /\ slip'[r].status = IF slip[r].settled + total >= slip[r].amount
                             THEN "settled" ELSE "partial"
    BY <1>1, <1>2 DEF Settled, SlipRows
  <1>6. /\ Contribution(slip[r]) = slip[r].amount - slip[r].settled
        /\ Contribution(slip'[r]) = slip[r].amount - slip[r].settled - total
    <2>1. \/ slip[r].settled + total >= slip[r].amount /\ slip'[r].status = "settled"
          \/ slip[r].settled + total < slip[r].amount /\ slip'[r].status = "partial"
      BY <1>1, <1>4, <1>5
    <2> QED
      BY <1>1, <1>4, <1>5, <2>1 DEF Contribution, Outstanding, Owed
  <1>7. UsedOf(slip') = UsedOf(slip) - total /\ UsedOf(slip') \in Nat
    BY <1>1, <1>4, <1>5, <1>6, OneSlipMoves
  <1>8. account'.used = UsedOf(slip')
    BY <1>1, <1>3, <1>7 DEF SumsMatch, AtLeastZero
  <1>9. CancelKnows'
    BY <1>2, <1>4, <1>5, EndKept DEF SumsMatch, Outstanding
  <1>10. RowsAddUp'
    <2> DEFINE row == [amount |-> total, state |-> state]
    <2>1. /\ \A q \in Slips : rows[q] \in Seq(PaymentRows) /\ rows'[q] \in Seq(PaymentRows)
          /\ row \in PaymentRows /\ row.amount = total
      BY <1>1, Types DEF IInv, TypeOK, PaymentRows
    <2>2. \A q \in Slips : /\ RowsTotal(q, All) = RowsSum(rows[q])
                            /\ RowsTotal(q, All)' = RowsSum(rows'[q])
      BY <2>1, RowsTotals
    <2>3. /\ rows'[r] = Append(rows[r], row)
          /\ \A q \in Slips \ {r} : rows'[q] = rows[q]
      BY <1>1, <1>2, Types DEF IInv
    <2> HIDE DEF row
    <2>4. /\ RowsSum(rows'[r]) = RowsSum(rows[r]) + total
          /\ \A q \in Slips \ {r} : RowsSum(rows'[q]) = RowsSum(rows[q])
      BY <1>1, <2>1, <2>3, RowAppended
    <2> QED
      BY <1>5, <2>2, <2>4 DEF SumsMatch, RowsAddUp
  <1> QED
    BY <1>8, <1>9, <1>10 DEF SumsMatch

LEMMA CancelSums ==
    ASSUME IInv, SumsMatch, IInv', NEW c \in Callers, CancelCommit(c)
    PROVE  SumsMatch'
  <1> DEFINE r == call[c].id
             total == call[c].amount
  <1>1. /\ slip \in [Slips -> SlipRows] /\ slip' \in [Slips -> SlipRows]
        /\ r \in Slips /\ total \in Nat /\ account.used \in Nat
        /\ \A q \in Slips : Sound(slip[q]) /\ Sound(slip'[q])
    BY Types DEF IInv, SlipsSound, TypeOK, SlipRows, Calls, CallsMatch,
       CancelCommit
  <1>2. /\ Cancellable(slip[r])
        /\ slip' = [slip EXCEPT ![r].status = "cancelled"]
        /\ account' = [account EXCEPT !.used = AtLeastZero(@ - total)]
        /\ rows' = rows /\ End(c)
    BY DEF CancelCommit
  <1>3. account'.used = AtLeastZero(account.used - total)
    BY <1>2 DEF IInv, TypeOK
  <1>4. slip[r].amount = total
    BY DEF SumsMatch, CancelKnows, CancelCommit
  <1> HIDE DEF r, total
  <1>5. /\ \A q \in Slips \ {r} : slip'[q] = slip[q]
        /\ slip'[r].settled = slip[r].settled /\ slip'[r].amount = slip[r].amount
        /\ slip'[r].status = "cancelled"
    BY <1>1, <1>2 DEF SlipRows
  <1>6. Contribution(slip[r]) = total /\ Contribution(slip'[r]) = 0
    BY <1>1, <1>2, <1>4, <1>5 DEF Contribution, Outstanding, Owed, Cancellable
  <1>7. UsedOf(slip') = UsedOf(slip) - total /\ UsedOf(slip') \in Nat
    BY <1>1, <1>5, <1>6, OneSlipMoves
  <1>8. account'.used = UsedOf(slip')
    BY <1>1, <1>3, <1>7 DEF SumsMatch, AtLeastZero
  <1>9. CancelKnows'
    BY <1>2, <1>5, EndKept DEF SumsMatch
  <1>10. RowsAddUp'
    BY <1>2, <1>5 DEF SumsMatch, RowsAddUp, RowsTotal
  <1> QED
    BY <1>8, <1>9, <1>10 DEF SumsMatch

\* The clock and the job change neither what is owed nor who owes it.
LEMMA OverdueSums ==
    ASSUME IInv, SumsMatch, MarkOverdue \/ \E r \in Slips : DayPasses(r)
    PROVE  SumsMatch'
  <1>1. UNCHANGED <<account, rows, booking, call>> /\ slip \in [Slips -> SlipRows]
    BY Types DEF IInv, MarkOverdue, DayPasses
  <1>2. \A q \in Slips :
          /\ slip'[q].settled = slip[q].settled /\ slip'[q].amount = slip[q].amount
          /\ \/ slip'[q].status = slip[q].status
             \/ slip[q].status \in {"open", "partial"} /\ slip'[q].status = "overdue"
    <2>1. CASE MarkOverdue
      BY <1>1, <2>1 DEF MarkOverdue, Late, SlipRows
    <2>2. ASSUME NEW r \in Slips, DayPasses(r)
          PROVE  \A q \in Slips :
                    /\ slip'[q].settled = slip[q].settled
                    /\ slip'[q].amount = slip[q].amount
                    /\ slip'[q].status = slip[q].status
      BY <1>1, <2>2 DEF DayPasses, SlipRows
    <2> QED  BY <2>1, <2>2
  <1>3. UsedOf(slip') = UsedOf(slip)
    BY <1>2, SumStands DEF Owed, Outstanding
  <1>4. CancelKnows'
    BY <1>1, <1>2 DEF SumsMatch, CancelKnows, IInv, CallsMatch
  <1>5. RowsAddUp'
    BY <1>1, <1>2 DEF SumsMatch, RowsAddUp, RowsTotal
  <1> QED
    BY <1>1, <1>3, <1>4, <1>5 DEF SumsMatch

LEMMA AnsweredSums ==
    ASSUME IInv, SumsMatch, IInv', NEW r \in Slips, NEW i \in DOMAIN rows[r],
           NEW state \in {"success", "closed"}, Answered(r, i, state)
    PROVE  SumsMatch'
  <1>1. UNCHANGED <<account, slip, booking, call>>
    BY DEF Answered
  <1>2. /\ rows \in [Slips -> Seq(PaymentRows)] /\ rows' \in [Slips -> Seq(PaymentRows)]
        /\ rows' = [rows EXCEPT ![r][i].state = state]
    BY Types DEF IInv, Answered, TypeOK, PaymentRows
  <1>3. /\ \A q \in Slips \ {r} : rows'[q] = rows[q]
        /\ DOMAIN rows'[r] = DOMAIN rows[r]
        /\ \A k \in DOMAIN rows[r] : rows'[r][k].amount = rows[r][k].amount
    <2>1. rows'[r] = [rows[r] EXCEPT ![i].state = state]
      BY <1>2
    <2>2. \A k \in DOMAIN rows[r] : rows[r][k] \in PaymentRows
      BY <1>2
    <2> QED
      BY <1>2, <2>1, <2>2 DEF PaymentRows
  <1>4. \A q \in Slips : RowsSum(rows'[q]) = RowsSum(rows[q])
    BY <1>2, <1>3, RowAnswered
  <1>5. RowsAddUp'
    BY <1>1, <1>2, <1>4, RowsTotals DEF SumsMatch, RowsAddUp
  <1> QED
    BY <1>1, <1>5 DEF SumsMatch, CancelKnows

\* What a request reads, what happens to the account, and a request that fails.
LEMMA OtherSums ==
    ASSUME IInv, SumsMatch, UNCHANGED <<slip, rows>>, account'.used = account.used,
           CancelKnows'
    PROVE  SumsMatch'
  BY DEF SumsMatch, RowsAddUp, RowsTotal

LEMMA ReadSums ==
    ASSUME IInv, SumsMatch, NEW c \in Callers,
           \/ \E amount \in Amounts : OpenRead(c, amount) \/ ChargeRead(c, amount)
           \/ \E r \in Slips : SettleRead(c, r) \/ CancelRead(c, r)
           \/ \E limit \in Limits : LimitRead(c, limit)
           \/ RemoveRead(c)
    PROVE  SumsMatch'
  <1>1. UNCHANGED <<account, slip, rows>>
    BY DEF OpenRead, ChargeRead, SettleRead, CancelRead, LimitRead, RemoveRead,
       Begin
  <1>2. call \in [Callers -> Calls]
    BY Types DEF IInv
  <1>3. \A d \in Callers \ {c} : call'[d] = call[d]
    BY <1>2 DEF OpenRead, ChargeRead, SettleRead, CancelRead, LimitRead,
       RemoveRead, Begin
  <1>4. call'[c].op = "cancel" => /\ slip[call'[c].id].status # "none"
                                  /\ slip[call'[c].id].amount = call'[c].amount
    <2>1. ASSUME NEW r \in Slips, CancelRead(c, r)
          PROVE  /\ call'[c].id = r /\ call'[c].amount = slip[r].amount
                 /\ slip[r].status # "none"
      BY <1>2, <2>1 DEF CancelRead, Cancellable, Begin
    <2>2. CASE ~ \E r \in Slips : CancelRead(c, r)
      BY <1>2, <2>2 DEF OpenRead, ChargeRead, SettleRead, LimitRead, RemoveRead,
         Begin
    <2> QED  BY <2>1, <2>2
  <1>5. CancelKnows'
    BY <1>1, <1>3, <1>4, CallKept DEF SumsMatch
  <1> QED
    BY <1>1, <1>5, OtherSums

LEMMA NextSums ==
    ASSUME IInv, SumsMatch, [Next]_vars
    PROVE  SumsMatch'
  <1>0. IInv'
    BY NextInv
  <1>1. CASE UNCHANGED vars
    BY <1>1 DEF vars, SumsMatch, CancelKnows, RowsAddUp, RowsTotal
  <1>2. ASSUME NEW c \in Callers, SettleCommit(c) \/ CancelCommit(c) \/ ChargeCommit(c)
        PROVE  SumsMatch'
    BY <1>0, <1>2, SettleSums, CancelSums, ChargeSums
  <1>3. CASE OpenPlain \/ SwitchActive
    <2>1. UNCHANGED <<slip, rows, call>> /\ account'.used = account.used
      BY <1>3 DEF OpenPlain, SwitchActive, IInv, TypeOK
    <2> QED
      BY <2>1, OtherSums DEF SumsMatch, CancelKnows
  <1>4. ASSUME NEW c \in Callers, LimitWrite(c) \/ RemoveWrite(c) \/ Rollback(c)
        PROVE  SumsMatch'
    <2>1. UNCHANGED <<slip, rows>> /\ End(c)
      BY <1>4 DEF LimitWrite, RemoveWrite, Rollback
    <2>2. account'.used = account.used
      BY <1>4, AccountInv
    <2> QED
      BY <2>1, <2>2, EndKept, OtherSums DEF SumsMatch
  <1>5. CASE MarkOverdue \/ \E r \in Slips : DayPasses(r)
    BY <1>5, OverdueSums
  <1>6. ASSUME NEW r \in Slips, Lands(r) \/ Closes(r)
        PROVE  SumsMatch'
    BY <1>0, <1>6, AnsweredSums DEF Lands, Closes
  <1>7. ASSUME NEW c \in Callers, Request(c)
        PROVE  SumsMatch'
    BY <1>2, <1>4, <1>7, ReadSums DEF Request
  <1> QED
    BY <1>1, <1>3, <1>5, <1>6, <1>7 DEF Next

LEMMA SumsCorrect == Spec => [](IInv /\ SumsMatch)
  <1>1. IInv /\ SumsMatch /\ [Next]_vars => SumsMatch'
    BY NextSums
  <1> QED
    BY <1>1, SpecInv, SumsInit, PTL DEF Spec

\* createFromBooking, settle, cancel: used_amount is what the outstanding
\* receivables owe, for any number of requests, and the cut at zero in
\* GREATEST(used_amount - n, 0) never hides a difference.
THEOREM CreditUsedIsOutstanding == Spec => []UsedIsOutstanding
  <1>1. IInv /\ SumsMatch => UsedIsOutstanding
    <2> SUFFICES ASSUME IInv, SumsMatch PROVE UsedIsOutstanding
      OBVIOUS
    <2>1. account.used = SumOf([r \in Slips |-> Owed(slip[r])], OutstandingSlips)
      BY DEF SumsMatch, UsedOf, Owing, OutstandingOf, OutstandingSlips
    <2>2. \A r \in Slips :
            /\ slip[r].settled <= slip[r].amount
            /\ slip[r].status = "settled" <=> slip[r].settled = slip[r].amount
                                              /\ slip[r].status # "none"
      BY DEF IInv, SlipsSound, Sound
    <2> QED
      BY <2>1, <2>2 DEF UsedIsOutstanding
  <1> QED
    BY <1>1, SumsCorrect, PTL

\* settle: every cent that counts as settled stands in a row of
\* biz_receivable_payment, and nothing was settled on what is cancelled.
THEOREM CreditSettledHasRows == Spec => []SettledHasRows
  <1>1. IInv /\ SumsMatch => SettledHasRows
    BY DEF IInv, SlipsSound, Sound, SumsMatch, RowsAddUp, All, SettledHasRows
  <1> QED
    BY <1>1, SumsCorrect, PTL

-----------------------------------------------------------------------------
(* Commission.  A settlement that was read is alive while all it read is    *)
(* still accrued: what is settled or reversed never comes back, so a dead   *)
(* one stays dead and its commit is refused.  Of two alive ones of a month  *)
(* the later read what the earlier did, so they overlap and the commit of   *)
(* one kills the other.                                                     *)

Alive(m) == asked[m] # NotAsked /\ asked[m].ids \subseteq Accrued

ReadStands(m) ==
    /\ asked[m].ids # {} /\ asked[m].ids \subseteq OfMonth(asked[m].period)
    /\ asked[m].amount = Total(asked[m].ids)
    /\ asked[m].batch > NoBatch

ReadsStand == \A m \in Managers : asked[m] # NotAsked => ReadStands(m)

AliveOverlap ==
    \A m, n \in Managers :
        Alive(m) /\ Alive(n) /\ asked[m].period = asked[n].period
            => asked[m].ids \cap asked[n].ids # {}

BatchesBelow ==
    \A m \in Managers : Alive(m) =>
        \A i \in OfMonth(asked[m].period) : record[i].batch < asked[m].batch

PaidHasRecords ==
    \A k \in DOMAIN payout : PaidOut(payout[k].period, payout[k].batch) # {}

RefundedIsCompleted == refunded \subseteq completed

ComInv ==
    /\ CommissionTypeOK
    /\ ReadsStand /\ AliveOverlap /\ BatchesBelow
    /\ PaidHasRecords /\ BatchesAddUp
    /\ RefundedIsCompleted /\ RefundedIsNotDue

\* The sum is the one SumsProofs is about.
LEMMA ComSum == \A f, S : SumOf(f, S) = SumOf(f, S)
  BY DEF SumOf, MapThenSumSet, MapThenFoldSet

LEMMA ComTypes ==
    ASSUME CommissionTypeOK
    PROVE  /\ record \in Seq(Records)
           /\ Ids = 1..Len(record) /\ Len(record) \in Nat
           /\ \A i \in Ids : record[i] \in Records
           /\ asked \in [Managers -> Settlements \cup {NotAsked}]
           /\ IsFiniteSet(Ids)
  <1>1. record \in Seq(Records)
    BY DEF CommissionTypeOK
  <1>2. Ids = 1..Len(record) /\ Len(record) \in Nat
    BY <1>1 DEF Ids
  <1>3. IsFiniteSet(Ids)
    BY <1>2, FS_Interval
  <1> QED
    BY <1>1, <1>2, <1>3 DEF CommissionTypeOK, Ids

\* The enumeration of a finite set has its elements.
LEMMA Enumerated ==
    ASSUME NEW S, IsFiniteSet(S)
    PROVE  SetToSeq(S) \in Seq(S)
  <1>1. Cardinality(S) \in Nat /\ ExistsBijection(1..Cardinality(S), S)
    BY FS_CardinalityType
  <1>2. PICK f \in [1..Cardinality(S) -> S] : \A a, b \in DOMAIN f : f[a] = f[b] => a = b
    BY <1>1 DEF ExistsBijection, Bijection, Injection, IsInjective
  <1>3. IsInjective(f)
    BY <1>2 DEF IsInjective
  <1>4. Cardinality(S) = Cardinality(S)
    BY DEF Cardinality
  <1>5. SetToSeq(S) \in [1..Cardinality(S) -> S]
    BY <1>2, <1>3, <1>4 DEF SetToSeq
  <1> QED
    BY <1>1, <1>5

\* A finite set of numbers that is not empty has a largest one.
LEMMA Largest ==
    ASSUME NEW S, IsFiniteSet(S), S \subseteq Nat, S # {}
    PROVE  /\ Max(S) \in S
           /\ \A x \in S : Max(S) >= x
  <1> DEFINE B == {T \in SUBSET S : T # {} /\ ~ \E x \in T : \A y \in T : x >= y}
  <1>1. B = {}
    <2>1. SUFFICES ASSUME B # {} PROVE FALSE
      OBVIOUS
    <2>2. PICK T \in B : \A U \in B : U \subseteq T => U = T
      <3>1. B \subseteq SUBSET S
        OBVIOUS
      <3> HIDE DEF B
      <3> QED  BY ONLY IsFiniteSet(S), <2>1, <3>1, SmallestSet
    <2>3. PICK t \in T : TRUE
      OBVIOUS
    <2>4. T \ {t} \notin B
      BY <2>2, <2>3
    <2>5. CASE T \ {t} = {}
      BY <2>2, <2>3, <2>5
    <2>6. CASE T \ {t} # {}
      <3>1. PICK x \in T \ {t} : \A y \in T \ {t} : x >= y
        BY <2>2, <2>4, <2>6
      <3>2. CASE x >= t
        BY <2>2, <3>1, <3>2
      <3>3. CASE ~(x >= t)
        <4>1. t \in Nat /\ \A y \in T : y \in Nat
          BY <2>2, <2>3
        <4>2. \A y \in T : t >= y
          BY <3>1, <3>3, <4>1
        <4> QED
          BY <2>2, <4>2
      <3> QED  BY <3>2, <3>3
    <2> QED  BY <2>5, <2>6
  <1>2. \E x \in S : \A y \in S : x >= y
    BY <1>1
  <1> QED
    BY <1>2 DEF Max

\* What every step leaves of the records: the number, whose they are and what
\* they amount to, and those that are settled or reversed altogether.
RecordsKeep ==
    \A i \in Ids :
        /\ i \in DOMAIN record'
        /\ record'[i].booking = record[i].booking
        /\ record'[i].period = record[i].period
        /\ record'[i].amount = record[i].amount
        /\ record[i].status # "accrued" => record'[i] = record[i]

\* No record is settled by the step, and new ones have no batch.
NothingSettled ==
    \A i \in DOMAIN record' :
        \/ i \in Ids /\ record'[i].batch = record[i].batch
                     /\ (record'[i].status = "settled" => record[i].status = "settled")
        \/ i \notin Ids /\ record'[i].status = "accrued" /\ record'[i].batch = NoBatch

LEMMA TotalKept ==
    ASSUME CommissionTypeOK, RecordsKeep
    PROVE  \A ids : ids \subseteq Ids => Total(ids)' = Total(ids)
  <1> SUFFICES ASSUME NEW ids, ids \subseteq Ids
               PROVE  Total(ids)' = Total(ids)
    OBVIOUS
  <1> DEFINE f == [i \in Ids |-> record[i].amount]
             g == [i \in DOMAIN record' |-> record'[i].amount]
  <1>1. Total(ids) = SumOf(f, ids) /\ Total(ids)' = SumOf(g, ids)
    BY ComSum DEF Total, Ids
  <1>2. \A i \in ids : f[i] = g[i]
    BY DEF RecordsKeep
  <1>3. IsFiniteSet(ids)
    BY ComTypes, FS_Subset
  <1> HIDE DEF f, g
  <1> QED
    BY <1>1, <1>2, <1>3, SumAgrees

\* Settlements that were read stay what they are, alive or dead, when no record
\* is settled and no other one is read.
LEMMA ReadsKept ==
    ASSUME ComInv, RecordsKeep, NEW m \in Managers, asked'[m] = asked[m],
           asked[m] # NotAsked
    PROVE  (Alive(m)' => Alive(m)) /\ ReadStands(m)'
  <1> DEFINE ids == asked[m].ids
  <1>1. /\ ids # {} /\ ids \subseteq OfMonth(asked[m].period)
        /\ asked[m].amount = Total(ids) /\ asked[m].batch > NoBatch
    BY DEF ComInv, ReadsStand, ReadStands
  <1>2. ids \subseteq Ids
    BY <1>1 DEF OfMonth
  <1>3. \A x : x = ids => Total(x)' = Total(x)
    BY <1>2, TotalKept DEF ComInv
  <1>4. (asked[m].amount = Total(asked[m].ids))'
    BY <1>1, <1>3
  <1>5. (asked[m].ids \subseteq OfMonth(asked[m].period))'
    BY <1>1, <1>2 DEF OfMonth, RecordsKeep, Ids
  <1>6. Alive(m)' => Alive(m)
    BY <1>2 DEF Alive, Accrued, RecordsKeep, Ids
  <1> QED
    BY <1>1, <1>4, <1>5, <1>6 DEF ReadStands

LEMMA CallsKept ==
    ASSUME ComInv, RecordsKeep, NothingSettled,
           \A m \in Managers : asked'[m] \in {asked[m], NotAsked}
    PROVE  ReadsStand' /\ AliveOverlap' /\ BatchesBelow'
  <1>1. ReadsStand'
    BY ReadsKept DEF ReadsStand
  <1>2. \A m \in Managers : Alive(m)' => Alive(m) /\ asked'[m] = asked[m]
    BY ReadsKept DEF Alive
  <1>3. AliveOverlap'
    BY <1>2 DEF ComInv, AliveOverlap
  <1>4. BatchesBelow'
    <2> SUFFICES ASSUME NEW m \in Managers, Alive(m)',
                        NEW i \in DOMAIN record', record'[i].period = asked'[m].period
                 PROVE  record'[i].batch < asked'[m].batch
      BY DEF BatchesBelow, OfMonth, Ids
    <2>1. Alive(m) /\ asked'[m] = asked[m] /\ asked[m].batch > NoBatch
      BY <1>2 DEF ComInv, ReadsStand, ReadStands, Alive
    <2>2. i \in DOMAIN record' /\ record'[i].period = asked[m].period
      BY <2>1
    <2>3. CASE i \in Ids
      BY <2>1, <2>2, <2>3 DEF ComInv, BatchesBelow, OfMonth, RecordsKeep,
         NothingSettled
    <2>4. CASE i \notin Ids
      BY <2>1, <2>2, <2>4 DEF NothingSettled, NoBatch
    <2> QED  BY <2>3, <2>4
  <1> QED
    BY <1>1, <1>3, <1>4

LEMMA PayoutKept ==
    ASSUME ComInv, RecordsKeep, NothingSettled, payout' = payout
    PROVE  PaidHasRecords' /\ BatchesAddUp'
  <1>1. \A p, b : PaidOut(p, b)' = PaidOut(p, b)
    BY DEF PaidOut, OfMonth, Ids, RecordsKeep, NothingSettled
  <1>2. \A p, b : PaidOut(p, b) \subseteq Ids
    BY DEF PaidOut, OfMonth
  <1>3. \A p, b : Total(PaidOut(p, b))' = Total(PaidOut(p, b))
    BY <1>1, <1>2, TotalKept DEF ComInv
  <1> QED
    BY <1>1, <1>3 DEF ComInv, PaidHasRecords, BatchesAddUp

\* The records a completion adds.
LEMMA CompleteRecords ==
    ASSUME ComInv, NEW b \in Bookings, Complete(b)
    PROVE  /\ record' \in Seq(Records)
           /\ RecordsKeep /\ NothingSettled
           /\ \A i \in DOMAIN record' : i \in Ids \/ record'[i].booking = b
           /\ \A i \in Ids : record'[i] = record[i]
  <1>1. PICK share \in [Positions -> Shares] :
          record' = record \o SetToSeq(Accruals(b, share))
    BY DEF Complete
  <1> DEFINE A == Accruals(b, share)
             Acc(n) == [booking |-> b, item |-> n, amount |-> share[n], period |-> month,
                        status |-> "accrued", batch |-> NoBatch]
             missing == {n \in Positions :
                           /\ share[n] > 0
                           /\ \A i \in Ids :
                                <<record[i].booking, record[i].item>> = <<b, n>>
                                  => record[i].status = "reversed"}
  <1>2. A = {Acc(n) : n \in missing}
    BY DEF Accruals
  <1>3. \A n \in missing : /\ Acc(n) \in Records /\ Acc(n).booking = b
                           /\ Acc(n).status = "accrued" /\ Acc(n).batch = NoBatch
    <2>1. month \in Months /\ Shares \subseteq Nat /\ NoBatch \in Nat
      BY CommissionAssumption DEF ComInv, CommissionTypeOK, NoBatch
    <2>2. \A n \in missing : n \in Positions /\ share[n] \in Nat
      BY <2>1
    <2> HIDE DEF missing
    <2> QED
      BY <2>1, <2>2 DEF Records
  <1>4. IsFiniteSet(A)
    <2>1. IsFiniteSet(missing)
      BY FS_Subset, CommissionAssumption DEF IsFiniteSet
    <2> HIDE DEF missing, A
    <2>2. [n \in missing |-> Acc(n)] \in Surjection(missing, A)
      BY <1>2 DEF Surjection
    <2> QED
      BY <2>1, <2>2, FS_Surjection
  <1>5. A \subseteq {x \in Records : /\ x.booking = b /\ x.status = "accrued"
                                     /\ x.batch = NoBatch}
    <2> HIDE DEF missing, A, Acc
    <2> QED
      BY <1>2, <1>3
  <1> DEFINE s == SetToSeq(A)
  <1>6. s \in Seq(A) /\ record' = record \o s
    BY <1>1, <1>4, Enumerated
  <1> HIDE DEF A, s, Acc, missing
  <1>7. record \in Seq(Records) /\ Ids = 1..Len(record) /\ Len(record) \in Nat
    BY ComTypes DEF ComInv
  <1>8. s \in Seq(Records) /\ \A k \in 1..Len(s) : s[k] \in A
    BY <1>5, <1>6
  <1>9. record' \in Seq(Records) /\ DOMAIN record' = 1..(Len(record) + Len(s))
    BY <1>6, <1>7, <1>8
  <1>10. /\ \A i \in Ids : i \in DOMAIN record' /\ record'[i] = record[i]
        /\ \A i \in DOMAIN record' : i \notin Ids => record'[i] \in A
    <2>1. \A i \in 1..(Len(record) + Len(s)) :
             record'[i] = IF i <= Len(record) THEN record[i] ELSE s[i - Len(record)]
      BY <1>6, <1>7, <1>8
    <2>2. ASSUME NEW i \in DOMAIN record', i \notin Ids
          PROVE  i - Len(record) \in 1..Len(s) /\ ~(i <= Len(record))
      BY <1>7, <1>8, <1>9, <2>2
    <2>3. \A i \in Ids : i \in DOMAIN record' /\ i <= Len(record)
      BY <1>7, <1>8, <1>9
    <2> QED
      BY <1>8, <1>9, <2>1, <2>2, <2>3
  <1> QED
    BY <1>5, <1>9, <1>10 DEF RecordsKeep, NothingSettled

\* The records a reversal marks.
LEMMA ReversedRecords ==
    ASSUME ComInv, NEW S, S \subseteq Accrued, record' = Reversed(S)
    PROVE  /\ record' \in Seq(Records)
           /\ RecordsKeep /\ NothingSettled
           /\ DOMAIN record' = Ids
           /\ \A i \in Ids : record'[i].status = "accrued"
                                    => i \in Accrued \ S /\ record'[i] = record[i]
  <1>1. /\ record \in Seq(Records) /\ Ids = 1..Len(record) /\ Len(record) \in Nat
        /\ \A i \in Ids : record[i] \in Records
    BY ComTypes DEF ComInv
  <1>2. /\ DOMAIN record' = Ids
        /\ \A i \in Ids :
              record'[i] = IF i \in S THEN [record[i] EXCEPT !.status = "reversed"]
                           ELSE record[i]
    BY DEF Reversed
  <1>3. \A i \in Ids :
          /\ [record[i] EXCEPT !.status = "reversed"] \in Records
          /\ [record[i] EXCEPT !.status = "reversed"].status = "reversed"
          /\ [record[i] EXCEPT !.status = "reversed"].booking = record[i].booking
          /\ [record[i] EXCEPT !.status = "reversed"].period = record[i].period
          /\ [record[i] EXCEPT !.status = "reversed"].amount = record[i].amount
          /\ [record[i] EXCEPT !.status = "reversed"].batch = record[i].batch
    BY <1>1 DEF Records
  <1>4. record' \in Seq(Records)
    <2>1. record' \in [1..Len(record) -> Records]
      BY <1>1, <1>2, <1>3 DEF Reversed
    <2> QED  BY <1>1, <2>1
  <1>5. RecordsKeep
    BY <1>2, <1>3 DEF RecordsKeep, Accrued
  <1>6. NothingSettled
    BY <1>2, <1>3 DEF NothingSettled
  <1>7. \A i \in Ids : record'[i].status = "accrued"
                              => i \in Accrued \ S /\ record'[i] = record[i]
    BY <1>2, <1>3 DEF Accrued
  <1> QED
    BY <1>2, <1>4, <1>5, <1>6, <1>7

\* The batch a settlement reads is above all of its month.
LEMMA NextBatchAbove ==
    ASSUME ComInv, NEW p
    PROVE  /\ NextBatch(p) \in Nat /\ NextBatch(p) > NoBatch
           /\ \A i \in OfMonth(p) : record[i].batch < NextBatch(p)
  <1> DEFINE rows_ == OfMonth(p)
             S == {record[i].batch : i \in rows_} \cup {NoBatch}
  <1>1. /\ rows_ \subseteq Ids /\ IsFiniteSet(Ids)
        /\ \A i \in Ids : record[i].batch \in Nat
    BY ComTypes DEF ComInv, OfMonth, Records
  <1>2. IsFiniteSet(rows_)
    BY <1>1, FS_Subset
  <1>3. S \subseteq Nat /\ NoBatch \in S /\ \A i \in rows_ : record[i].batch \in S
    BY <1>1 DEF NoBatch
  <1>4. IsFiniteSet(S)
    <2> DEFINE T == {record[i].batch : i \in rows_}
    <2> HIDE DEF rows_
    <2>1. [i \in rows_ |-> record[i].batch] \in Surjection(rows_, T)
      BY DEF Surjection
    <2> HIDE DEF T
    <2>2. IsFiniteSet(T)
      BY <1>2, <2>1, FS_Surjection
    <2>3. IsFiniteSet(T \cup {NoBatch})
      BY <2>2, FS_AddElement
    <2> QED
      BY <2>3 DEF T
  <1>5. NextBatch(p) = Max(S) + 1
    BY DEF NextBatch
  <1> HIDE DEF S, rows_
  <1>6. Max(S) \in S /\ \A x \in S : Max(S) >= x
    BY <1>3, <1>4, Largest
  <1>7. /\ NextBatch(p) \in Nat /\ NextBatch(p) > NoBatch
        /\ \A i \in rows_ : record[i].batch < NextBatch(p)
    <2> DEFINE top == Max(S)
    <2>1. top \in Nat /\ NextBatch(p) = top + 1
      BY <1>3, <1>5, <1>6
    <2>2. \A i \in rows_ : record[i].batch \in Nat /\ top >= record[i].batch
      BY <1>3, <1>6
    <2> HIDE DEF top
    <2> QED
      BY <2>1, <2>2 DEF NoBatch
  <1> QED
    BY <1>7 DEF rows_

LEMMA ReadStep ==
    ASSUME ComInv, NEW m \in Managers, NEW p \in Months, BatchRead(m, p)
    PROVE  /\ ReadsStand' /\ AliveOverlap' /\ BatchesBelow'
           /\ asked' \in [Managers -> Settlements \cup {NotAsked}]
  <1> DEFINE ids == Accrued \cap OfMonth(p)
             e == [op |-> "settle", period |-> p, ids |-> ids,
                   batch |-> NextBatch(p), amount |-> Total(ids)]
  <1>1. /\ asked[m] = NotAsked /\ ids # {}
        /\ asked' = [asked EXCEPT ![m] = e]
        /\ record' = record
    BY DEF BatchRead
  <1>2. /\ asked \in [Managers -> Settlements \cup {NotAsked}]
        /\ ids \subseteq Ids /\ IsFiniteSet(ids) /\ ids \subseteq Nat
        /\ \A i \in Ids : record[i].amount \in Nat
    BY ComTypes, FS_Subset DEF ComInv, Accrued, Records
  <1>3. Total(ids) \in Nat
    <2> DEFINE f == [i \in Ids |-> record[i].amount]
    <2>1. Total(ids) = SumOf(f, ids)
      BY ComSum DEF Total
    <2>2. \A i \in ids : f[i] \in Nat
      BY <1>2
    <2> HIDE DEF f, ids
    <2> QED
      BY <1>2, <2>1, <2>2, SumIsNat
  <1>4. e \in Settlements /\ e # NotAsked
    <2>1. NextBatch(p) \in Nat
      BY NextBatchAbove
    <2> HIDE DEF ids
    <2>2. e \in Settlements
      BY <1>2, <1>3, <2>1 DEF Settlements
    <2>3. e.op = "settle" /\ NotAsked.op = "idle"
      BY DEF NotAsked
    <2> QED
      BY <2>2, <2>3
  <1>5. /\ asked'[m] = e /\ \A n \in Managers \ {m} : asked'[n] = asked[n]
        /\ asked' \in [Managers -> Settlements \cup {NotAsked}]
    BY <1>1, <1>2, <1>4
  <1>6. /\ e.ids = ids /\ e.period = p
        /\ e.batch = NextBatch(p) /\ e.amount = Total(ids)
    OBVIOUS
  <1>7. /\ Accrued' = Accrued
        /\ \A q : OfMonth(q)' = OfMonth(q)
        /\ \A x : Total(x)' = Total(x)
    BY <1>1 DEF Accrued, OfMonth, Total, Ids
  <1> HIDE DEF e
  <1>8. ReadsStand'
    <2>1. ReadStands(m)'
      BY <1>1, <1>5, <1>6, <1>7, NextBatchAbove DEF ReadStands
    <2>2. \A n \in Managers \ {m} : asked[n] # NotAsked => ReadStands(n)'
      BY <1>5, <1>7 DEF ComInv, ReadsStand, ReadStands
    <2> QED
      BY <1>5, <2>1, <2>2 DEF ReadsStand
  <1>9. \A n \in Managers \ {m} : Alive(n)' <=> Alive(n)
    BY <1>5, <1>7 DEF Alive
  <1>10. \A n \in Managers : Alive(n) /\ asked[n].period = p
            => asked[n].ids # {} /\ asked[n].ids \subseteq ids
    BY DEF ComInv, ReadsStand, ReadStands, Alive
  <1> HIDE DEF ids
  <1>11. AliveOverlap'
    <2> SUFFICES ASSUME NEW k \in Managers, NEW n \in Managers, Alive(k)', Alive(n)',
                        asked'[k].period = asked'[n].period
                 PROVE  asked'[k].ids \cap asked'[n].ids # {}
      BY DEF AliveOverlap
    <2>1. CASE k # m /\ n # m
      BY <1>5, <1>9, <2>1 DEF ComInv, AliveOverlap
    <2>2. CASE k = m /\ n = m
      BY <1>1, <1>5, <1>6, <2>2
    <2>3. CASE k = m /\ n # m
      BY <1>5, <1>6, <1>9, <1>10, <2>3
    <2>4. CASE k # m /\ n = m
      BY <1>5, <1>6, <1>9, <1>10, <2>4
    <2> QED  BY <2>1, <2>2, <2>3, <2>4
  <1>12. BatchesBelow'
    <2> SUFFICES ASSUME NEW n \in Managers, Alive(n)',
                        NEW i, i \in OfMonth(asked[n].period)'
                 PROVE  record'[i].batch < asked'[n].batch
      BY DEF BatchesBelow
    <2>1. i \in OfMonth(asked'[n].period)
      BY <1>7
    <2>2. CASE n = m
      BY <1>1, <1>5, <1>6, <2>1, <2>2, NextBatchAbove
    <2>3. CASE n # m
      BY <1>1, <1>5, <1>9, <2>1, <2>3 DEF ComInv, BatchesBelow
    <2> QED  BY <2>2, <2>3
  <1> QED
    BY <1>5, <1>8, <1>11, <1>12

\* A commit that is not refused: what it read becomes its batch.
LEMMA CommitStep ==
    ASSUME ComInv, NEW m \in Managers, BatchCommit(m)
    PROVE  /\ record' \in Seq(Records) /\ DOMAIN record' = Ids
           /\ \A i \in Ids : record'[i].status = "accrued" => record'[i] = record[i]
           /\ asked' \in [Managers -> Settlements \cup {NotAsked}]
           /\ payout' \in Seq([period : Months, batch : Nat, amount : Nat])
           /\ ReadsStand' /\ AliveOverlap' /\ BatchesBelow'
           /\ PaidHasRecords' /\ BatchesAddUp'
  <1>0. PICK ids, p, b, n_, e :
          /\ ids = asked[m].ids /\ p = asked[m].period /\ b = asked[m].batch
          /\ n_ = asked[m].amount /\ e = [period |-> p, batch |-> b, amount |-> n_]
    OBVIOUS
  <1>1. /\ asked[m] # NotAsked /\ ids \subseteq Accrued
        /\ record' = [i \in Ids |-> IF i \in ids \cap Accrued
                         THEN [record[i] EXCEPT !.status = "settled", !.batch = b]
                         ELSE record[i]]
        /\ payout' = Append(payout, e)
        /\ asked' = [asked EXCEPT ![m] = NotAsked]
    BY <1>0 DEF BatchCommit, UnchangedSince
  <1>2. /\ record \in Seq(Records) /\ Ids = 1..Len(record) /\ Len(record) \in Nat
        /\ \A i \in Ids : record[i] \in Records
        /\ asked \in [Managers -> Settlements \cup {NotAsked}]
        /\ payout \in Seq([period : Months, batch : Nat, amount : Nat])
    BY ComTypes DEF ComInv, CommissionTypeOK
  <1>3. /\ Alive(m) /\ ids # {} /\ ids \subseteq OfMonth(p) /\ ids \subseteq Ids
        /\ n_ = Total(ids) /\ b > NoBatch
        /\ \A i \in OfMonth(p) : record[i].batch < b
    BY <1>0, <1>1 DEF ComInv, ReadsStand, ReadStands, BatchesBelow, Alive,
       OfMonth
  <1>4. asked[m] \in Settlements
    BY <1>1, <1>2
  <1>5. p \in Months /\ b \in Nat /\ n_ \in Nat
    BY <1>0, <1>4 DEF Settlements
  <1>6. \A r \in Records :
          /\ [r EXCEPT !.status = "settled", !.batch = b] \in Records
          /\ [r EXCEPT !.status = "settled", !.batch = b].status = "settled"
          /\ [r EXCEPT !.status = "settled", !.batch = b].batch = b
          /\ [r EXCEPT !.status = "settled", !.batch = b].booking = r.booking
          /\ [r EXCEPT !.status = "settled", !.batch = b].period = r.period
          /\ [r EXCEPT !.status = "settled", !.batch = b].amount = r.amount
    BY <1>5 DEF Records
  <1>6a. /\ DOMAIN record' = Ids
         /\ \A i \in Ids \ ids : record'[i] = record[i]
    BY <1>1, <1>3
  <1>7. \A i \in ids : /\ i \in Ids /\ record'[i] \in Records
                       /\ record'[i].status = "settled" /\ record'[i].batch = b
                       /\ record'[i].booking = record[i].booking
                       /\ record'[i].period = record[i].period
                       /\ record'[i].amount = record[i].amount
    <2> SUFFICES ASSUME NEW i \in ids
                 PROVE  /\ i \in Ids /\ record'[i] \in Records
                        /\ record'[i].status = "settled" /\ record'[i].batch = b
                        /\ record'[i].booking = record[i].booking
                        /\ record'[i].period = record[i].period
                        /\ record'[i].amount = record[i].amount
      OBVIOUS
    <2>1. i \in Ids /\ i \in Accrued /\ record[i] \in Records
      BY <1>1, <1>2, <1>3
    <2>2. record'[i] = [record[i] EXCEPT !.status = "settled", !.batch = b]
      BY <1>1, <2>1
    <2> QED
      BY <1>6, <2>1, <2>2
  <1>7a. \A i \in ids : /\ record[i].status = "accrued" /\ record[i].period = p
                        /\ record'[i].period = p
    BY <1>1, <1>3, <1>7 DEF OfMonth, Accrued
  <1>7b. \A i \in Ids : record[i].period = p => record[i].batch # b
    <2>1. \A i \in Ids : record[i].batch \in Nat
      BY <1>2 DEF Records
    <2>2. \A i \in Ids : record[i].period = p => record[i].batch < b
      BY <1>3 DEF OfMonth
    <2> QED  BY <1>5, <2>1, <2>2
  <1>8. record' \in Seq(Records)
    <2>1. \A i \in Ids : record'[i] \in Records
      BY <1>2, <1>6a, <1>7
    <2>2. record' \in [1..Len(record) -> Records]
      BY <1>1, <1>2, <2>1
    <2> QED  BY <1>2, <2>2
  <1>9. /\ RecordsKeep
        /\ \A i \in Ids : record'[i].status = "accrued" => record'[i] = record[i]
    BY <1>6a, <1>7, <1>7a DEF RecordsKeep
  <1>10. /\ asked'[m] = NotAsked /\ \A n \in Managers \ {m} : asked'[n] = asked[n]
         /\ asked' \in [Managers -> Settlements \cup {NotAsked}]
    BY <1>1, <1>2
  <1>11. ReadsStand'
    BY <1>9, <1>10, ReadsKept DEF ReadsStand
  <1>12. \A n \in Managers : Alive(n)' => /\ Alive(n) /\ asked'[n] = asked[n]
                                           /\ asked[n].period # p
    <2> SUFFICES ASSUME NEW n \in Managers, Alive(n)'
                 PROVE  Alive(n) /\ asked'[n] = asked[n] /\ asked[n].period # p
      OBVIOUS
    <2>1. n # m /\ asked'[n] = asked[n] /\ asked[n] # NotAsked
      BY <1>10 DEF Alive
    <2>2. Alive(n)
      BY <1>9, <2>1, ReadsKept
    <2>3. CASE asked[n].period = p
      <3>1. PICK i \in ids : i \in asked[n].ids
        BY <1>0, <1>3, <2>2, <2>3 DEF ComInv, AliveOverlap
      <3>2. record'[i].status = "settled"
        BY <1>7
      <3>3. record'[i].status = "accrued"
        BY <2>1, <3>1 DEF Alive, Accrued
      <3> QED  BY <3>2, <3>3
    <2> QED  BY <2>1, <2>2, <2>3
  <1>13. AliveOverlap'
    BY <1>12 DEF ComInv, AliveOverlap
  <1>14. BatchesBelow'
    <2> SUFFICES ASSUME NEW n \in Managers, Alive(n)',
                        NEW i \in DOMAIN record', record'[i].period = asked'[n].period
                 PROVE  record'[i].batch < asked'[n].batch
      BY DEF BatchesBelow, OfMonth, Ids
    <2>1. Alive(n) /\ asked'[n] = asked[n] /\ asked[n].period # p
      BY <1>12
    <2>2. i \in Ids \ ids
      BY <1>6a, <1>7a, <2>1
    <2> QED
      BY <1>6a, <2>1, <2>2 DEF ComInv, BatchesBelow, OfMonth
  <1>15. PaidOut(p, b)' = ids
    <2>1. \A i \in ids : i \in DOMAIN record' /\ record'[i].period = p
                           /\ record'[i].status = "settled" /\ record'[i].batch = b
      BY <1>6a, <1>7, <1>7a
    <2>2. ASSUME NEW i \in Ids \ ids, record'[i].period = p, record'[i].batch = b
          PROVE  FALSE
      BY <1>6a, <1>7b, <2>2
    <2>3. \A i : i \in PaidOut(p, b)' <=> /\ i \in DOMAIN record' /\ record'[i].period = p
                                          /\ record'[i].status = "settled"
                                          /\ record'[i].batch = b
      BY DEF PaidOut, OfMonth, Ids
    <2> QED
      BY <1>6a, <1>7, <2>1, <2>2, <2>3
  <1>16. Total(ids)' = n_
    BY <1>3, <1>9, TotalKept DEF ComInv
  <1>17. ASSUME NEW k \in DOMAIN payout, NEW x, NEW y,
                x = payout[k].period, y = payout[k].batch
         PROVE  /\ <<x, y>> # <<p, b>>
                /\ PaidOut(x, y)' = PaidOut(x, y)
                /\ PaidOut(x, y) # {}
                /\ payout[k].amount = Total(PaidOut(x, y))'
    <2>1. /\ PaidOut(x, y) # {}
          /\ payout[k].amount = Total(PaidOut(x, y))
      <3>1. k \in 1..Len(payout)
        BY <1>2
      <3> QED  BY <1>17, <3>1 DEF ComInv, PaidHasRecords, BatchesAddUp
    <2>2. <<x, y>> # <<p, b>>
      <3>1. PICK i \in OfMonth(x) : record[i].batch = y
        BY <2>1 DEF PaidOut
      <3>2. record[i].batch \in Nat
        BY <1>2, <3>1 DEF OfMonth, Records
      <3> QED  BY <1>3, <1>5, <3>1, <3>2
    <2>3. \A i : i \in PaidOut(x, y)' <=> /\ i \in Ids /\ record'[i].period = x
                                          /\ record'[i].status = "settled"
                                          /\ record'[i].batch = y
      BY <1>6a DEF PaidOut, OfMonth, Ids
    <2>4. \A i : i \in PaidOut(x, y) <=> /\ i \in Ids /\ record[i].period = x
                                         /\ record[i].status = "settled"
                                         /\ record[i].batch = y
      BY DEF PaidOut, OfMonth
    <2>5. \A i \in ids : /\ record'[i].batch = b /\ record'[i].period = p
                         /\ record[i].status = "accrued"
      BY <1>7, <1>7a
    <2>6. PaidOut(x, y)' = PaidOut(x, y)
      <3>1. \A i \in ids : i \notin PaidOut(x, y)' /\ i \notin PaidOut(x, y)
        BY <2>2, <2>3, <2>4, <2>5
      <3>2. \A i \in Ids \ ids : i \in PaidOut(x, y)' <=> i \in PaidOut(x, y)
        BY <1>6a, <2>3, <2>4
      <3> QED  BY <2>3, <2>4, <3>1, <3>2
    <2>7. \A z : z \subseteq Ids => Total(z)' = Total(z)
      BY <1>9, TotalKept DEF ComInv
    <2>8. PaidOut(x, y) \subseteq Ids
      BY <2>4
    <2>9. \A z : z = PaidOut(x, y) => Total(z)' = payout[k].amount
      BY <2>1, <2>7, <2>8
    <2> QED
      BY <2>1, <2>2, <2>6, <2>9
  <1>18. /\ payout' \in Seq([period : Months, batch : Nat, amount : Nat])
         /\ DOMAIN payout' = 1..(Len(payout) + 1) /\ Len(payout') = Len(payout) + 1
         /\ DOMAIN payout = 1..Len(payout) /\ Len(payout) \in Nat
         /\ \A k \in 1..Len(payout) : payout'[k] = payout[k]
         /\ payout'[Len(payout) + 1] = e
    <2>1. e \in [period : Months, batch : Nat, amount : Nat]
      BY <1>0, <1>5
    <2> DEFINE E == [period : Months, batch : Nat, amount : Nat]
    <2>2. e \in E /\ payout \in Seq(E) /\ payout' = Append(payout, e)
      BY <1>1, <1>2, <2>1
    <2> HIDE DEF E
    <2>3. /\ payout' \in Seq(E)
          /\ DOMAIN payout' = 1..(Len(payout) + 1) /\ Len(payout') = Len(payout) + 1
          /\ DOMAIN payout = 1..Len(payout) /\ Len(payout) \in Nat
          /\ \A k \in 1..Len(payout) : payout'[k] = payout[k]
          /\ payout'[Len(payout) + 1] = e
      BY <2>2
    <2> QED  BY <2>3 DEF E
  <1>19. e.period = p /\ e.batch = b /\ e.amount = n_
    BY <1>0
  <1>20. \A k \in DOMAIN payout' : k \in DOMAIN payout \/ payout'[k] = e
    BY <1>18
  <1>21. ASSUME NEW k \in DOMAIN payout', NEW x, NEW y,
                x = payout'[k].period, y = payout'[k].batch
         PROVE  PaidOut(x, y)' # {} /\ payout'[k].amount = Total(PaidOut(x, y))'
    <2>1. CASE k \in DOMAIN payout
      <3>1. payout'[k] = payout[k]
        BY <1>18, <2>1
      <3>2. /\ PaidOut(x, y)' = PaidOut(x, y) /\ PaidOut(x, y) # {}
            /\ payout[k].amount = Total(PaidOut(x, y))'
        BY <1>17, <1>21, <2>1, <3>1
      <3> QED  BY <3>1, <3>2
    <2>2. CASE payout'[k] = e
      <3>1. PaidOut(x, y)' = ids
        BY <1>15, <1>19, <1>21, <2>2
      <3>2. \A z : z = ids => Total(z)' = e.amount
        BY <1>16, <1>19
      <3> QED  BY <1>3, <2>2, <3>1, <3>2
    <2> QED  BY <1>20, <2>1, <2>2
  <1>22. ASSUME NEW k \in DOMAIN payout', NEW j \in DOMAIN payout', j # k
         PROVE  <<payout'[j].period, payout'[j].batch>>
                   # <<payout'[k].period, payout'[k].batch>>
    <2>1. \A i \in DOMAIN payout : <<payout[i].period, payout[i].batch>> # <<p, b>>
      BY <1>17
    <2>2. CASE j \in DOMAIN payout /\ k \in DOMAIN payout
      BY <1>18, <1>22, <2>2 DEF ComInv, BatchesAddUp
    <2>3. CASE ~(j \in DOMAIN payout /\ k \in DOMAIN payout)
      <3>1. \/ j \in DOMAIN payout /\ k = Len(payout) + 1
            \/ k \in DOMAIN payout /\ j = Len(payout) + 1
        BY <1>18, <1>22, <2>3
      <3> QED  BY <1>18, <1>19, <2>1, <3>1
    <2> QED  BY <2>2, <2>3
  <1>23. PaidHasRecords'
    BY <1>21 DEF PaidHasRecords
  <1>24. BatchesAddUp'
    <2>1. \A k \in 1..Len(payout') :
             payout'[k].amount = Total(PaidOut(payout[k].period, payout[k].batch))'
      <3> SUFFICES ASSUME NEW k \in 1..Len(payout')
                   PROVE  payout'[k].amount
                            = Total(PaidOut(payout[k].period, payout[k].batch))'
        OBVIOUS
      <3>1. \A x, y : x = payout'[k].period /\ y = payout'[k].batch
                => payout'[k].amount = Total(PaidOut(x, y))'
        BY <1>18, <1>21
      <3> QED  BY <3>1
    <2>2. \A k, n \in 1..Len(payout') : n # k =>
             <<payout'[n].period, payout'[n].batch>>
                # <<payout'[k].period, payout'[k].batch>>
      BY <1>18, <1>22
    <2> QED  BY <2>1, <2>2 DEF BatchesAddUp
  <1> QED
    BY <1>6a, <1>8, <1>9, <1>10, <1>11, <1>13, <1>14, <1>18, <1>23, <1>24

LEMMA ComInit ==
    ASSUME CommissionInit
    PROVE  ComInv
  <1>1. /\ completed = {} /\ record = <<>> /\ month = 1 /\ payout = <<>>
        /\ asked = [m \in Managers |-> NotAsked] /\ refunded = {} /\ refunds = 0
    BY DEF CommissionInit
  <1>2. Ids = {} /\ Accrued = {} /\ DOMAIN payout = {} /\ Len(payout) = 0
    BY <1>1 DEF Ids, Accrued
  <1>3. CommissionTypeOK
    <2>1. record \in Seq(Records) /\ Len(record) = 0
          /\ payout \in Seq([period : Months, batch : Nat, amount : Nat])
      BY <1>1
    <2>2. month \in Months /\ refunds \in 0..MaxRefunds
      BY <1>1, CommissionAssumption DEF Months
    <2>3. asked \in [Managers -> Settlements \cup {NotAsked}]
      BY <1>1
    <2> QED  BY <1>1, <2>1, <2>2, <2>3 DEF CommissionTypeOK
  <1>4. ReadsStand /\ AliveOverlap /\ BatchesBelow
    BY <1>1 DEF ReadsStand, AliveOverlap, BatchesBelow, Alive
  <1>5. PaidHasRecords /\ BatchesAddUp
    BY <1>2 DEF PaidHasRecords, BatchesAddUp
  <1>6. RefundedIsCompleted /\ RefundedIsNotDue
    BY <1>1, <1>2 DEF RefundedIsCompleted, RefundedIsNotDue
  <1> QED
    BY <1>3, <1>4, <1>5, <1>6 DEF ComInv

LEMMA ComStep ==
    ASSUME ComInv, [CommissionNext]_commissionVars
    PROVE  ComInv'
  <1>1. ASSUME NEW b \in Bookings, Complete(b) PROVE ComInv'
    <2>1. /\ b \notin completed /\ completed' = completed \cup {b}
          /\ UNCHANGED <<month, asked, payout, refunded, refunds>>
      BY <1>1 DEF Complete
    <2>2. /\ record' \in Seq(Records)
          /\ RecordsKeep /\ NothingSettled
          /\ \A i \in DOMAIN record' : i \in Ids \/ record'[i].booking = b
          /\ \A i \in Ids : record'[i] = record[i]
      BY <1>1, CompleteRecords
    <2>3. ReadsStand' /\ AliveOverlap' /\ BatchesBelow'
      BY <2>1, <2>2, CallsKept
    <2>4. PaidHasRecords' /\ BatchesAddUp'
      BY <2>1, <2>2, PayoutKept
    <2>5. RefundedIsCompleted' /\ RefundedIsNotDue'
      BY <2>1, <2>2 DEF ComInv, RefundedIsCompleted, RefundedIsNotDue, Accrued,
         Ids
    <2>6. CommissionTypeOK'
      BY <2>1, <2>2 DEF ComInv, CommissionTypeOK
    <2> QED  BY <2>3, <2>4, <2>5, <2>6 DEF ComInv
  <1>2. ASSUME NEW S, S \subseteq Accrued, record' = Reversed(S),
               UNCHANGED <<completed, month, asked, payout>>,
               refunds' \in 0..MaxRefunds,
               \/ refunded' = refunded
               \/ \E b \in Bookings : /\ refunded' = refunded \cup ({b} \cap completed)
                                      /\ S = Reversible(b)
        PROVE  ComInv'
    <2>1. /\ record' \in Seq(Records)
          /\ RecordsKeep /\ NothingSettled
          /\ DOMAIN record' = Ids
          /\ \A i \in Ids : record'[i].status = "accrued"
                                   => i \in Accrued \ S /\ record'[i] = record[i]
      BY <1>2, ReversedRecords
    <2>2. ReadsStand' /\ AliveOverlap' /\ BatchesBelow'
      BY <1>2, <2>1, CallsKept
    <2>3. PaidHasRecords' /\ BatchesAddUp'
      BY <1>2, <2>1, PayoutKept
    <2>4. RefundedIsCompleted' /\ refunded' \subseteq Bookings
      BY <1>2 DEF ComInv, CommissionTypeOK, RefundedIsCompleted
    <2>5. RefundedIsNotDue'
      <3> SUFFICES ASSUME NEW i \in Ids, record'[i].status = "accrued"
                   PROVE  record'[i].booking \notin refunded'
        BY <2>1 DEF RefundedIsNotDue, Accrued, Ids
      <3>1. i \in Accrued \ S /\ record'[i] = record[i]
        BY <2>1
      <3>2. record[i].booking \notin refunded
        BY <3>1 DEF ComInv, RefundedIsNotDue
      <3> QED
        BY <1>2, <3>1, <3>2 DEF Reversible
    <2>6. CommissionTypeOK'
      BY <1>2, <2>1, <2>4 DEF ComInv, CommissionTypeOK
    <2> QED  BY <2>2, <2>3, <2>4, <2>5, <2>6 DEF ComInv
  <1>3. ASSUME NEW b \in Bookings, RefundLands(b) PROVE ComInv'
    <2>1. refunds' \in 0..MaxRefunds
      BY <1>3, CommissionAssumption DEF ComInv, CommissionTypeOK, RefundLands
    <2> QED
      BY <1>2, <1>3, <2>1 DEF RefundLands, Reversible
  <1>4. ASSUME NEW i \in Ids, ReverseRecord(i) PROVE ComInv'
    <2>1. refunds' \in 0..MaxRefunds
      BY <1>4 DEF ComInv, CommissionTypeOK, ReverseRecord
    <2> QED
      BY <1>2, <1>4, <2>1 DEF ReverseRecord
  <1>5. ASSUME NEW m \in Managers, NEW p \in Months, BatchRead(m, p) PROVE ComInv'
    <2>1. UNCHANGED <<completed, record, month, payout, refunded, refunds>>
      BY <1>5 DEF BatchRead
    <2>2. /\ ReadsStand' /\ AliveOverlap' /\ BatchesBelow'
          /\ asked' \in [Managers -> Settlements \cup {NotAsked}]
      BY <1>5, ReadStep
    <2>3. RecordsKeep /\ NothingSettled
      BY <2>1 DEF RecordsKeep, NothingSettled, Ids
    <2>4. PaidHasRecords' /\ BatchesAddUp'
      BY <2>1, <2>3, PayoutKept
    <2>5. RefundedIsCompleted' /\ RefundedIsNotDue' /\ CommissionTypeOK'
      BY <2>1, <2>2 DEF ComInv, RefundedIsCompleted, RefundedIsNotDue, Accrued,
         Ids, CommissionTypeOK
    <2> QED  BY <2>2, <2>4, <2>5 DEF ComInv
  <1>6. ASSUME NEW m \in Managers, BatchCommit(m) PROVE ComInv'
    <2>1. UNCHANGED <<completed, month, refunded, refunds>>
      BY <1>6 DEF BatchCommit
    <2>2. /\ record' \in Seq(Records) /\ DOMAIN record' = Ids
          /\ \A i \in Ids : record'[i].status = "accrued" => record'[i] = record[i]
          /\ asked' \in [Managers -> Settlements \cup {NotAsked}]
          /\ payout' \in Seq([period : Months, batch : Nat, amount : Nat])
          /\ ReadsStand' /\ AliveOverlap' /\ BatchesBelow'
          /\ PaidHasRecords' /\ BatchesAddUp'
      BY <1>6, CommitStep
    <2>3. RefundedIsCompleted' /\ RefundedIsNotDue' /\ CommissionTypeOK'
      BY <2>1, <2>2 DEF ComInv, RefundedIsCompleted, RefundedIsNotDue, Accrued,
         Ids, CommissionTypeOK
    <2> QED  BY <2>2, <2>3 DEF ComInv
  <1>7. ASSUME UNCHANGED <<completed, record, payout, refunded, refunds>>,
               month' \in Months,
               \A m \in Managers : asked'[m] \in {asked[m], NotAsked},
               asked' \in [Managers -> Settlements \cup {NotAsked}]
        PROVE  ComInv'
    <2>1. RecordsKeep /\ NothingSettled
      BY <1>7 DEF RecordsKeep, NothingSettled, Ids
    <2>2. ReadsStand' /\ AliveOverlap' /\ BatchesBelow'
      BY <1>7, <2>1, CallsKept
    <2>3. PaidHasRecords' /\ BatchesAddUp'
      BY <1>7, <2>1, PayoutKept
    <2>4. RefundedIsCompleted' /\ RefundedIsNotDue' /\ CommissionTypeOK'
      BY <1>7 DEF ComInv, RefundedIsCompleted, RefundedIsNotDue, Accrued, Ids,
         CommissionTypeOK
    <2> QED  BY <2>2, <2>3, <2>4 DEF ComInv
  <1>8. ASSUME NEW m \in Managers, SettleFails(m) PROVE ComInv'
    BY <1>7, <1>8 DEF SettleFails, ComInv, CommissionTypeOK
  <1>9. ASSUME NextMonth PROVE ComInv'
    <2>1. month' \in Months
      BY <1>9, CommissionAssumption DEF NextMonth, ComInv, CommissionTypeOK,
         Months
    <2> QED
      BY <1>7, <1>9, <2>1 DEF NextMonth, ComInv, CommissionTypeOK
  <1>10. ASSUME UNCHANGED commissionVars PROVE ComInv'
    BY <1>7, <1>10 DEF commissionVars, ComInv, CommissionTypeOK
  <1> QED
    BY <1>1, <1>3, <1>4, <1>5, <1>6, <1>8, <1>9, <1>10 DEF CommissionNext

LEMMA ComCorrect == CommissionSpec => []ComInv
  <1>1. CommissionInit => ComInv
    BY ComInit
  <1>2. ComInv /\ [CommissionNext]_commissionVars => ComInv'
    BY ComStep
  <1> QED
    BY <1>1, <1>2, PTL DEF CommissionSpec

\* The types of the commission's state, for any number of managers and months.
THEOREM CommissionTypeCorrect == CommissionSpec => []CommissionTypeOK
  <1>1. ComInv => CommissionTypeOK
    BY DEF ComInv
  <1> QED
    BY <1>1, ComCorrect, PTL

\* settle: no two settlements answer the same batch of a month, and each answers
\* the sum of the records it holds ever after, although settle reads its month
\* without a lock: the count of its UPDATE is enough.
THEOREM CommissionBatchesAddUp == CommissionSpec => []BatchesAddUp
  <1>1. ComInv => BatchesAddUp
    BY DEF ComInv
  <1> QED
    BY <1>1, ComCorrect, PTL

\* reverseForBooking and accrueForBooking: nothing of a booking refunded after
\* its completion is left to be paid out.
THEOREM CommissionRefundedIsNotDue == CommissionSpec => []RefundedIsNotDue
  <1>1. ComInv => RefundedIsNotDue
    BY DEF ComInv
  <1> QED
    BY <1>1, ComCorrect, PTL
=============================================================================
