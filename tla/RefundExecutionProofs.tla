----------------------- MODULE RefundExecutionProofs -----------------------
(***************************************************************************)
(* Theorems about the refund chain, for every set of payments, orders and  *)
(* requests, every amount and every choice of faults.                      *)
(*                                                                         *)
(* OneExecutor is not inductive: that a request past gate 1 is alone       *)
(* depends on which requests still hold a draft or wait for gate 1, and on *)
(* every request that is not idle naming a row.  ChainInv adds these.      *)
(***************************************************************************)
EXTENDS RefundExecution, SumsProofs

\* A request that is not idle works on an order.
BusyNamesOrder == \A c \in Callers : pc[c] # "idle" => cur[c] \in Refunds

\* Every order beyond "none" names a payment.
RowNamesPayment ==
    \A r \in Refunds : refund[r].status # "none" => refund[r].payment \in Payments

\* A draft belongs to the one request that prepares it.
DraftIsPrivate ==
    \A c, d \in Callers :
        /\ pc[c] = "applying" => refund[cur[c]].status = "draft"
        /\ (c # d /\ pc[c] = "applying" /\ pc[d] = "applying") => cur[c] # cur[d]

\* A request in front of gate 1 names a row of the table.
ApprovingNamesRow ==
    \A c \in Callers :
        pc[c] = "approving" => refund[cur[c]].status \notin {"none", "draft"}

\* A request that reserved its quota and has not undone it holds it.
HoldingRequest == {"channel", "releasing", "landing", "committing", "unreserving"}
HolderHolds ==
    \A c \in Callers : pc[c] \in HoldingRequest => cur[c] \in held

ChainInv ==
    /\ TypeOK
    /\ BusyNamesOrder
    /\ RowNamesPayment
    /\ DraftIsPrivate
    /\ ApprovingNamesRow
    /\ OneExecutor
    /\ HolderHolds
    /\ LandsOnce

----------------------------------------------------------------------------

\* Writing a status leaves the rows well formed.
LEMMA StatusTyped ==
    ASSUME NEW r \in Refunds, NEW s \in RefundStatus,
           refund \in [Refunds -> RefundRow], SetStatus(r, s)
    PROVE  refund' \in [Refunds -> RefundRow]
  BY DEF SetStatus, RefundRow

LEMMA PaymentStatusTyped ==
    ASSUME NEW p \in Payments, NEW s \in PaymentStatus,
           payment \in [Payments -> PaymentRow]
    PROVE  [payment EXCEPT ![p].status = s] \in [Payments -> PaymentRow]
  BY DEF PaymentRow

LEMMA ChainInit == Init => ChainInv
  BY PaidAmountAssumption, NoneAssumption
  DEF Init, ChainInv, TypeOK, BusyNamesOrder, RowNamesPayment, DraftIsPrivate,
      ApprovingNamesRow, OneExecutor, HolderHolds, LandsOnce, Blank, Locations,
      Executing, HoldingRequest, PaymentStatus, RefundStatus, Modes,
      PaymentRow, RefundRow

LEMMA ChainStep == ChainInv /\ [Next]_vars => ChainInv'
  <1> SUFFICES ASSUME ChainInv, [Next]_vars PROVE ChainInv'
    OBVIOUS
  <1> USE PaidAmountAssumption, NoneAssumption
      DEF ChainInv, TypeOK, BusyNamesOrder, RowNamesPayment, DraftIsPrivate,
          ApprovingNamesRow, OneExecutor, HolderHolds, LandsOnce, Locations,
          Executing, HoldingRequest, PaymentStatus, RefundStatus, Modes,
          Goto, Finish, SetStatus, Blank, RefundRow, PaymentRow
  <1>1. ASSUME NEW c \in Callers, NEW r \in Refunds, NEW p \in Payments,
               NEW m \in Modes, NEW a \in 1..PaidAmount[p], Draft(c, r, p, a, m)
        PROVE  ChainInv'
    BY <1>1 DEF Draft
  <1>2. ASSUME NEW c \in Callers, NEW r \in Refunds, Approve(c, r)
        PROVE  ChainInv'
    BY <1>2 DEF Approve
  <1>3. ASSUME NEW r \in Refunds, Reject(r)
        PROVE  ChainInv'
    <2>1. TypeOK'
      <3>1. refund' \in [Refunds -> RefundRow]
        BY <1>3, StatusTyped DEF Reject
      <3> QED
        BY <1>3, <3>1 DEF Reject
    <2>2. BusyNamesOrder'
      BY <1>3 DEF Reject
    <2>3. RowNamesPayment'
      BY <1>3 DEF Reject
    <2>4. DraftIsPrivate'
      BY <1>3 DEF Reject
    <2>5. ApprovingNamesRow'
      BY <1>3 DEF Reject
    <2>6. OneExecutor'
      BY <1>3 DEF Reject
    <2>7. HolderHolds'
      BY <1>3 DEF Reject
    <2>8. LandsOnce'
      BY <1>3 DEF Reject
    <2> QED
      BY <2>1, <2>2, <2>3, <2>4, <2>5, <2>6, <2>7, <2>8
  <1>4. ASSUME NEW c \in Callers, Insert(c)
        PROVE  ChainInv'
    <2>1. TypeOK'
      <3>1. refund' \in [Refunds -> RefundRow]
        BY <1>4, StatusTyped DEF Insert
      <3> QED
        BY <1>4, <3>1 DEF Insert
    <2>2. BusyNamesOrder'
      BY <1>4 DEF Insert
    <2>3. RowNamesPayment'
      BY <1>4 DEF Insert
    <2>4. DraftIsPrivate'
      BY <1>4 DEF Insert
    <2>5. ApprovingNamesRow'
      BY <1>4 DEF Insert
    <2>6. OneExecutor'
      BY <1>4 DEF Insert
    <2>7. HolderHolds'
      BY <1>4 DEF Insert
    <2>8. LandsOnce'
      BY <1>4 DEF Insert
    <2> QED
      BY <2>1, <2>2, <2>3, <2>4, <2>5, <2>6, <2>7, <2>8
  <1>5. ASSUME NEW c \in Callers, Grab(c)
        PROVE  ChainInv'
    <2>1. TypeOK'
      BY <1>5 DEF Grab
    <2>2. BusyNamesOrder'
      BY <1>5 DEF Grab
    <2>3. RowNamesPayment'
      BY <1>5 DEF Grab
    <2>4. DraftIsPrivate'
      BY <1>5 DEF Grab
    <2>5. ApprovingNamesRow'
      BY <1>5 DEF Grab
    <2>6. OneExecutor'
      BY <1>5 DEF Grab
    <2>7. HolderHolds'
      BY <1>5 DEF Grab
    <2>8. LandsOnce'
      BY <1>5 DEF Grab
    <2> QED
      BY <2>1, <2>2, <2>3, <2>4, <2>5, <2>6, <2>7, <2>8
  <1>6. ASSUME NEW c \in Callers, GrabMiss(c)
        PROVE  ChainInv'
    BY <1>6 DEF GrabMiss
  <1>7. ASSUME NEW c \in Callers, Reserve(c)
        PROVE  ChainInv'
    BY <1>7 DEF Reserve
  <1>8. ASSUME NEW c \in Callers, ReserveRefused(c)
        PROVE  ChainInv'
    BY <1>8 DEF ReserveRefused
  <1>9. ASSUME NEW c \in Callers, ChannelPays(c)
        PROVE  ChainInv'
    BY <1>9 DEF ChannelPays
  <1>10. ASSUME NEW c \in Callers, ChannelAccepts(c)
        PROVE  ChainInv'
    BY <1>10 DEF ChannelAccepts
  <1>11. ASSUME NEW c \in Callers, ChannelDeclines(c)
        PROVE  ChainInv'
    BY <1>11 DEF ChannelDeclines
  <1>12. ASSUME NEW c \in Callers, ChannelRejects(c)
        PROVE  ChainInv'
    BY <1>12 DEF ChannelRejects
  <1>13. ASSUME NEW c \in Callers, ChannelAnswerLost(c)
        PROVE  ChainInv'
    BY <1>13 DEF ChannelAnswerLost
  <1>14. ASSUME NEW c \in Callers, Release(c)
        PROVE  ChainInv'
    BY <1>14 DEF Release, ReleaseQuota
  <1>15. ASSUME NEW c \in Callers, MarkFailed(c)
        PROVE  ChainInv'
    <2>1. TypeOK'
      <3>1. refund' \in [Refunds -> RefundRow]
        BY <1>15, StatusTyped DEF MarkFailed
      <3> QED
        BY <1>15, <3>1 DEF MarkFailed
    <2>2. BusyNamesOrder'
      BY <1>15 DEF MarkFailed
    <2>3. RowNamesPayment'
      BY <1>15 DEF MarkFailed
    <2>4. DraftIsPrivate'
      BY <1>15 DEF MarkFailed
    <2>5. ApprovingNamesRow'
      BY <1>15 DEF MarkFailed
    <2>6. OneExecutor'
      BY <1>15 DEF MarkFailed
    <2>7. HolderHolds'
      BY <1>15 DEF MarkFailed
    <2>8. LandsOnce'
      BY <1>15 DEF MarkFailed
    <2> QED
      BY <2>1, <2>2, <2>3, <2>4, <2>5, <2>6, <2>7, <2>8
  <1>16. ASSUME NEW c \in Callers, LandRead(c)
        PROVE  ChainInv'
    BY <1>16 DEF LandRead
  <1>17. ASSUME NEW c \in Callers, LandCommit(c)
        PROVE  ChainInv'
    <2>1. TypeOK'
      <3>1. refund' \in [Refunds -> RefundRow]
        BY <1>17, StatusTyped DEF LandCommit
      <3>2. payment' \in [Payments -> PaymentRow]
        <4>1. PICK s \in PaymentStatus :
                payment' = [payment EXCEPT ![refund[cur[c]].payment].status = s]
          BY <1>17 DEF LandCommit
        <4>2. refund[cur[c]].payment \in Payments
          BY <1>17 DEF LandCommit
        <4> QED
          BY <4>1, <4>2, PaymentStatusTyped
      <3>3. landed' \in [Refunds -> Nat]
        BY <1>17 DEF LandCommit
      <3> QED
        BY <1>17, <3>1, <3>2, <3>3 DEF LandCommit
    <2>2. BusyNamesOrder'
      BY <1>17 DEF LandCommit
    <2>3. RowNamesPayment'
      BY <1>17 DEF LandCommit
    <2>4. DraftIsPrivate'
      BY <1>17 DEF LandCommit
    <2>5. ApprovingNamesRow'
      BY <1>17 DEF LandCommit
    <2>6. OneExecutor'
      BY <1>17 DEF LandCommit
    <2>7. HolderHolds'
      BY <1>17 DEF LandCommit
    <2>8. LandsOnce'
      BY <1>17 DEF LandCommit
    <2> QED
      BY <2>1, <2>2, <2>3, <2>4, <2>5, <2>6, <2>7, <2>8
  <1>18. ASSUME NEW c \in Callers, LandFails(c)
        PROVE  ChainInv'
    <2>1. TypeOK'
      <3>1. pc' \in [Callers -> Locations]
        BY <1>18 DEF LandFails
      <3>2. cur' \in [Callers -> Refunds \cup {NoRefund}]
        BY <1>18 DEF LandFails
      <3>3. sawFull' \in [Callers -> BOOLEAN]
        BY <1>18 DEF LandFails
      <3> QED
        BY <1>18, <3>1, <3>2, <3>3 DEF LandFails
    <2>2. BusyNamesOrder'
      BY <1>18 DEF LandFails
    <2>3. RowNamesPayment'
      BY <1>18 DEF LandFails
    <2>4. DraftIsPrivate'
      BY <1>18 DEF LandFails
    <2>5. ApprovingNamesRow'
      BY <1>18 DEF LandFails
    <2>6. OneExecutor'
      BY <1>18 DEF LandFails
    <2>7. HolderHolds'
      BY <1>18 DEF LandFails
    <2>8. LandsOnce'
      BY <1>18 DEF LandFails
    <2> QED
      BY <2>1, <2>2, <2>3, <2>4, <2>5, <2>6, <2>7, <2>8
  <1>19. ASSUME NEW c \in Callers, Unreserve(c)
        PROVE  ChainInv'
    BY <1>19 DEF Unreserve, ReleaseQuota
  <1>20. ASSUME NEW c \in Callers, Abort(c)
        PROVE  ChainInv'
    <2>1. TypeOK'
      BY <1>20 DEF Abort
    <2>2. BusyNamesOrder'
      BY <1>20 DEF Abort
    <2>3. RowNamesPayment'
      BY <1>20 DEF Abort
    <2>4. DraftIsPrivate'
      BY <1>20 DEF Abort
    <2>5. ApprovingNamesRow'
      BY <1>20 DEF Abort
    <2>6. OneExecutor'
      BY <1>20 DEF Abort
    <2>7. HolderHolds'
      BY <1>20 DEF Abort
    <2>8. LandsOnce'
      BY <1>20 DEF Abort
    <2> QED
      BY <2>1, <2>2, <2>3, <2>4, <2>5, <2>6, <2>7, <2>8
  <1>21. CASE UNCHANGED vars
    BY <1>21 DEF vars
  <1> QED
    BY <1>1, <1>2, <1>3, <1>4, <1>5, <1>6, <1>7, <1>8, <1>9, <1>10, <1>11, <1>12,
       <1>13, <1>14, <1>15, <1>16, <1>17, <1>18, <1>19, <1>20, <1>21
    DEF Next, Step, Gates, Channel, Undo, Landing

THEOREM ChainCorrect == Spec => []ChainInv
  <1>1. Init => ChainInv
    BY ChainInit
  <1>2. ChainInv /\ [Next]_vars => ChainInv'
    BY ChainStep
  <1> QED
    BY <1>1, <1>2, PTL DEF Spec

\* Type correctness of the refund rows, the payments and the requests.
THEOREM ChainTypeOK == Spec => []TypeOK
  <1>1. ChainInv => TypeOK
    BY DEF ChainInv
  <1> QED
    BY <1>1, ChainCorrect, PTL

\* Gate 1: at most one request executes an order, and the order is approved.
THEOREM ChainOneExecutor == Spec => []OneExecutor
  <1>1. ChainInv => OneExecutor
    BY DEF ChainInv
  <1> QED
    BY <1>1, ChainCorrect, PTL

\* executeRefund commits an order once if it succeeds and never otherwise.
THEOREM ChainLandsOnce == Spec => []LandsOnce
  <1>1. ChainInv => LandsOnce
    BY DEF ChainInv
  <1> QED
    BY <1>1, ChainCorrect, PTL

----------------------------------------------------------------------------
(* Gate 2. *)

\* Undoing a reservation never raises refunded_amount.
LEMMA ReleaseLowers ==
    ASSUME TypeOK, RowNamesPayment, NEW r \in Refunds,
           refund[r].status = "approved", ReleaseQuota(r),
           NEW p \in Payments
    PROVE  payment'[p].refunded <= payment[p].refunded
  BY DEF TypeOK, RowNamesPayment, ReleaseQuota, RefundRow, PaymentRow

LEMMA WithinStep ==
    ASSUME ChainInv, RefundedWithinPayment, [Next]_vars
    PROVE  RefundedWithinPayment'
  <1> USE PaidAmountAssumption DEF RefundedWithinPayment
  <1>1. TypeOK /\ RowNamesPayment
    BY DEF ChainInv
  <1>2. ASSUME NEW c \in Callers, Reserve(c)
        PROVE  RefundedWithinPayment'
    BY <1>1, <1>2 DEF Reserve, TypeOK, RefundRow, PaymentRow
  <1>3. ASSUME NEW c \in Callers, Release(c) \/ Unreserve(c)
        PROVE  RefundedWithinPayment'
    <2>1. cur[c] \in Refunds /\ refund[cur[c]].status = "approved"
      BY <1>3 DEF ChainInv, BusyNamesOrder, OneExecutor, Executing, Release, Unreserve
    <2>2. ReleaseQuota(cur[c])
      BY <1>3 DEF Release, Unreserve
    <2>3. payment' \in [Payments -> PaymentRow]
      BY ChainStep DEF ChainInv, TypeOK
    <2> QED
      BY <1>1, <2>1, <2>2, <2>3, ReleaseLowers DEF TypeOK, PaymentRow
  <1>4. ASSUME NEW c \in Callers, LandCommit(c)
        PROVE  RefundedWithinPayment'
    BY <1>1, <1>4 DEF LandCommit, TypeOK, PaymentRow
  <1>5. CASE UNCHANGED payment
    BY <1>5
  <1> QED
    BY <1>2, <1>3, <1>4, <1>5
    DEF Next, Step, Gates, Channel, Undo, Landing, vars, Draft, Approve, Reject,
        Insert, Grab, GrabMiss, ReserveRefused, ChannelPays, ChannelAccepts,
        ChannelDeclines, ChannelRejects, ChannelAnswerLost, MarkFailed, LandRead,
        LandFails, Abort

\* Gate 2: whatever the interleaving, a payment gives back at most its amount.
THEOREM ChainRefundedWithinPayment == Spec => []RefundedWithinPayment
  <1>1. Init => RefundedWithinPayment
    <2>1. \A p \in Payments : 0 <= PaidAmount[p]
      BY PaidAmountAssumption
    <2>2. ASSUME Init, NEW p \in Payments PROVE payment[p].refunded = 0
      <3>1. payment = [q \in Payments |-> [status |-> "success", refunded |-> 0]]
        BY <2>2 DEF Init
      <3> QED
        BY <3>1
    <2> QED
      BY <2>1, <2>2 DEF RefundedWithinPayment
  <1>2. ChainInv /\ RefundedWithinPayment /\ [Next]_vars => RefundedWithinPayment'
    BY WithinStep
  <1> QED
    BY <1>1, <1>2, ChainCorrect, PTL DEF Spec

----------------------------------------------------------------------------
(* Success and rejection are final. *)

LEMMA TerminalStep ==
    ASSUME ChainInv, [Next]_vars, NEW r \in Refunds,
           refund[r].status \in {"success", "rejected"}
    PROVE  refund'[r] = refund[r]
  <1> USE DEF ChainInv, TypeOK, BusyNamesOrder, DraftIsPrivate, OneExecutor,
              Executing, SetStatus
  <1>1. ASSUME NEW c \in Callers, NEW q \in Refunds, NEW p \in Payments,
               NEW m \in Modes, NEW a \in 1..PaidAmount[p], Draft(c, q, p, a, m)
        PROVE  refund'[r] = refund[r]
    BY <1>1 DEF Draft
  <1>2. ASSUME NEW c \in Callers, Insert(c)
        PROVE  refund'[r] = refund[r]
    BY <1>2 DEF Insert
  <1>3. ASSUME NEW c \in Callers, Grab(c)
        PROVE  refund'[r] = refund[r]
    BY <1>3 DEF Grab
  <1>4. ASSUME NEW c \in Callers, MarkFailed(c)
        PROVE  refund'[r] = refund[r]
    BY <1>4 DEF MarkFailed
  <1>5. ASSUME NEW c \in Callers, LandCommit(c)
        PROVE  refund'[r] = refund[r]
    BY <1>5 DEF LandCommit
  <1>6. ASSUME NEW q \in Refunds, Reject(q)
        PROVE  refund'[r] = refund[r]
    BY <1>6 DEF Reject
  <1>7. ASSUME NEW c \in Callers, Abort(c)
        PROVE  refund'[r] = refund[r]
    BY <1>7 DEF Abort
  <1>8. CASE UNCHANGED refund
    BY <1>8
  <1> QED
    BY <1>1, <1>2, <1>3, <1>4, <1>5, <1>6, <1>7, <1>8
    DEF Next, Step, Gates, Channel, Undo, Landing, vars, Approve, GrabMiss,
        Reserve, ReserveRefused, ChannelPays, ChannelAccepts, ChannelDeclines,
        ChannelRejects, ChannelAnswerLost, Release, Unreserve, LandRead, LandFails

\* A refund order that succeeded or was rejected is never written again.
THEOREM ChainTerminal == Spec => Terminal
  <1>1. ChainInv /\ [Next]_vars =>
          [\A r \in Refunds :
             refund[r].status \in {"success", "rejected"} => refund'[r] = refund[r]]_vars
    BY TerminalStep
  <1> QED
    BY <1>1, ChainCorrect, PTL DEF Spec, Terminal

----------------------------------------------------------------------------
(* The order "reserve, call, land" of the comment of reserveRefundAmount.  *)

\* Who has called the channel, and with what answer, while no answer is lost.
ChannelInv ==
    /\ PaidOutIsHeld
    /\ \A r \in paidOut :
          /\ refund[r].mode = "original"
          /\ refund[r].status \notin {"none", "draft"}
    /\ \A c \in Callers :
          /\ pc[c] = "channel" => refund[cur[c]].mode = "original"
          /\ pc[c] = "releasing" => cur[c] \notin paidOut
          /\ pc[c] = "unreserving" => refund[cur[c]].mode # "original"

LEMMA ChannelStep ==
    ASSUME "lost" \notin Faults, ChainInv, ChannelInv, [Next]_vars
    PROVE  ChannelInv'
  <1> USE DEF ChannelInv, PaidOutIsHeld, ChainInv, TypeOK, BusyNamesOrder,
              RowNamesPayment, DraftIsPrivate, ApprovingNamesRow, OneExecutor,
              HolderHolds, HoldingRequest, Executing, Locations, RefundRow,
              Goto, Finish, SetStatus
  <1>1. ASSUME NEW c \in Callers, NEW r \in Refunds, NEW p \in Payments,
               NEW m \in Modes, NEW a \in 1..PaidAmount[p], Draft(c, r, p, a, m)
        PROVE  ChannelInv'
    BY <1>1 DEF Draft
  <1>2. ASSUME NEW c \in Callers, NEW r \in Refunds, Approve(c, r)
        PROVE  ChannelInv'
    BY <1>2 DEF Approve
  <1>3. ASSUME NEW r \in Refunds, Reject(r)
        PROVE  ChannelInv'
    BY <1>3 DEF Reject
  <1>4. ASSUME NEW c \in Callers, Insert(c)
        PROVE  ChannelInv'
    BY <1>4 DEF Insert
  <1>5. ASSUME NEW c \in Callers, Grab(c)
        PROVE  ChannelInv'
    BY <1>5 DEF Grab
  <1>6. ASSUME NEW c \in Callers, GrabMiss(c)
        PROVE  ChannelInv'
    BY <1>6 DEF GrabMiss
  <1>7. ASSUME NEW c \in Callers, Reserve(c)
        PROVE  ChannelInv'
    BY <1>7 DEF Reserve
  <1>8. ASSUME NEW c \in Callers, ReserveRefused(c)
        PROVE  ChannelInv'
    BY <1>8 DEF ReserveRefused
  <1>9. ASSUME NEW c \in Callers, ChannelPays(c)
        PROVE  ChannelInv'
    BY <1>9 DEF ChannelPays
  <1>10. ASSUME NEW c \in Callers, ChannelAccepts(c)
        PROVE  ChannelInv'
    BY <1>10 DEF ChannelAccepts
  <1>11. ASSUME NEW c \in Callers, ChannelDeclines(c)
        PROVE  ChannelInv'
    BY <1>11 DEF ChannelDeclines
  <1>12. ASSUME NEW c \in Callers, ChannelRejects(c)
        PROVE  ChannelInv'
    BY <1>12 DEF ChannelRejects
  <1>13. ASSUME NEW c \in Callers, Release(c)
        PROVE  ChannelInv'
    BY <1>13 DEF Release, ReleaseQuota
  <1>14. ASSUME NEW c \in Callers, MarkFailed(c)
        PROVE  ChannelInv'
    <2>1. cur[c] \in Refunds /\ paidOut' = paidOut /\ held' = held
      BY <1>14 DEF MarkFailed
    <2>2. \A r \in Refunds :
            /\ refund'[r].mode = refund[r].mode
            /\ refund'[r].status \in {refund[r].status, "failed"}
      BY <1>14, <2>1 DEF MarkFailed
    <2>3. \A d \in Callers :
            pc'[d] \in {"channel", "releasing", "unreserving"}
              => pc'[d] = pc[d] /\ cur'[d] = cur[d] /\ cur[d] \in Refunds
      BY <1>14 DEF MarkFailed
    <2>4. paidOut \subseteq Refunds
      BY DEF ChannelInv
    <2> QED
      BY <2>1, <2>2, <2>3, <2>4
  <1>15. ASSUME NEW c \in Callers, LandRead(c)
        PROVE  ChannelInv'
    BY <1>15 DEF LandRead
  <1>16. ASSUME NEW c \in Callers, LandCommit(c)
        PROVE  ChannelInv'
    BY <1>16 DEF LandCommit
  <1>17. ASSUME NEW c \in Callers, LandFails(c)
        PROVE  ChannelInv'
    BY <1>17 DEF LandFails
  <1>18. ASSUME NEW c \in Callers, Unreserve(c)
        PROVE  ChannelInv'
    BY <1>18 DEF Unreserve, ReleaseQuota
  <1>19. ASSUME NEW c \in Callers, Abort(c)
        PROVE  ChannelInv'
    <2>1. paidOut' = paidOut /\ held' = held
      BY <1>19 DEF Abort
    <2>2. \A r \in Refunds :
            /\ r \in paidOut => refund'[r] = refund[r]
            /\ refund[r].status # "draft" => refund'[r] = refund[r]
      BY <1>19 DEF Abort, Blank
    <2>3. \A d \in Callers :
            pc'[d] \in {"channel", "releasing", "unreserving"}
              => pc'[d] = pc[d] /\ cur'[d] = cur[d] /\ cur[d] \in Refunds
                 /\ refund[cur[d]].status # "draft"
      BY <1>19 DEF Abort
    <2> QED
      BY <2>1, <2>2, <2>3
  <1>20. CASE UNCHANGED vars
    BY <1>20 DEF vars
  <1> QED
    BY <1>1, <1>2, <1>3, <1>4, <1>5, <1>6, <1>7, <1>8, <1>9, <1>10,
       <1>11, <1>12, <1>13, <1>14, <1>15, <1>16, <1>17, <1>18, <1>19, <1>20
    DEF Next, Step, Gates, Channel, Undo, Landing, ChannelAnswerLost

\* If the answers of the channel arrive, the money it has given back is always
\* covered by quota held locally, across failures, retries and restarts.
THEOREM ChainPaidOutIsHeld == "lost" \notin Faults => (Spec => []PaidOutIsHeld)
  <1> SUFFICES ASSUME "lost" \notin Faults PROVE Spec => []PaidOutIsHeld
    OBVIOUS
  <1>1. Init => ChannelInv
    BY DEF Init, ChannelInv, PaidOutIsHeld
  <1>2. ChainInv /\ ChannelInv /\ [Next]_vars => ChannelInv'
    BY ChannelStep
  <1>3. ChannelInv => PaidOutIsHeld
    BY DEF ChannelInv
  <1> QED
    BY <1>1, <1>2, <1>3, ChainCorrect, PTL DEF Spec

----------------------------------------------------------------------------
(* The accounts of the quota.                                              *)
(*                                                                         *)
(* QuotaAccounts alone is not inductive: gate 2 must not reserve an order  *)
(* that is held already, and releaseRefundAmount, whose update does        *)
(* nothing when the column is below the amount, must find the amount in    *)
(* it.  QuotaInv adds which orders can be held, and that the orders held   *)
(* are finitely many, so that their amounts have a sum.                    *)

\* Only an order in execution, or one that landed, is held.
HeldIsTaken == \A r \in held : refund[r].status \in {"approved", "success"}

\* Before gate 2, and once the quota is given back, a request holds nothing.
UnreservedNotHeld ==
    \A c \in Callers : pc[c] \in {"reserving", "marking"} => cur[c] \notin held

QuotaInv ==
    /\ IsFiniteSet(held)
    /\ HeldIsTaken
    /\ UnreservedNotHeld
    /\ QuotaAccounts

\* The orders held for a payment are finitely many, with amounts that add up.
LEMMA HeldAddsUp ==
    ASSUME TypeOK, IsFiniteSet(held), NEW p \in Payments
    PROVE  /\ IsFiniteSet(HeldFor(p))
           /\ \A r \in HeldFor(p) : AmountOf[r] \in Nat
           /\ SumOf(AmountOf, HeldFor(p)) \in Nat
  <1>1. IsFiniteSet(HeldFor(p))
    BY FS_Subset DEF HeldFor
  <1>2. \A r \in HeldFor(p) : AmountOf[r] \in Nat
    BY DEF TypeOK, HeldFor, AmountOf, RefundRow
  <1> QED
    BY <1>1, <1>2, SumIsNat

\* The accounts stand while neither the column, nor the orders held, nor their
\* rows' amounts and payments change.
LEMMA AccountsStand ==
    ASSUME TypeOK, IsFiniteSet(held), QuotaAccounts, held' = held,
           \A r \in held : /\ refund'[r].amount = refund[r].amount
                           /\ refund'[r].payment = refund[r].payment,
           \A p \in Payments : payment'[p].refunded = payment[p].refunded
    PROVE  QuotaAccounts'
  <1> SUFFICES ASSUME NEW p \in Payments
               PROVE  payment'[p].refunded = SumOf(AmountOf', HeldFor(p)')
    BY DEF QuotaAccounts
  <1>1. HeldFor(p)' = HeldFor(p)
    BY DEF HeldFor
  <1>2. \A r \in HeldFor(p) : AmountOf[r] = AmountOf'[r]
    BY DEF HeldFor, AmountOf, TypeOK
  <1>3. SumOf(AmountOf, HeldFor(p)) = SumOf(AmountOf', HeldFor(p))
    BY <1>2, HeldAddsUp, SumAgrees
  <1> QED
    BY <1>1, <1>3 DEF QuotaAccounts

\* Gate 2: an order that was not held adds its amount.
LEMMA ReserveAddsUp ==
    ASSUME TypeOK, IsFiniteSet(held), QuotaAccounts,
           NEW r \in Refunds, r \notin held, refund[r].payment \in Payments,
           payment' = [payment EXCEPT ![refund[r].payment].refunded =
                                                        @ + refund[r].amount],
           held' = held \cup {r}, refund' = refund
    PROVE  IsFiniteSet(held') /\ QuotaAccounts'
  <1>1. IsFiniteSet(held')
    BY FS_AddElement
  <1> SUFFICES ASSUME NEW p \in Payments
               PROVE  payment'[p].refunded = SumOf(AmountOf', HeldFor(p)')
    BY <1>1 DEF QuotaAccounts
  <1>2. AmountOf' = AmountOf
    BY DEF AmountOf
  <1>3. payment[p].refunded = SumOf(AmountOf, HeldFor(p))
    BY DEF QuotaAccounts
  <1>4. CASE refund[r].payment = p
    <2>1. HeldFor(p)' = HeldFor(p) \cup {r} /\ r \notin HeldFor(p)
      BY <1>4 DEF HeldFor
    <2>2. AmountOf[r] = refund[r].amount /\ refund[r].amount \in Nat
      BY DEF AmountOf, TypeOK, RefundRow
    <2>3. SumOf(AmountOf, HeldFor(p) \cup {r}) = AmountOf[r] + SumOf(AmountOf, HeldFor(p))
      <3>1. \A q \in HeldFor(p) \cup {r} : AmountOf[q] \in Int
        BY <2>2, HeldAddsUp
      <3> QED
        BY <2>1, <3>1, HeldAddsUp, SumPutsIn
    <2>4. payment'[p].refunded = payment[p].refunded + refund[r].amount
      BY <1>4 DEF TypeOK, PaymentRow
    <2> QED
      BY <1>2, <1>3, <2>1, <2>2, <2>3, <2>4, HeldAddsUp
  <1>5. CASE refund[r].payment # p
    <2>1. HeldFor(p)' = HeldFor(p)
      BY <1>5 DEF HeldFor
    <2>2. payment'[p].refunded = payment[p].refunded
      BY <1>5 DEF TypeOK, PaymentRow
    <2> QED
      BY <1>2, <1>3, <2>1, <2>2
  <1> QED
    BY <1>4, <1>5

\* The amount of an order that is held is in the column: the conditional
\* update of releaseRefundAmount always finds its row.
LEMMA HeldIsInColumn ==
    ASSUME TypeOK, IsFiniteSet(held), QuotaAccounts,
           NEW r \in held, refund[r].payment \in Payments
    PROVE  /\ payment[refund[r].payment].refunded >= refund[r].amount
           /\ payment[refund[r].payment].refunded - refund[r].amount =
                SumOf(AmountOf, HeldFor(refund[r].payment) \ {r})
  <1> DEFINE p == refund[r].payment
             rest == SumOf(AmountOf, HeldFor(p) \ {r})
  <1>1. r \in HeldFor(p) /\ AmountOf[r] = refund[r].amount /\ refund[r].amount \in Nat
    BY DEF HeldFor, AmountOf, TypeOK, RefundRow
  <1>2. SumOf(AmountOf, HeldFor(p)) = AmountOf[r] + rest
    BY <1>1, HeldAddsUp, SumTakesOut
  <1>3. rest \in Nat
    <2>1. IsFiniteSet(HeldFor(p) \ {r}) /\ \A q \in HeldFor(p) \ {r} : AmountOf[q] \in Nat
      BY HeldAddsUp, FS_RemoveElement
    <2> QED
      BY <2>1, SumIsNat
  <1>4. payment[p].refunded = SumOf(AmountOf, HeldFor(p))
    BY DEF QuotaAccounts
  <1> HIDE DEF rest
  <1>5. /\ payment[p].refunded >= refund[r].amount
        /\ payment[p].refunded - refund[r].amount = rest
    BY <1>1, <1>2, <1>3, <1>4
  <1> QED
    BY <1>5 DEF rest

\* releaseRefundAmount: an order that was held takes its amount out.
LEMMA ReleaseAddsUp ==
    ASSUME TypeOK, IsFiniteSet(held), QuotaAccounts,
           NEW r \in held, refund[r].payment \in Payments,
           ReleaseQuota(r), refund' = refund
    PROVE  held' = held \ {r} /\ IsFiniteSet(held') /\ QuotaAccounts'
  <1>1. /\ payment' = [payment EXCEPT ![refund[r].payment].refunded =
                                                        @ - refund[r].amount]
        /\ held' = held \ {r}
    BY HeldIsInColumn DEF ReleaseQuota
  <1>2. IsFiniteSet(held')
    BY <1>1, FS_RemoveElement
  <1> SUFFICES ASSUME NEW p \in Payments
               PROVE  payment'[p].refunded = SumOf(AmountOf', HeldFor(p)')
    BY <1>1, <1>2 DEF QuotaAccounts
  <1>3. AmountOf' = AmountOf
    BY DEF AmountOf
  <1>4. CASE refund[r].payment = p
    <2>1. HeldFor(p)' = HeldFor(p) \ {r}
      BY <1>1 DEF HeldFor
    <2>2. payment'[p].refunded = payment[p].refunded - refund[r].amount
      BY <1>1, <1>4 DEF TypeOK, PaymentRow
    <2> QED
      BY <1>3, <1>4, <2>1, <2>2, HeldIsInColumn
  <1>5. CASE refund[r].payment # p
    <2>1. HeldFor(p)' = HeldFor(p)
      BY <1>1, <1>5 DEF HeldFor
    <2>2. payment'[p].refunded = payment[p].refunded
      BY <1>1, <1>5 DEF TypeOK, PaymentRow
    <2> QED
      BY <1>3, <2>1, <2>2 DEF QuotaAccounts
  <1> QED
    BY <1>4, <1>5

\* Writing an order that is not held, or only the status of one that is, in a
\* step that reserves and releases nothing.
LEMMA QuotaStands ==
    ASSUME ChainInv, QuotaInv, held' = held,
           \A p \in Payments : payment'[p].refunded = payment[p].refunded,
           \A r \in held : /\ refund'[r].amount = refund[r].amount
                           /\ refund'[r].payment = refund[r].payment
                           /\ refund'[r].status \in {"approved", "success"},
           \A c \in Callers : pc'[c] \in {"reserving", "marking"}
                                => cur'[c] \notin held
    PROVE  QuotaInv'
  BY AccountsStand DEF ChainInv, QuotaInv, HeldIsTaken, UnreservedNotHeld

LEMMA QuotaStep ==
    ASSUME ChainInv, QuotaInv, [Next]_vars
    PROVE  QuotaInv'
  <1> USE DEF ChainInv, TypeOK, BusyNamesOrder, OneExecutor, Executing, HolderHolds,
              HoldingRequest, QuotaInv, HeldIsTaken, UnreservedNotHeld, Goto, Finish,
              SetStatus, RefundRow
  <1>1. ASSUME NEW c \in Callers, NEW r \in Refunds, NEW p \in Payments,
               NEW m \in Modes, NEW a \in 1..PaidAmount[p], Draft(c, r, p, a, m)
        PROVE  QuotaInv'
    BY <1>1, QuotaStands DEF Draft
  <1>2. ASSUME NEW c \in Callers, NEW r \in Refunds, Approve(c, r)
        PROVE  QuotaInv'
    BY <1>2, QuotaStands DEF Approve
  <1>3. ASSUME NEW r \in Refunds, Reject(r)
        PROVE  QuotaInv'
    BY <1>3, QuotaStands DEF Reject
  <1>4. ASSUME NEW c \in Callers, Insert(c)
        PROVE  QuotaInv'
    BY <1>4, QuotaStands DEF Insert, DraftIsPrivate
  <1>5. ASSUME NEW c \in Callers, Grab(c)
        PROVE  QuotaInv'
    BY <1>5, QuotaStands DEF Grab
  <1>6. ASSUME NEW c \in Callers,
               \/ GrabMiss(c) \/ ReserveRefused(c) \/ ChannelPays(c)
               \/ ChannelAccepts(c) \/ ChannelDeclines(c) \/ ChannelRejects(c)
               \/ ChannelAnswerLost(c) \/ LandRead(c) \/ LandFails(c)
        PROVE  QuotaInv'
    <2>1. held' = held /\ refund' = refund /\ payment' = payment
      BY <1>6 DEF GrabMiss, ReserveRefused, ChannelPays, ChannelAccepts,
          ChannelDeclines, ChannelRejects, ChannelAnswerLost, LandRead, LandFails
    <2>2. \A d \in Callers : pc'[d] \in {"reserving", "marking"}
                               => pc'[d] = pc[d] /\ cur'[d] = cur[d]
      BY <1>6 DEF GrabMiss, ReserveRefused, ChannelPays, ChannelAccepts,
          ChannelDeclines, ChannelRejects, ChannelAnswerLost, LandRead, LandFails
    <2> QED
      BY <2>1, <2>2, QuotaStands
  <1>7. ASSUME NEW c \in Callers, Reserve(c)
        PROVE  QuotaInv'
    <2>1. /\ cur[c] \in Refunds \ held /\ refund[cur[c]].status = "approved"
          /\ refund[cur[c]].payment \in Payments
      BY <1>7 DEF Reserve, RowNamesPayment
    <2>2. IsFiniteSet(held') /\ QuotaAccounts'
      BY <1>7, <2>1, ReserveAddsUp DEF Reserve
    <2>3. HeldIsTaken'
      BY <1>7, <2>1 DEF Reserve
    <2>4. UnreservedNotHeld'
      BY <1>7, <2>1 DEF Reserve
    <2> QED
      BY <2>2, <2>3, <2>4
  <1>8. ASSUME NEW c \in Callers, Release(c) \/ Unreserve(c)
        PROVE  QuotaInv'
    <2>1. /\ cur[c] \in held /\ refund[cur[c]].status = "approved"
          /\ refund[cur[c]].payment \in Payments
      BY <1>8 DEF Release, Unreserve, RowNamesPayment
    <2>2. held' = held \ {cur[c]} /\ IsFiniteSet(held') /\ QuotaAccounts'
      BY <1>8, <2>1, ReleaseAddsUp DEF Release, Unreserve
    <2>3. HeldIsTaken'
      BY <1>8, <2>2 DEF Release, Unreserve
    <2>4. UnreservedNotHeld'
      BY <1>8, <2>2 DEF Release, Unreserve
    <2> QED
      BY <2>2, <2>3, <2>4
  <1>9. ASSUME NEW c \in Callers, MarkFailed(c)
        PROVE  QuotaInv'
    BY <1>9, QuotaStands DEF MarkFailed
  <1>10. ASSUME NEW c \in Callers, LandCommit(c)
        PROVE  QuotaInv'
    <2>1. \A p \in Payments : payment'[p].refunded = payment[p].refunded
      BY <1>10 DEF LandCommit, PaymentRow
    <2> QED
      BY <1>10, <2>1, QuotaStands DEF LandCommit
  <1>11. ASSUME NEW c \in Callers, Abort(c)
        PROVE  QuotaInv'
    <2>1. held' = held /\ payment' = payment
      BY <1>11 DEF Abort
    <2>2. \A r \in held : refund'[r] = refund[r]
      BY <1>11 DEF Abort, DraftIsPrivate
    <2>3. \A d \in Callers : pc'[d] \in {"reserving", "marking"}
                               => pc'[d] = pc[d] /\ cur'[d] = cur[d]
      BY <1>11 DEF Abort
    <2> QED
      BY <2>1, <2>2, <2>3, QuotaStands
  <1>12. CASE UNCHANGED vars
    BY <1>12, QuotaStands DEF vars
  <1> QED
    BY <1>1, <1>2, <1>3, <1>4, <1>5, <1>6, <1>7, <1>8, <1>9, <1>10, <1>11, <1>12
    DEF Next, Step, Gates, Channel, Undo, Landing

LEMMA QuotaInit == Init => QuotaInv
  <1> SUFFICES ASSUME Init PROVE QuotaInv
    OBVIOUS
  <1>1. IsFiniteSet(held)
    BY FS_EmptySet DEF Init
  <1>2. QuotaAccounts
    <2> SUFFICES ASSUME NEW p \in Payments
                 PROVE  payment[p].refunded = SumOf(AmountOf, HeldFor(p))
      BY DEF QuotaAccounts
    <2>1. HeldFor(p) = {} /\ payment[p].refunded = 0
      BY DEF HeldFor, Init
    <2> QED
      BY <2>1, SumOfNothing
  <1> QED
    BY <1>1, <1>2 DEF Init, QuotaInv, HeldIsTaken, UnreservedNotHeld

THEOREM QuotaCorrect == Spec => []QuotaInv
  <1>1. Init => QuotaInv
    BY QuotaInit
  <1>2. ChainInv /\ QuotaInv /\ [Next]_vars => QuotaInv'
    BY QuotaStep
  <1> QED
    BY <1>1, <1>2, ChainCorrect, PTL DEF Spec

\* refunded_amount is the sum of the amounts reserved and not released, for any
\* number of orders, requests, retries and failures.
THEOREM ChainQuotaAccounts == Spec => []QuotaAccounts
  <1>1. QuotaInv => QuotaAccounts
    BY DEF QuotaInv
  <1> QED
    BY <1>1, QuotaCorrect, PTL

\* Undoing a reservation always finds the amount in the column.
ReleaseFindsQuota ==
    \A c \in Callers :
        pc[c] \in {"releasing", "unreserving"}
          => payment[refund[cur[c]].payment].refunded >= refund[cur[c]].amount

\* The condition of releaseRefundAmount (refunded_amount >= amount) guards
\* against a case that cannot arise: no release is ever skipped.
THEOREM ChainReleaseFindsQuota == Spec => []ReleaseFindsQuota
  <1>1. ChainInv /\ QuotaInv => ReleaseFindsQuota
    <2> SUFFICES ASSUME ChainInv, QuotaInv, NEW c \in Callers,
                        pc[c] \in {"releasing", "unreserving"}
                 PROVE  payment[refund[cur[c]].payment].refunded >= refund[cur[c]].amount
      BY DEF ReleaseFindsQuota
    <2>1. cur[c] \in held /\ refund[cur[c]].status = "approved" /\ cur[c] \in Refunds
      BY DEF ChainInv, BusyNamesOrder, HolderHolds, HoldingRequest, OneExecutor, Executing
    <2>2. refund[cur[c]].payment \in Payments
      BY <2>1 DEF ChainInv, RowNamesPayment
    <2> QED
      BY <2>1, <2>2, HeldIsInColumn DEF ChainInv, QuotaInv
  <1> QED
    BY <1>1, ChainCorrect, QuotaCorrect, PTL

----------------------------------------------------------------------------
(* Why quota is held.  The two ways to lose the request that holds it, a    *)
(* process that dies and an answer that approve's catch block rethrows, are *)
(* left out; README section 5 says what they do.                            *)

\* The original route lands only what the channel has executed.
PaidBeforeLanding ==
    \A c \in Callers :
        /\ pc[c] \in {"landing", "committing"}
        /\ refund[cur[c]].mode = "original"
        => cur[c] \in paidOut

\* A request that goes on working on its order, an order paid out and an order
\* that landed keep the reason; whoever stops must hold nothing any more.
LEMMA ReasonStands ==
    ASSUME QuotaHasReason, held' \subseteq held, paidOut \subseteq paidOut',
           \A r \in held' : refund[r].status = "success" => refund'[r].status = "success",
           \A c \in Callers :
               pc[c] \in Executing /\ cur[c] \in held' \ paidOut'
               /\ refund'[cur[c]].status # "success"
                 => pc'[c] \in Executing /\ cur'[c] = cur[c]
    PROVE  QuotaHasReason'
  <1> SUFFICES ASSUME NEW r \in held', r \notin paidOut', refund'[r].status # "success"
               PROVE  Owners(r)' # {}
    BY DEF QuotaHasReason
  <1>1. PICK c \in Owners(r) : TRUE
    BY DEF QuotaHasReason
  <1>2. c \in Owners(r)'
    BY <1>1 DEF Owners
  <1> QED
    BY <1>2

LEMMA ReasonStep ==
    ASSUME {"rejected", "abort"} \cap Faults = {}, ChainInv, QuotaInv,
           PaidBeforeLanding, QuotaHasReason, [Next]_vars
    PROVE  PaidBeforeLanding' /\ QuotaHasReason'
  <1> USE DEF ChainInv, TypeOK, BusyNamesOrder, OneExecutor, Executing, HolderHolds,
              HoldingRequest, QuotaInv, HeldIsTaken, UnreservedNotHeld, Goto, Finish,
              SetStatus, RefundRow, PaidBeforeLanding
  <1>1. ASSUME NEW c \in Callers, NEW r \in Refunds, NEW p \in Payments,
               NEW m \in Modes, NEW a \in 1..PaidAmount[p], Draft(c, r, p, a, m)
        PROVE  PaidBeforeLanding' /\ QuotaHasReason'
    BY <1>1, ReasonStands DEF Draft
  <1>2. ASSUME NEW c \in Callers, NEW r \in Refunds, Approve(c, r)
        PROVE  PaidBeforeLanding' /\ QuotaHasReason'
    BY <1>2, ReasonStands DEF Approve
  <1>3. ASSUME NEW r \in Refunds, Reject(r)
        PROVE  PaidBeforeLanding' /\ QuotaHasReason'
    BY <1>3, ReasonStands DEF Reject
  <1>4. ASSUME NEW c \in Callers, Insert(c)
        PROVE  PaidBeforeLanding' /\ QuotaHasReason'
    BY <1>4, ReasonStands DEF Insert, DraftIsPrivate
  <1>5. ASSUME NEW c \in Callers, Grab(c)
        PROVE  PaidBeforeLanding' /\ QuotaHasReason'
    BY <1>5, ReasonStands DEF Grab
  <1>6. ASSUME NEW c \in Callers, GrabMiss(c) \/ ReserveRefused(c)
        PROVE  PaidBeforeLanding' /\ QuotaHasReason'
    BY <1>6, ReasonStands DEF GrabMiss, ReserveRefused
  <1>7. ASSUME NEW c \in Callers, Reserve(c)
        PROVE  PaidBeforeLanding' /\ QuotaHasReason'
    <2>1. PaidBeforeLanding'
      BY <1>7 DEF Reserve
    <2>2. \A r \in Refunds : r = cur[c] => c \in Owners(r)'
      BY <1>7 DEF Reserve, Owners
    <2>3. \A r \in held' \ {cur[c]} : r \in held /\ Owners(r) \subseteq Owners(r)'
      BY <1>7 DEF Reserve, Owners
    <2>4. refund' = refund /\ paidOut' = paidOut
      BY <1>7 DEF Reserve
    <2>5. ASSUME NEW r \in held'
          PROVE  r \in paidOut' \/ refund'[r].status = "success" \/ Owners(r)' # {}
      <3>1. CASE r = cur[c]
        <4>1. c \in Owners(r)'
          BY <2>2, <2>5, <3>1, ChainStep
        <4> QED
          BY <4>1
      <3>2. CASE r # cur[c]
        <4>1. r \in paidOut \/ refund[r].status = "success" \/ Owners(r) # {}
          BY <2>3, <2>5, <3>2 DEF QuotaHasReason
        <4> QED
          BY <4>1, <2>3, <2>4, <2>5, <3>2
      <3> QED
        BY <3>1, <3>2
    <2> QED
      BY <2>1, <2>5 DEF QuotaHasReason
  <1>8. ASSUME NEW c \in Callers, \/ ChannelPays(c) \/ ChannelAccepts(c)
                                  \/ ChannelDeclines(c) \/ ChannelAnswerLost(c)
        PROVE  PaidBeforeLanding' /\ QuotaHasReason'
    <2>1. PaidBeforeLanding'
      BY <1>8 DEF ChannelPays, ChannelAccepts, ChannelDeclines, ChannelAnswerLost
    <2>2. /\ held' = held /\ refund' = refund /\ paidOut \subseteq paidOut'
          /\ cur' = cur
          /\ \A d \in Callers : pc[d] \in Executing => pc'[d] \in Executing
      BY <1>8 DEF ChannelPays, ChannelAccepts, ChannelDeclines, ChannelAnswerLost
    <2> QED
      BY <2>1, <2>2, ReasonStands
  <1>9. ASSUME NEW c \in Callers, Release(c) \/ Unreserve(c)
        PROVE  PaidBeforeLanding' /\ QuotaHasReason'
    <2>1. /\ cur[c] \in held /\ refund[cur[c]].status = "approved"
          /\ refund[cur[c]].payment \in Payments
      BY <1>9 DEF Release, Unreserve, RowNamesPayment
    <2>2. held' = held \ {cur[c]}
      BY <1>9, <2>1, ReleaseAddsUp DEF Release, Unreserve
    <2> QED
      BY <1>9, <2>2, ReasonStands DEF Release, Unreserve
  <1>10. ASSUME NEW c \in Callers, MarkFailed(c)
        PROVE  PaidBeforeLanding' /\ QuotaHasReason'
    BY <1>10, ReasonStands DEF MarkFailed
  <1>11. ASSUME NEW c \in Callers, LandRead(c)
        PROVE  PaidBeforeLanding' /\ QuotaHasReason'
    BY <1>11, ReasonStands DEF LandRead
  <1>12. ASSUME NEW c \in Callers, LandCommit(c)
        PROVE  PaidBeforeLanding' /\ QuotaHasReason'
    BY <1>12, ReasonStands DEF LandCommit
  <1>13. ASSUME NEW c \in Callers, LandFails(c)
        PROVE  PaidBeforeLanding' /\ QuotaHasReason'
    BY <1>13, ReasonStands DEF LandFails
  <1>14. CASE UNCHANGED vars
    BY <1>14, ReasonStands DEF vars
  <1> QED
    BY <1>1, <1>2, <1>3, <1>4, <1>5, <1>6, <1>7, <1>8, <1>9, <1>10, <1>11, <1>12,
       <1>13, <1>14
    DEF Next, Step, Gates, Channel, Undo, Landing, ChannelRejects, Abort

\* While requests do not die and the channel's refusal is an answer, quota is
\* only held for money that left, for an order that landed or for a request
\* still at work, whatever answers are lost and whatever landings roll back.
THEOREM ChainQuotaHasReason ==
    {"rejected", "abort"} \cap Faults = {} => (Spec => []QuotaHasReason)
  <1> SUFFICES ASSUME {"rejected", "abort"} \cap Faults = {}
               PROVE  Spec => []QuotaHasReason
    OBVIOUS
  <1>1. Init => PaidBeforeLanding /\ QuotaHasReason
    BY DEF Init, PaidBeforeLanding, QuotaHasReason
  <1>2. ChainInv /\ QuotaInv /\ PaidBeforeLanding /\ QuotaHasReason /\ [Next]_vars
          => PaidBeforeLanding' /\ QuotaHasReason'
    BY ReasonStep
  <1> QED
    BY <1>1, <1>2, ChainCorrect, QuotaCorrect, PTL DEF Spec

----------------------------------------------------------------------------
(* The chain implements the ledger.  Inserting a row opens an order, the    *)
(* landing's commit settles it, a rejection refuses it, and every other     *)
(* step, gate 1, gate 2 and the channel included, changes nothing the       *)
(* ledger sees.  That a settlement stays within the payment is the sum of   *)
(* three facts: what landed is held, what is held adds up to the column,    *)
(* and gate 2 keeps the column within the payment.                          *)

\* An order asks for something, and for no more than its payment collected.
AmountInRange ==
    \A r \in Refunds :
        refund[r].status # "none"
          => refund[r].amount \in 1..PaidAmount[refund[r].payment]

LEMMA AmountStands ==
    ASSUME AmountInRange,
           \A r \in Refunds :
               refund'[r].status # "none"
                 => /\ refund[r].status # "none"
                    /\ refund'[r].amount = refund[r].amount
                    /\ refund'[r].payment = refund[r].payment
    PROVE  AmountInRange'
  BY DEF AmountInRange

LEMMA AmountStep ==
    ASSUME ChainInv, AmountInRange, [Next]_vars
    PROVE  AmountInRange'
  <1> USE DEF ChainInv, TypeOK, BusyNamesOrder, OneExecutor, Executing, SetStatus,
              RefundRow
  <1>1. ASSUME NEW c \in Callers, NEW r \in Refunds, NEW p \in Payments,
               NEW m \in Modes, NEW a \in 1..PaidAmount[p], Draft(c, r, p, a, m)
        PROVE  AmountInRange'
    <2>1. ASSUME NEW q \in Refunds
          PROVE  refund'[q] = IF q = r THEN [status |-> "draft", payment |-> p,
                                             amount |-> a, mode |-> m]
                              ELSE refund[q]
      BY <1>1 DEF Draft
    <2> QED
      BY <2>1 DEF AmountInRange
  <1>2. ASSUME NEW c \in Callers, Insert(c)
        PROVE  AmountInRange'
    BY <1>2, AmountStands DEF Insert, DraftIsPrivate
  <1>3. ASSUME NEW c \in Callers, Grab(c) \/ MarkFailed(c) \/ LandCommit(c)
        PROVE  AmountInRange'
    BY <1>3, AmountStands DEF Grab, MarkFailed, LandCommit
  <1>4. ASSUME NEW r \in Refunds, Reject(r)
        PROVE  AmountInRange'
    BY <1>4, AmountStands DEF Reject
  <1>5. ASSUME NEW c \in Callers, Abort(c)
        PROVE  AmountInRange'
    BY <1>5, AmountStands DEF Abort, DraftIsPrivate, Blank
  <1>6. CASE UNCHANGED refund
    BY <1>6, AmountStands
  <1> QED
    BY <1>1, <1>2, <1>3, <1>4, <1>5, <1>6
    DEF Next, Step, Gates, Channel, Undo, Landing, vars, Approve, GrabMiss,
        Reserve, ReserveRefused, ChannelPays, ChannelAccepts, ChannelDeclines,
        ChannelRejects, ChannelAnswerLost, Release, Unreserve, LandRead, LandFails

\* What has been settled for a payment is within what was collected, even with
\* one more order that a request is about to land.
LEMMA SettledWithinPayment ==
    ASSUME ChainInv, QuotaInv, RefundedWithinPayment,
           NEW r \in held, r \in Written, NEW p \in Payments
    PROVE  Ledger!Settled(p, SettledOrders \cup {r}) <= PaidAmount[p]
  <1> DEFINE S == {q \in SettledOrders \cup {r} : Opened[q].payment = p}
             f == [q \in SettledOrders \cup {r} |-> Opened[q].amount]
  <1>1. SettledOrders \cup {r} \subseteq held \cap Written
    BY DEF ChainInv, LandsOnce, SettledOrders, Written
  <1>2. \A q \in SettledOrders \cup {r} :
          /\ Opened[q].payment = refund[q].payment
          /\ f[q] = AmountOf[q]
    BY <1>1 DEF Opened, AmountOf, Written
  <1>3. S \subseteq HeldFor(p)
    BY <1>1, <1>2 DEF HeldFor
  <1>4. IsFiniteSet(HeldFor(p)) /\ \A q \in HeldFor(p) : AmountOf[q] \in Nat
    BY HeldAddsUp DEF ChainInv, QuotaInv
  <1>5. SumOf(f, S) = SumOf(AmountOf, S)
    <2>1. IsFiniteSet(S)
      BY <1>3, <1>4, FS_Subset
    <2>2. \A q \in S : f[q] = AmountOf[q]
      BY <1>2
    <2> HIDE DEF S, f
    <2> QED
      BY <2>1, <2>2, SumAgrees
  <1>6. SumOf(AmountOf, S) <= SumOf(AmountOf, HeldFor(p))
    <2> HIDE DEF S
    <2> QED
      BY <1>3, <1>4, SumOfAPart
  <1>7. SumOf(AmountOf, S) \in Nat
    <2>1. IsFiniteSet(S) /\ \A q \in S : AmountOf[q] \in Nat
      BY <1>3, <1>4, FS_Subset
    <2> HIDE DEF S
    <2> QED
      BY <2>1, SumIsNat
  <1>8. /\ SumOf(AmountOf, HeldFor(p)) = payment[p].refunded
        /\ payment[p].refunded <= PaidAmount[p]
        /\ payment[p].refunded \in Nat /\ PaidAmount[p] \in Nat
    BY PaidAmountAssumption
    DEF QuotaInv, QuotaAccounts, RefundedWithinPayment, ChainInv, TypeOK, PaymentRow
  <1>9. SumOf(f, S) <= PaidAmount[p]
    <2> HIDE DEF S, f
    <2> QED
      BY <1>5, <1>6, <1>7, <1>8
  <1>10. Ledger!Settled(p, SettledOrders \cup {r}) = SumOf(f, S)
    BY DEF Ledger!Settled, Ledger!SumOf, Ledger!MapThenSumSet, Ledger!MapThenFoldSet,
           SumOf, MapThenSumSet, MapThenFoldSet
  <1> QED
    BY <1>9, <1>10

\* A step that opens, settles and refuses nothing.
LEMMA LedgerStands ==
    ASSUME refund \in [Refunds -> RefundRow], refund' \in [Refunds -> RefundRow],
           \A r \in Refunds :
               \/ refund'[r] = refund[r]
               \/ /\ r \notin Written
                  /\ refund'[r].status \in {"none", "draft"}
               \/ /\ refund[r].status \in {"pending", "approved", "failed"}
                  /\ refund'[r].status \in {"pending", "approved", "failed"}
                  /\ refund'[r].amount = refund[r].amount
                  /\ refund'[r].payment = refund[r].payment
    PROVE  UNCHANGED Ledger!ledgerVars
  <1>1. Written' = Written
    BY DEF Written
  <1>2. \A r \in Written : /\ refund'[r].amount = refund[r].amount
                           /\ refund'[r].payment = refund[r].payment
    BY DEF Written
  <1>3. Opened' = Opened
    BY <1>1, <1>2 DEF Opened
  <1>4. SettledOrders' = SettledOrders /\ RefusedOrders' = RefusedOrders
    BY DEF SettledOrders, RefusedOrders, Written
  <1> QED
    BY <1>3, <1>4 DEF Ledger!ledgerVars

LEMMA LedgerStep ==
    ASSUME ChainInv, ChainInv', QuotaInv, RefundedWithinPayment, AmountInRange,
           [Next]_vars
    PROVE  [Ledger!LedgerNext]_(Ledger!ledgerVars)
  <1> USE DEF ChainInv, TypeOK, BusyNamesOrder, OneExecutor, Executing, SetStatus
  <1>1. ASSUME NEW c \in Callers, Insert(c)
        PROVE  Ledger!LedgerNext
    <2>1. PICK r \in Refunds : r = cur[c]
      BY <1>1 DEF Insert
    <2> DEFINE p == refund[r].payment
               a == refund[r].amount
    <2>2. refund[r].status = "draft" /\ p \in Payments /\ a \in 1..PaidAmount[p]
      BY <1>1, <2>1 DEF Insert, DraftIsPrivate, RowNamesPayment, AmountInRange
    <2>3. refund' = [refund EXCEPT ![r].status = "pending"]
      BY <1>1, <2>1 DEF Insert
    <2>4. r \in Refunds \ DOMAIN Opened /\ DOMAIN Opened = Written
      BY <2>2 DEF Opened, Written
    <2>5. Written' = Written \cup {r}
      BY <2>3 DEF Written
    <2>6. Opened' = [q \in DOMAIN Opened \cup {r} |->
                       IF q = r THEN [payment |-> p, amount |-> a] ELSE Opened[q]]
      BY <2>3, <2>4, <2>5 DEF Opened, Written, RefundRow
    <2>7. SettledOrders' = SettledOrders /\ RefusedOrders' = RefusedOrders
      BY <2>2, <2>3 DEF SettledOrders, RefusedOrders
    <2>8. Ledger!Open(r, p, a)
      BY <2>4, <2>6, <2>7 DEF Ledger!Open
    <2> QED
      BY <2>2, <2>8 DEF Ledger!LedgerNext
  <1>2. ASSUME NEW c \in Callers, LandCommit(c)
        PROVE  Ledger!LedgerNext
    <2>1. PICK r \in Refunds : r = cur[c]
      BY <1>2 DEF LandCommit
    <2>2. refund[r].status = "approved" /\ r \in held
      BY <1>2, <2>1 DEF LandCommit, HolderHolds, HoldingRequest
    <2>3. refund' = [refund EXCEPT ![r].status = "success"]
      BY <1>2, <2>1 DEF LandCommit
    <2>4. r \in Written \ (SettledOrders \cup RefusedOrders) /\ DOMAIN Opened = Written
      BY <2>2 DEF Opened, Written, SettledOrders, RefusedOrders
    <2>5. Opened[r].payment \in Payments
      BY <2>2, <2>4 DEF Opened, RowNamesPayment
    <2>6. Ledger!Settled(Opened[r].payment, SettledOrders \cup {r})
            <= PaidAmount[Opened[r].payment]
      BY <2>2, <2>4, <2>5, SettledWithinPayment
    <2>7. Written' = Written
      BY <2>2, <2>3 DEF Written
    <2>8. Opened' = Opened
      BY <2>3, <2>7 DEF Opened, Written, RefundRow
    <2>9. SettledOrders' = SettledOrders \cup {r} /\ RefusedOrders' = RefusedOrders
      BY <2>2, <2>3 DEF SettledOrders, RefusedOrders
    <2>10. Ledger!Settle(r)
      BY <2>4, <2>6, <2>8, <2>9 DEF Ledger!Settle
    <2> QED
      BY <2>10 DEF Ledger!LedgerNext
  <1>3. ASSUME NEW r \in Refunds, Reject(r)
        PROVE  Ledger!LedgerNext
    <2>1. r \in Written \ (SettledOrders \cup RefusedOrders) /\ DOMAIN Opened = Written
      BY <1>3 DEF Reject, Opened, Written, SettledOrders, RefusedOrders
    <2>2. Written' = Written
      BY <1>3 DEF Reject, Written
    <2>3. Opened' = Opened
      BY <1>3, <2>2 DEF Reject, Opened, Written, RefundRow
    <2>4. RefusedOrders' = RefusedOrders \cup {r} /\ SettledOrders' = SettledOrders
      BY <1>3 DEF Reject, SettledOrders, RefusedOrders
    <2>5. Ledger!Refuse(r)
      BY <2>1, <2>3, <2>4 DEF Ledger!Refuse
    <2> QED
      BY <2>5 DEF Ledger!LedgerNext
  <1>4. ASSUME NEW c \in Callers, NEW r \in Refunds, NEW p \in Payments,
               NEW m \in Modes, NEW a \in 1..PaidAmount[p], Draft(c, r, p, a, m)
        PROVE  UNCHANGED Ledger!ledgerVars
    BY <1>4, LedgerStands DEF Draft, Written
  <1>5. ASSUME NEW c \in Callers, Grab(c)
        PROVE  UNCHANGED Ledger!ledgerVars
    BY <1>5, LedgerStands DEF Grab, RefundRow
  <1>6. ASSUME NEW c \in Callers, MarkFailed(c)
        PROVE  UNCHANGED Ledger!ledgerVars
    BY <1>6, LedgerStands DEF MarkFailed, RefundRow
  <1>7. ASSUME NEW c \in Callers, Abort(c)
        PROVE  UNCHANGED Ledger!ledgerVars
    BY <1>7, LedgerStands DEF Abort, DraftIsPrivate, Written, Blank
  <1>8. CASE UNCHANGED refund
    BY <1>8, LedgerStands
  <1> QED
    BY <1>1, <1>2, <1>3, <1>4, <1>5, <1>6, <1>7, <1>8
    DEF Next, Step, Gates, Channel, Undo, Landing, vars, Approve, GrabMiss,
        Reserve, ReserveRefused, ChannelPays, ChannelAccepts, ChannelDeclines,
        ChannelRejects, ChannelAnswerLost, Release, Unreserve, LandRead, LandFails

\* Whatever the requests, retries, channel answers and failures, the refund
\* chain is a ledger: an order is opened once, ends at most once, and what is
\* settled for a payment never exceeds what the payment collected.
THEOREM ChainImplementsLedger == Spec => ImplementsLedger
  <1>1. Init => Ledger!LedgerInit
    <2> SUFFICES ASSUME Init PROVE Ledger!LedgerInit
      OBVIOUS
    <2>1. Written = {} /\ SettledOrders = {} /\ RefusedOrders = {}
      BY DEF Init, Blank, Written, SettledOrders, RefusedOrders
    <2>2. Opened = [r \in {} |-> 0]
      BY <2>1 DEF Opened
    <2> QED
      BY <2>1, <2>2 DEF Ledger!LedgerInit
  <1>2. Init => AmountInRange
    BY DEF Init, Blank, AmountInRange
  <1>3. ChainInv /\ AmountInRange /\ [Next]_vars => AmountInRange'
    BY AmountStep
  <1>4. ChainInv /\ ChainInv' /\ QuotaInv /\ RefundedWithinPayment /\ AmountInRange
          /\ [Next]_vars => [Ledger!LedgerNext]_(Ledger!ledgerVars)
    BY LedgerStep
  <1> QED
    BY <1>1, <1>2, <1>3, <1>4, ChainCorrect, QuotaCorrect,
       ChainRefundedWithinPayment, PTL
    DEF Spec, ImplementsLedger, Ledger!LedgerSpec
=============================================================================
