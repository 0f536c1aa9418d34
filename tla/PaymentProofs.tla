--------------------------- MODULE PaymentProofs ---------------------------
(***************************************************************************)
(* Theorems about a booking's money and about the online payment orders    *)
(* that bring it, each for every number of requests, payments and orders   *)
(* and every price and bound.                                              *)
(*                                                                         *)
(* BookingSettlement: what the locks of each path do guarantee under       *)
(* REPEATABLE READ; that a landing can miss another one is shown by a run, *)
(* not here.  PaymentLifecycle: DeliveredOnce and AckedIsBooked are not    *)
(* inductive, they rest on what a worker between two awaits remembers      *)
(* still being true, and Remembered says which part of it is.              *)
(***************************************************************************)
EXTENDS BookingSettlement, PaymentLifecycle, TLAPS

\* The holder of a lock is known by the place in its transaction.
LocksMatch ==
    \A w \in Workers :
        /\ custLock = w <=> pc[w] = "settling"
        /\ rowLock = w <=> pc[w] \in {"booked", "completing"}

\* A settling request holds the customer, so no landing commits after its
\* snapshot: the snapshot is still what was collected and returned.
SettlingSeesAll ==
    \A w \in Workers : pc[w] = "settling" =>
        /\ seen[w].collected = collected
        /\ seen[w].returned = returned

\* A landing sees an old state, but never more than what its commit makes true.
LandingSeesNoMore ==
    \A w \in Workers : pc[w] \in {"landing", "booked"} =>
        /\ job[w] \in Pays
        /\ seen[w].collected \subseteq collected \cup {job[w]}
        /\ seen[w].returned \subseteq
             returned \cup (IF job[w] \in collected THEN {job[w]} ELSE {})

\* What the counter derived last is derived from the rows as they are.
CounterIsFresh ==
    last = "counter" => /\ money.paid = collected
                        /\ money.back = returned
                        /\ money.base = payable

CompletingArrived == \A w \in Workers : pc[w] = "completing" => status = "arrived"

BookInv ==
    /\ TypeOK
    /\ LocksMatch
    /\ SettlingSeesAll
    /\ LandingSeesNoMore
    /\ CounterIsFresh
    /\ NeverOverstated
    /\ CompletingArrived
    /\ CompletedOnce

----------------------------------------------------------------------------

LEMMA SnapshotType == TypeOK => Snapshot \in Snapshots
  BY DEF TypeOK, Snapshot, Snapshots

\* What recalc writes, whatever the payments amount to.
LEMMA RecalcFields ==
    ASSUME NEW s \in Snapshots
    PROVE  /\ Recalc(s) \in [paid : SUBSET Pays, back : SUBSET Pays,
                             base : Nat, settled : BOOLEAN]
           /\ Recalc(s).paid = s.collected
           /\ Recalc(s).back = s.returned
           /\ Recalc(s).base = s.payable
  BY DEF Recalc, Snapshots

LEMMA BookInit == Init => BookInv
  <1> SUFFICES ASSUME Init PROVE BookInv
    OBVIOUS
  <1> USE SettlementAssumption DEF Init
  <1>1. TypeOK
    <2>1. payable \in Nat
      BY DEF AtLeastZero
    <2>2. NoSnapshot \in Snapshots
      BY DEF NoSnapshot, Snapshots
    <2>3. money \in [paid : SUBSET Pays, back : SUBSET Pays, base : Nat, settled : BOOLEAN]
      BY <2>1
    <2>4. status \in Statuses /\ visits \in Nat
      BY DEF Statuses
    <2>5. seen \in [Workers -> Snapshots]
      BY <2>2
    <2> QED
      BY <2>1, <2>3, <2>4, <2>5 DEF TypeOK
  <1>2. CounterIsFresh /\ NeverOverstated
    BY DEF CounterIsFresh, NeverOverstated
  <1>3. LocksMatch /\ SettlingSeesAll /\ LandingSeesNoMore
    BY DEF LocksMatch, SettlingSeesAll, LandingSeesNoMore
  <1>4. CompletingArrived /\ CompletedOnce
    BY DEF CompletingArrived, CompletedOnce
  <1> QED
    BY <1>1, <1>2, <1>3, <1>4 DEF BookInv

LEMMA BookStep == BookInv /\ [Next]_vars => BookInv'
  <1> SUFFICES ASSUME BookInv, [Next]_vars PROVE BookInv'
    OBVIOUS
  <1> USE SettlementAssumption DEF BookInv, TypeOK, LocksMatch, SettlingSeesAll,
          LandingSeesNoMore, CounterIsFresh, NeverOverstated, CompletingArrived,
          CompletedOnce, Goto, Done, Statuses, Final, priceVars, bookVars,
          payVars, workVars, lockVars
  <1>1. ASSUME NEW w \in Workers, NEW p \in Pays \cup {NoPay}, SettleRead(w, p)
        PROVE  BookInv'
    BY <1>1 DEF SettleRead
  <1>2. ASSUME NEW w \in Workers, SettleBegin(w)
        PROVE  BookInv'
    <2>1. Snapshot \in Snapshots
      BY SnapshotType
    <2>2. Snapshot.collected = collected /\ Snapshot.returned = returned
      BY DEF Snapshot
    <2> QED
      BY <1>2, <2>1, <2>2 DEF SettleBegin
  <1>3. ASSUME NEW w \in Workers, SettleCommit(w)
        PROVE  BookInv'
    <2> DEFINE new == {job[w]} \cap (Pays \ Online)
               s == [seen[w] EXCEPT !.collected = @ \cup new,
                                    !.payable = quote[w],
                                    !.settled = money.settled]
    <2>1. /\ s \in Snapshots
          /\ s.collected = collected \cup new
          /\ s.returned = returned
          /\ s.payable = quote[w]
      <3>1. /\ seen[w] \in Snapshots
            /\ seen[w].collected = collected
            /\ seen[w].returned = returned
            /\ quote[w] \in Nat /\ money.settled \in BOOLEAN
        BY <1>3 DEF SettleCommit
      <3>2. new \subseteq Pays
        OBVIOUS
      <3> HIDE DEF new
      <3>3. /\ s \in [collected : SUBSET Pays, returned : SUBSET Pays,
                     payable : Nat, settled : BOOLEAN]
            /\ s.collected = seen[w].collected \cup new
            /\ s.returned = seen[w].returned
            /\ s.payable = quote[w]
        BY <3>1, <3>2 DEF Snapshots
      <3> HIDE DEF s
      <3> QED
        BY <3>1, <3>3 DEF Snapshots
    <2>2. /\ money' \in [paid : SUBSET Pays, back : SUBSET Pays,
                         base : Nat, settled : BOOLEAN]
          /\ money'.paid = collected'
          /\ money'.back = returned'
          /\ money'.base = payable'
      BY <1>3, <2>1, RecalcFields DEF SettleCommit
    <2>3. NoSnapshot \in Snapshots
      BY DEF NoSnapshot, Snapshots
    <2>4. TypeOK'
      BY <1>3, <2>2, <2>3 DEF SettleCommit
    <2>5. /\ collected \subseteq collected'
          /\ returned' = returned
          /\ \A v \in Workers \ {w} :
               pc[v] # "settling" /\ pc'[v] = pc[v] /\ job'[v] = job[v] /\ seen'[v] = seen[v]
          /\ pc'[w] = "idle"
      BY <1>3 DEF SettleCommit
    <2>6. LocksMatch' /\ SettlingSeesAll'
      BY <1>3, <2>5 DEF SettleCommit
    <2>7. LandingSeesNoMore'
      BY <2>5
    <2>8. CounterIsFresh' /\ NeverOverstated' /\ CompletingArrived' /\ CompletedOnce'
      BY <1>3, <2>2, <2>5 DEF SettleCommit
    <2> QED
      BY <2>4, <2>6, <2>7, <2>8
  <1>4. ASSUME NEW w \in Workers, NEW p \in Pays, LandRead(w, p)
        PROVE  BookInv'
    <2>1. Snapshot \in Snapshots
      BY SnapshotType
    <2>2. /\ seen'[w] \in Snapshots
          /\ seen'[w].collected \subseteq collected \cup {p}
          /\ seen'[w].returned \subseteq
               returned \cup (IF p \in collected THEN {p} ELSE {})
      BY <1>4, <2>1 DEF LandRead, Snapshot, Snapshots
    <2> QED
      BY <1>4, <2>2 DEF LandRead
  <1>5. ASSUME NEW w \in Workers, LandWrite(w)
        PROVE  BookInv'
    BY <1>5 DEF LandWrite
  <1>6. ASSUME NEW w \in Workers, LandCommit(w)
        PROVE  BookInv'
    <2>1. /\ money' \in [paid : SUBSET Pays, back : SUBSET Pays,
                         base : Nat, settled : BOOLEAN]
          /\ money'.paid = seen[w].collected
          /\ money'.back = seen[w].returned
      BY <1>6, RecalcFields DEF LandCommit
    <2>2. NoSnapshot \in Snapshots
      BY DEF NoSnapshot, Snapshots
    <2>3. /\ job[w] \in Pays
          /\ collected' = collected \cup {job[w]}
          /\ returned' = IF job[w] \in collected THEN returned \cup {job[w]} ELSE returned
      BY <1>6 DEF LandCommit
    <2>4. TypeOK'
      BY <1>6, <2>1, <2>2, <2>3 DEF LandCommit
    <2>5. NeverOverstated' /\ CounterIsFresh' /\ CompletedOnce'
      BY <1>6, <2>1, <2>3 DEF LandCommit
    <2>6. /\ \A v \in Workers \ {w} :
               pc'[v] = pc[v] /\ job'[v] = job[v] /\ seen'[v] = seen[v]
          /\ pc'[w] = "idle"
          /\ \A v \in Workers : pc[v] # "settling"
      BY <1>6 DEF LandCommit
    <2>7. LocksMatch' /\ SettlingSeesAll' /\ CompletingArrived'
      BY <1>6, <2>6 DEF LandCommit
    <2>8. LandingSeesNoMore'
      BY <2>3, <2>6
    <2> QED
      BY <2>4, <2>5, <2>7, <2>8
  <1>7. ASSUME NEW m \in Moves, Move(m)
        PROVE  BookInv'
    BY <1>7 DEF Move, Moves
  <1>8. ASSUME NEW w \in Workers, CompleteLock(w)
        PROVE  BookInv'
    BY <1>8 DEF CompleteLock
  <1>9. ASSUME NEW w \in Workers, CompleteCommit(w)
        PROVE  BookInv'
    <2>1. NoSnapshot \in Snapshots
      BY DEF NoSnapshot, Snapshots
    <2> QED
      BY <1>9, <2>1 DEF CompleteCommit
  <1>10. ASSUME NEW w \in Workers, NEW q \in Quotes, RescheduleRead(w, q)
        PROVE  BookInv'
    BY <1>10 DEF RescheduleRead
  <1>11. ASSUME NEW w \in Workers, RescheduleCommit(w)
        PROVE  BookInv'
    <2> DEFINE s == [Snapshot EXCEPT !.payable = payable']
    <2>1. NoSnapshot \in Snapshots
      BY DEF NoSnapshot, Snapshots
    <2>2. payable' \in Nat
      BY <1>11 DEF RescheduleCommit
    <2>3. /\ s \in Snapshots
          /\ s.collected = collected /\ s.returned = returned /\ s.payable = payable'
      BY <2>2, SnapshotType DEF Snapshot, Snapshots
    <2>4. /\ money' \in [paid : SUBSET Pays, back : SUBSET Pays,
                         base : Nat, settled : BOOLEAN]
          /\ money'.paid = collected
          /\ money'.back = returned
          /\ money'.base = payable'
      BY <1>11, <2>3, RecalcFields DEF RescheduleCommit
    <2> QED
      BY <1>11, <2>1, <2>2, <2>4 DEF RescheduleCommit
  <1>12. CASE Recount
    <2>1. /\ Snapshot \in Snapshots
          /\ Snapshot.collected = collected /\ Snapshot.returned = returned
          /\ Snapshot.payable = payable
      BY SnapshotType DEF Snapshot
    <2>2. /\ money' \in [paid : SUBSET Pays, back : SUBSET Pays,
                         base : Nat, settled : BOOLEAN]
          /\ money'.paid = collected
          /\ money'.back = returned
          /\ money'.base = payable
      BY <1>12, <2>1, RecalcFields DEF Recount
    <2> QED
      BY <1>12, <2>2 DEF Recount
  <1>13. ASSUME NEW w \in Workers, RemoveRead(w)
        PROVE  BookInv'
    BY <1>13 DEF RemoveRead
  <1>14. ASSUME NEW w \in Workers, RemoveCommit(w)
        PROVE  BookInv'
    <2>1. NoSnapshot \in Snapshots
      BY DEF NoSnapshot, Snapshots
    <2> QED
      BY <1>14, <2>1 DEF RemoveCommit
  <1>16. ASSUME NEW w \in Workers, Rollback(w)
        PROVE  BookInv'
    <2>1. NoSnapshot \in Snapshots
      BY DEF NoSnapshot, Snapshots
    <2>2. TypeOK'
      BY <1>16, <2>1 DEF Rollback
    <2>3. /\ \A v \in Workers \ {w} :
               pc'[v] = pc[v] /\ job'[v] = job[v] /\ seen'[v] = seen[v]
          /\ pc'[w] = "idle"
          /\ UNCHANGED <<bookVars, payVars, priceVars, money, last>>
      BY <1>16 DEF Rollback
    <2>4. LocksMatch'
      BY <1>16, <2>3 DEF Rollback
    <2>5. SettlingSeesAll' /\ LandingSeesNoMore' /\ CompletingArrived'
      BY <2>3
    <2>6. CounterIsFresh' /\ NeverOverstated' /\ CompletedOnce'
      BY <2>3
    <2> QED
      BY <2>2, <2>4, <2>5, <2>6
  <1>15. CASE UNCHANGED vars
    BY <1>15 DEF vars
  <1> HIDE DEF BookInv
  <1> QED
    BY <1>1, <1>2, <1>3, <1>4, <1>5, <1>6, <1>7, <1>8, <1>9, <1>10, <1>11,
       <1>12, <1>13, <1>14, <1>15, <1>16 DEF Next, Work

THEOREM BookCorrect == Spec => []BookInv
  <1>1. BookInv /\ [Next]_vars => BookInv'
    BY BookStep
  <1> QED
    BY <1>1, BookInit, PTL DEF Spec

\* Type correctness of the booking, its payments and the requests.
THEOREM BookTypeOK == Spec => []TypeOK
  <1>1. BookInv => TypeOK
    BY DEF BookInv
  <1> QED
    BY <1>1, BookCorrect, PTL

\* recalc never books money that was not collected, from however old a snapshot.
THEOREM BookNeverOverstated == Spec => []NeverOverstated
  <1>1. BookInv => NeverOverstated
    BY DEF BookInv
  <1> QED
    BY <1>1, BookCorrect, PTL

\* Settling, rescheduling and recounting leave the derived columns exact.
THEOREM BookCounterIsExact == Spec => []CounterIsExact
  <1>1. BookInv => CounterIsExact
    BY DEF BookInv, CounterIsFresh, CounterIsExact, Formula, Due
  <1> QED
    BY <1>1, BookCorrect, PTL

\* runComplete and the completing job count a visit exactly once.
THEOREM BookCompletedOnce == Spec => []CompletedOnce
  <1>1. BookInv => CompletedOnce
    BY DEF BookInv
  <1> QED
    BY <1>1, BookCorrect, PTL

LEMMA FinalStep ==
    BookInv /\ [Next]_vars => [(status \in Final) => status' = status]_vars
  <1> SUFFICES ASSUME BookInv, [Next]_vars, status \in Final
               PROVE  status' = status
    OBVIOUS
  <1>1. ASSUME NEW m \in Moves PROVE ~Move(m)
    BY DEF Move, Moves, Final
  <1>2. ASSUME NEW w \in Workers PROVE ~CompleteCommit(w)
    BY DEF CompleteCommit, BookInv, CompletingArrived, Final
  <1>3. CASE Recount \/ UNCHANGED vars
    BY <1>3 DEF Recount, bookVars, vars
  <1>4. ASSUME NEW w \in Workers, Work(w)
        PROVE  status' = status
    BY <1>4, <1>2 DEF Work, SettleRead, SettleBegin, SettleCommit, LandRead,
       LandWrite, LandCommit, CompleteLock, RescheduleRead, RescheduleCommit,
       RemoveRead, RemoveCommit, Rollback, bookVars
  <1> QED
    BY <1>1, <1>3, <1>4 DEF Next

\* No request or job takes a booking out of a final status.
THEOREM BookFinalStays == Spec => FinalStays
  <1>1. BookInv /\ [Next]_vars => [(status \in Final) => status' = status]_vars
    BY FinalStep
  <1> QED
    BY <1>1, BookCorrect, PTL DEF Spec, FinalStays

----------------------------------------------------------------------------
(* The online payment order.                                               *)

BusyNamesOrder == \A w \in Processes : at[w] # "idle" => duty[w] \in Orders

\* What a worker remembers and what stays true of it while others run.
Remembered ==
    \A w \in Processes :
        /\ at[w] = "answered" /\ answer[w] = "paid" => ch[duty[w]] = "paid"
        /\ at[w] = "paying" => ch[duty[w]] = "paid" /\ duty[w] \in exact
        /\ at[w] = "replying" => row[duty[w]] \in Settled

\* The channel knows an order only after its row was written, and only speaks
\* of payments that happened.
ChannelSpeaksTrue ==
    \A p \in Orders :
        /\ row[p] = "none" => ch[p] = "none"
        /\ p \in exact => ch[p] = "paid"
        /\ mail[p] > 0 => ch[p] = "paid"
        /\ mail[p] <= sent[p]

\* The worker that landed a payment and has not sent its notice is the only
\* one, and no notice went out before.
NoticeDue ==
    \A w, v \in Processes :
        /\ won[w] => /\ at[w] = "replying"
                     /\ noticed[duty[w]] = 0
                     /\ delivered[duty[w]] = 1
        /\ (w # v /\ won[w] /\ won[v]) => duty[w] # duty[v]

LifeInv ==
    /\ LifeTypeOK
    /\ BusyNamesOrder
    /\ Remembered
    /\ ChannelSpeaksTrue
    /\ NoticeDue
    /\ DeliveredOnce
    /\ SuccessIsPaid
    /\ AckedIsBooked
    /\ NoticedAtMostOnce

----------------------------------------------------------------------------

LEMMA LifeStart ==
    ASSUME LifeInit
    PROVE  LifeInv
  BY LifecycleAssumption DEF LifeInit, LifeInv, LifeTypeOK, BusyNamesOrder,
     Remembered, ChannelSpeaksTrue, NoticeDue, DeliveredOnce, SuccessIsPaid,
     AckedIsBooked, NoticedAtMostOnce, Settled, SettleFrom

LEMMA LifeStep ==
    ASSUME LifeInv, [LifeNext]_lifeVars
    PROVE  LifeInv'
  <1> USE LifecycleAssumption DEF LifeInv, LifeTypeOK, BusyNamesOrder,
          Remembered, ChannelSpeaksTrue, NoticeDue, DeliveredOnce,
          SuccessIsPaid, AckedIsBooked, NoticedAtMostOnce, Settled, SettleFrom,
          Processes, Turn, Rest, Polled, channelVars, workerVars
  <1>1. ASSUME NEW p \in Orders, Create(p)
        PROVE  LifeInv'
    BY <1>1 DEF Create
  <1>2. ASSUME NEW p \in Orders, Expire(p)
        PROVE  LifeInv'
    BY <1>2 DEF Expire
  <1>3. ASSUME NEW p \in Orders, LeaveWindow(p)
        PROVE  LifeInv'
    BY <1>3 DEF LeaveWindow
  <1>4. ASSUME NEW p \in Orders, NEW e \in BOOLEAN, Pay(p, e)
        PROVE  LifeInv'
    BY <1>4 DEF Pay
  <1>5. ASSUME NEW p \in Orders, NEW s \in {"closed", "failed"}, ChannelEnds(p, s)
        PROVE  LifeInv'
    BY <1>5 DEF ChannelEnds
  <1>6. ASSUME NEW p \in Orders, SendNotify(p)
        PROVE  LifeInv'
    BY <1>6 DEF SendNotify
  <1>7. ASSUME NEW p \in Orders, LoseNotify(p)
        PROVE  LifeInv'
    BY <1>7 DEF LoseNotify
  <1>8. ASSUME NEW p \in Orders, CloseManually(p)
        PROVE  LifeInv'
    BY <1>8 DEF CloseManually
  <1>9. ASSUME NEW p \in Orders, RefundLands(p)
        PROVE  LifeInv'
    BY <1>9 DEF RefundLands
  <1>10. ASSUME NEW p \in Orders, JobQuery(p)
        PROVE  LifeInv'
    BY <1>10 DEF JobQuery
  <1>11. ASSUME NEW w \in Handlers, NEW p \in Orders, Notify(w, p)
        PROVE  LifeInv'
    <2>1. LifeTypeOK'
      <3>1. mail' \in [Orders -> 0..MaxNotify]
        BY <1>11 DEF Notify
      <3>2. CASE p \in exact
        <4>1. Turn(w, "paying", p, "notify", "paid", FALSE)
          BY <1>11, <3>2 DEF Notify
        <4>2. UNCHANGED <<row, age, ch, exact, sent, acked, delivered, noticed,
                          polled, closing, faults>>
          BY <1>11 DEF Notify
        <4> HIDE DEF Turn
        <4>3. /\ at' \in [Processes -> {"idle", "asking", "answered", "paying", "replying"}]
              /\ duty' \in [Processes -> Orders \cup {NoOrder}]
              /\ source' \in [Processes -> {"notify", "query"}]
              /\ answer' \in [Processes -> {"none", "open", "paid", "closed", "failed"}]
              /\ won' \in [Processes -> BOOLEAN]
          BY <4>1 DEF Turn
        <4> QED
          BY <3>1, <4>2, <4>3
      <3>3. CASE p \notin exact
        BY <1>11, <3>1, <3>3 DEF Notify
      <3> QED
        BY <3>2, <3>3
    <2>2. BusyNamesOrder'
      BY <1>11 DEF Notify
    <2>3. Remembered'
      BY <1>11 DEF Notify
    <2>4. ChannelSpeaksTrue'
      BY <1>11 DEF Notify
    <2>5. NoticeDue'
      BY <1>11 DEF Notify
    <2>6. DeliveredOnce'
      BY <1>11 DEF Notify
    <2>7. SuccessIsPaid'
      BY <1>11 DEF Notify
    <2>8. AckedIsBooked'
      BY <1>11 DEF Notify
    <2>9. NoticedAtMostOnce'
      BY <1>11 DEF Notify
    <2> QED
      BY <2>1, <2>2, <2>3, <2>4, <2>5, <2>6, <2>7, <2>8, <2>9
  <1>12. ASSUME NEW w \in Handlers, NEW p \in Orders, ManualQuery(w, p)
        PROVE  LifeInv'
    BY <1>12 DEF ManualQuery
  <1>13. ASSUME NEW w \in Processes, Ask(w)
        PROVE  LifeInv'
    BY <1>13 DEF Ask
  <1>14. ASSUME NEW w \in Processes, Apply(w)
        PROVE  LifeInv'
    BY <1>14 DEF Apply
  <1>15. ASSUME NEW w \in Processes, ApplyPaid(w)
        PROVE  LifeInv'
    BY <1>15 DEF ApplyPaid
  <1>16. ASSUME NEW w \in Processes, Settle(w)
        PROVE  LifeInv'
    BY <1>16 DEF Settle
  <1>17. ASSUME NEW w \in Processes, SettleMiss(w)
        PROVE  LifeInv'
    BY <1>17 DEF SettleMiss
  <1>18. ASSUME NEW w \in Processes, NEW arrives \in BOOLEAN, Reply(w, arrives)
        PROVE  LifeInv'
    BY <1>18 DEF Reply
  <1>19. ASSUME NEW w \in Processes, RequestFails(w)
        PROVE  LifeInv'
    BY <1>19 DEF RequestFails
  <1>20. CASE CloseRead
    BY <1>20 DEF CloseRead
  <1>21. CASE CloseCommit
    BY <1>21 DEF CloseCommit
  <1>22. CASE Restart
    BY <1>22 DEF Restart
  <1>23. CASE UNCHANGED lifeVars
    BY <1>23 DEF lifeVars
  <1> HIDE DEF LifeInv
  <1> QED
    BY <1>1, <1>2, <1>3, <1>4, <1>5, <1>6, <1>7, <1>8, <1>9, <1>10, <1>11,
       <1>12, <1>13, <1>14, <1>15, <1>16, <1>17, <1>18, <1>19, <1>20, <1>21,
       <1>22, <1>23 DEF LifeNext, Serve, Environment

THEOREM LifeCorrect == LifeSpec => []LifeInv
  <1>1. LifeInv /\ [LifeNext]_lifeVars => LifeInv'
    BY LifeStep
  <1> QED
    BY <1>1, LifeStart, PTL DEF LifeSpec

\* Type correctness of rows, channel, notifications and workers.
THEOREM LifeTypeCorrect == LifeSpec => []LifeTypeOK
  <1>1. LifeInv => LifeTypeOK
    BY DEF LifeInv
  <1> QED
    BY <1>1, LifeCorrect, PTL

\* settlePayment delivers a collected payment exactly once, for any number of
\* concurrent, repeated and late callbacks and queries.
THEOREM LifeDeliveredOnce == LifeSpec => []DeliveredOnce
  <1>1. LifeInv => DeliveredOnce
    BY DEF LifeInv
  <1> QED
    BY <1>1, LifeCorrect, PTL

\* A row says success only for a payment of its own amount at the channel.
THEOREM LifeSuccessIsPaid == LifeSpec => []SuccessIsPaid
  <1>1. LifeInv => SuccessIsPaid
    BY DEF LifeInv
  <1> QED
    BY <1>1, LifeCorrect, PTL

\* The channel is told to stop repeating only what is in the books.
THEOREM LifeAckedIsBooked == LifeSpec => []AckedIsBooked
  <1>1. LifeInv => AckedIsBooked
    BY DEF LifeInv
  <1> QED
    BY <1>1, LifeCorrect, PTL

\* The paid notice goes out at most once, after the landing.
THEOREM LifeNoticedAtMostOnce == LifeSpec => []NoticedAtMostOnce
  <1>1. LifeInv => NoticedAtMostOnce
    BY DEF LifeInv
  <1> QED
    BY <1>1, LifeCorrect, PTL

LEMMA SettledStep ==
    ASSUME LifeInv, [LifeNext]_lifeVars, NEW p \in Orders
    PROVE  /\ row[p] \in Settled => row'[p] \in Settled
           /\ row[p] = "refunded" => row'[p] = "refunded"
  <1> DEFINE Stays == /\ row[p] \in Settled => row'[p] \in Settled
                      /\ row[p] = "refunded" => row'[p] = "refunded"
  <1> SUFFICES Stays
    OBVIOUS
  <1> USE DEF LifeInv, LifeTypeOK, Settled, SettleFrom
  <1>1. ASSUME NEW q \in Orders, Create(q) PROVE Stays
    BY <1>1 DEF Create
  <1>2. ASSUME NEW q \in Orders, CloseManually(q) PROVE Stays
    BY <1>2 DEF CloseManually
  <1>3. ASSUME NEW q \in Orders, RefundLands(q) PROVE Stays
    BY <1>3 DEF RefundLands
  <1>4. ASSUME NEW w \in Processes, Apply(w) PROVE Stays
    BY <1>4 DEF Apply
  <1>5. ASSUME NEW w \in Processes, Settle(w) PROVE Stays
    BY <1>5 DEF Settle
  <1>6. CASE CloseCommit
    BY <1>6 DEF CloseCommit
  <1>7. CASE UNCHANGED row
    BY <1>7
  <1> HIDE DEF Stays, LifeInv, LifeTypeOK, Settled, SettleFrom
  <1>8. CASE \E q \in Orders : Environment(q) \/ JobQuery(q)
    BY <1>8, <1>1, <1>2, <1>3, <1>7 DEF Environment, Expire, LeaveWindow, Pay,
       ChannelEnds, SendNotify, LoseNotify, JobQuery
  <1>9. CASE \E w \in Processes : Serve(w) \/ RequestFails(w)
    BY <1>9, <1>4, <1>5, <1>7 DEF Serve, Ask, ApplyPaid, SettleMiss, Reply,
       RequestFails
  <1>10. CASE \/ \E w \in Handlers, q \in Orders :
                    Notify(w, q) \/ ManualQuery(w, q)
              \/ CloseRead \/ CloseCommit \/ Restart
    BY <1>10, <1>6, <1>7 DEF Notify, ManualQuery, CloseRead, Restart
  <1>11. CASE UNCHANGED lifeVars
    BY <1>11, <1>7 DEF lifeVars
  <1> QED
    BY <1>8, <1>9, <1>10, <1>11 DEF LifeNext

\* No answer, callback or closing job takes a collected payment back.
THEOREM LifeSettledStays == LifeSpec => SettledStays
  <1>1. LifeInv /\ [LifeNext]_lifeVars =>
          [\A p \in Orders :
             /\ row[p] \in Settled => row'[p] \in Settled
             /\ row[p] = "refunded" => row'[p] = "refunded"]_lifeVars
    BY SettledStep
  <1> QED
    BY <1>1, LifeCorrect, PTL DEF LifeSpec, SettledStays
============================================================================
