-------------------------- MODULE OperationsProofs --------------------------
(***************************************************************************)
(* Theorems about what runs on its own: a recurring-booking rule, the      *)
(* scheduler of the jobs and the notices; for any number of requests,      *)
(* days, jobs, runs, rows and failures.                                    *)
(***************************************************************************)
EXTENDS Recurrences, Jobs, Notices, WellFoundedInduction, TLAPS

\* A run that inserts is still within its window; a revocation goes back to
\* the eve of the first booking it listed.
CallsMatch ==
    \A r \in Runners :
        /\ call[r].op = "insert" => call[r].day <= call[r].last
        /\ call[r].op \in {"look", "insert"} => call[r].day >= 1
        /\ call[r].op = "revoke" =>
              \A i \in call[r].ids : i \in Ids /\ call[r].from <= rows[i].day
        /\ call[r].op = "delete" => call[r].id \in Ids

\* The unique index (recurrence_id, start_at).
StartsDiffer ==
    \A i, j \in Ids : rows[i].linked /\ rows[j].linked /\ i # j =>
        <<rows[i].day, rows[i].time>> # <<rows[j].day, rows[j].time>>

\* Only revoking, which deletes, and the deletion of the rule unlink; what is
\* deleted by hand stays linked.
LiveIsLinked == ~rule.deleted => \A i \in Live : rows[i].linked

\* What a run has passed is accounted for, unless a revocation overtook it.
RunsAccount ==
    ~rule.deleted /\ ~lost =>
        \A r \in Runners : call[r].op \in {"look", "insert"} /\ ~call[r].overtaken =>
            \A d \in today..(call[r].day - 1) : Accounted(d)

IInv ==
    /\ TypeOK
    /\ CallsMatch
    /\ StartsDiffer
    /\ LiveIsLinked
    /\ PaidIsKept
    /\ CursorAccounts
    /\ RunsAccount

-----------------------------------------------------------------------------
(* Sequences and calls                                                     *)

LEMMA RowsType ==
    ASSUME TypeOK
    PROVE  /\ Len(rows) \in Nat /\ DOMAIN rows = Ids
           /\ \A i \in Ids : rows[i] \in Bookings
  BY DEF TypeOK, Ids

\* A sequence of the same length whose entries are bookings.
LEMMA SameLength ==
    ASSUME TypeOK, NEW s, s = [i \in Ids |-> s[i]],
           \A i \in Ids : s[i] \in Bookings
    PROVE  s \in Seq(Bookings) /\ Len(s) = Len(rows)
  <1>1. Len(rows) \in Nat
    BY RowsType
  <1>2. s \in [1..Len(rows) -> Bookings]
    BY DEF Ids
  <1> QED
    BY <1>1, <1>2

\* The kinds of call are told apart by op.
LEMMA CallKinds ==
    ASSUME TypeOK, NEW r \in Runners
    PROVE  /\ call[r].op \in {"look", "insert"} =>
                call[r] \in [op : {"look", "insert"}, day : Nat, last : Days,
                             time : Times, overtaken : BOOLEAN]
           /\ call[r].op = "revoke" =>
                call[r] \in [op : {"revoke"}, ids : SUBSET Nat, from : Days]
           /\ call[r].op = "change" => call[r] \in [op : {"change"}, to : Changes]
           /\ call[r].op = "delete" => call[r] \in [op : {"delete"}, id : Nat]
  <1>1. call[r] \in Calls
    BY DEF TypeOK
  <1> QED
    BY <1>1 DEF Calls

LEMMA IdleIsCall == Idle \in Calls
  BY DEF Idle, Calls

-----------------------------------------------------------------------------
LEMMA InitInv == Init => IInv
  <1> SUFFICES ASSUME Init PROVE IInv
    OBVIOUS
  <1> USE RecurrencesAssumption DEF Init
  <1>1. TypeOK
    <2>1. rule \in [status : Statuses, time : Times, end : Days, window : 0..Window,
                    until : 0..LastDay, deleted : BOOLEAN]
      BY DEF Statuses, Days
    <2>2. rows \in Seq(Bookings)
      OBVIOUS
    <2>3. call \in [Runners -> Calls]
      BY IdleIsCall
    <2>4. today \in Days /\ disturbed \in 0..MaxDisturbed
      BY DEF Days
    <2>5. skipped \subseteq Days /\ lost \in BOOLEAN /\ late \subseteq Nat
      OBVIOUS
    <2> HIDE DEF Init
    <2> QED
      BY <2>1, <2>2, <2>3, <2>4, <2>5 DEF TypeOK
  <1>2. Ids = {}
    BY DEF Ids
  <1> QED
    BY <1>1, <1>2 DEF IInv, CallsMatch, StartsDiffer, LiveIsLinked, Live, Deleted,
       PaidIsKept, CursorAccounts, RunsAccount, Idle

LEMMA GenReadInv ==
    ASSUME IInv, NEW r \in Runners, GenRead(r)
    PROVE  IInv'
  <1> USE DEF GenRead
  <1> DEFINE c == [op |-> "look", day |-> WindowStart, last |-> WindowEnd,
                   time |-> rule.time, overtaken |-> FALSE]
  <1>1. /\ today \in Days /\ rule.until \in 0..LastDay /\ rule.end \in Days
        /\ rule.window \in 0..Window
        /\ rule.time \in Times /\ LastDay \in Nat /\ Window \in Nat
    BY RecurrencesAssumption DEF IInv, TypeOK
  <1>2. /\ WindowStart \in Nat /\ WindowStart >= 1 /\ WindowEnd \in Days
        /\ WindowStart = today \/ WindowStart = rule.until + 1
    BY <1>1 DEF WindowStart, WindowEnd, Earlier, Later, Days
  <1>3. c \in Calls
    BY <1>1, <1>2 DEF Calls
  <1>4. call' = [call EXCEPT ![r] = c] /\ call \in [Runners -> Calls]
    BY DEF IInv, TypeOK
  <1>5. TypeOK'
    BY <1>3, <1>4 DEF IInv, TypeOK
  <1>6. CallsMatch'
    BY <1>2, <1>4 DEF IInv, CallsMatch, Ids
  <1>7. /\ StartsDiffer' /\ LiveIsLinked' /\ PaidIsKept' /\ CursorAccounts'
    BY DEF IInv, StartsDiffer, LiveIsLinked, PaidIsKept, CursorAccounts, Ids,
       Live, Deleted, Accounted
  <1>8. RunsAccount'
    <2> SUFFICES ASSUME ~rule.deleted, ~lost, NEW q \in Runners,
                        call'[q].op \in {"look", "insert"}, ~call'[q].overtaken,
                        NEW d \in today..(call'[q].day - 1)
                 PROVE  Accounted(d)
      BY DEF RunsAccount, Accounted, Ids
    <2>1. CASE q # r
      BY <2>1, <1>4 DEF IInv, RunsAccount
    <2>2. CASE q = r
      <3>1. call'[q].day = WindowStart
        BY <2>2, <1>4
      <3>2. d \in today..rule.until
        BY <3>1, <1>1, <1>2 DEF Days
      <3> QED
        BY <3>2 DEF IInv, CursorAccounts
    <2> QED
      BY <2>1, <2>2
  <1> QED
    BY <1>5, <1>6, <1>7, <1>8 DEF IInv

LEMMA GenLookInv ==
    ASSUME IInv, NEW r \in Runners, GenLook(r)
    PROVE  IInv'
  <1> USE DEF GenLook
  <1>1. /\ call \in [Runners -> Calls] /\ skipped \subseteq Days /\ today \in Days
        /\ call[r] \in [op : {"look", "insert"}, day : Nat, last : Days,
                         time : Times, overtaken : BOOLEAN]
    BY CallKinds DEF IInv, TypeOK
  <1>2. call[r].day \in Days
    BY <1>1, RecurrencesAssumption DEF IInv, CallsMatch, Days
  <1>3. /\ call'[r] \in Calls /\ call'[r].last = call[r].last
        /\ call'[r].overtaken = call[r].overtaken
        /\ \A q \in Runners \ {r} : call'[q] = call[q]
        /\ call' \in [Runners -> Calls]
    BY <1>1 DEF NextDay, Calls
  <1>4. /\ call'[r].op = "insert" => call'[r].day = call[r].day
        /\ call'[r].op # "insert" =>
              /\ call'[r].op = "look" /\ call'[r].day = call[r].day + 1
              /\ \A d : d = call[r].day => Accounted(d)'
    BY <1>1, <1>2 DEF NextDay, Accounted, Linked, Ids
  <1>5. skipped \subseteq skipped' /\ skipped' \subseteq Days
    BY <1>1, <1>2
  <1>6. TypeOK'
    BY <1>3, <1>5 DEF IInv, TypeOK
  <1>7. CallsMatch'
    BY <1>1, <1>2, <1>3, <1>4 DEF IInv, CallsMatch, Ids, Days
  <1>8. \A d : Accounted(d) => Accounted(d)'
    BY <1>5 DEF Accounted, Ids
  <1>9. call[r].op = "look" /\ UNCHANGED <<rule, rows, today, lost, late>>
    OBVIOUS
  <1> HIDE DEF GenLook
  <1>10. /\ StartsDiffer' /\ LiveIsLinked' /\ PaidIsKept' /\ CursorAccounts'
    BY <1>8, <1>9 DEF IInv, StartsDiffer, LiveIsLinked, PaidIsKept,
       CursorAccounts, Ids, Live, Deleted
  <1>11. RunsAccount'
    <2> SUFFICES ASSUME ~rule.deleted, ~lost, NEW q \in Runners,
                        call'[q].op \in {"look", "insert"}, ~call'[q].overtaken,
                        NEW d \in today..(call'[q].day - 1)
                 PROVE  Accounted(d)'
      BY <1>9 DEF RunsAccount
    <2>1. CASE q # r
      BY <2>1, <1>3, <1>8 DEF IInv, RunsAccount
    <2>2. CASE q = r
      <3>1. d \in today..(call[r].day - 1) \/ (d = call[r].day /\ call'[r].op # "insert")
        BY <2>2, <1>1, <1>4 DEF Days
      <3>2. call[r].op = "look" /\ ~call[r].overtaken
        BY <2>2, <1>3, <1>9
      <3>3. CASE d \in today..(call[r].day - 1)
        <4>1. Accounted(d)
          BY <3>2, <3>3 DEF IInv, RunsAccount
        <4> QED
          BY <4>1, <1>8
      <3>4. CASE d = call[r].day /\ call'[r].op # "insert"
        BY <3>4, <1>4
      <3> QED
        BY <3>1, <3>3, <3>4
    <2> QED
      BY <2>1, <2>2
  <1> QED
    BY <1>6, <1>7, <1>10, <1>11 DEF IInv

\* GenInsert either finds the start taken or appends one that is not.
LEMMA GenInsertInv ==
    ASSUME IInv, NEW r \in Runners, GenInsert(r)
    PROVE  IInv'
  <1> DEFINE b == Booking(call[r].day, call[r].time)
             n == Len(rows)
  <1>1. /\ call \in [Runners -> Calls] /\ today \in Days /\ LastDay \in Nat
        /\ call[r] \in [op : {"look", "insert"}, day : Nat, last : Days,
                         time : Times, overtaken : BOOLEAN]
    BY CallKinds, RecurrencesAssumption DEF IInv, TypeOK, GenInsert
  <1>2. call[r].day \in Days /\ call[r].op = "insert"
    BY <1>1 DEF IInv, CallsMatch, Days, GenInsert
  <1>3. /\ call'[r].op = "look" /\ call'[r].day = call[r].day + 1
        /\ call'[r] \in Calls /\ call'[r].last = call[r].last
        /\ call'[r].overtaken = call[r].overtaken
        /\ \A q \in Runners \ {r} : call'[q] = call[q]
        /\ call' \in [Runners -> Calls]
    BY <1>1 DEF NextDay, Calls, GenInsert
  <1>4. b \in Bookings
    BY <1>1, <1>2 DEF Booking, Bookings
  <1>5. /\ n \in Nat /\ rows \in Seq(Bookings) /\ Ids = 1..n
    BY RowsType DEF IInv, TypeOK, Ids
  <1>6. UNCHANGED <<rule, today, skipped, lost, late, disturbed>>
    BY DEF GenInsert
  <1>7. \/ rows' = rows /\ Linked(call[r].day, call[r].time)
        \/ /\ rows' = Append(rows, b) /\ ~Linked(call[r].day, call[r].time)
           /\ Len(rows') = n + 1 /\ rows'[n + 1] = b
           /\ \A i \in Ids : rows'[i] = rows[i]
    BY <1>4, <1>5 DEF GenInsert
  <1>8. /\ rows' \in Seq(Bookings)
        /\ \A i \in Ids : i \in Ids' /\ rows'[i] = rows[i]
        /\ \A i \in Ids' : i \in Ids \/ (i = n + 1 /\ rows'[i] = b
                                        /\ ~Linked(call[r].day, call[r].time))
    <2>1. CASE rows' = rows
      BY <2>1, <1>5 DEF Ids
    <2>2. CASE rows' # rows
      <3>1. Ids' = 1..(n + 1)
        BY <2>2, <1>7 DEF Ids
      <3>2. rows' \in Seq(Bookings)
        BY <2>2, <1>4, <1>5, <1>7
      <3> HIDE DEF b
      <3> QED
        BY <2>2, <1>5, <1>7, <3>1, <3>2
    <2> QED
      BY <2>1, <2>2
  <1>9. TypeOK'
    BY <1>6, <1>3, <1>8 DEF IInv, TypeOK
  <1>10. CallsMatch'
    BY <1>1, <1>2, <1>3, <1>8 DEF IInv, CallsMatch, Days
  <1>11. b.linked /\ b.day = call[r].day /\ b.time = call[r].time /\ b.pay = "unpaid"
    BY DEF Booking
  <1> HIDE DEF b
  <1>12. StartsDiffer'
    <2> SUFFICES ASSUME NEW i \in Ids', NEW j \in Ids',
                        rows'[i].linked, rows'[j].linked, i # j,
                        rows'[i].day = rows'[j].day, rows'[i].time = rows'[j].time
                 PROVE  FALSE
      BY DEF StartsDiffer
    <2>1. CASE i \in Ids /\ j \in Ids
      BY <2>1, <1>8 DEF IInv, StartsDiffer
    <2>2. CASE i \in Ids /\ j \notin Ids
      BY <2>2, <1>8, <1>11 DEF Linked
    <2>3. CASE i \notin Ids /\ j \in Ids
      BY <2>3, <1>8, <1>11 DEF Linked
    <2> QED
      BY <2>1, <2>2, <2>3, <1>8
  <1>13. LiveIsLinked' /\ PaidIsKept'
    BY <1>6, <1>8, <1>11 DEF IInv, LiveIsLinked, PaidIsKept, Live, Deleted
  <1>14. \A d : Accounted(d) => Accounted(d)'
    BY <1>6, <1>8 DEF Accounted
  <1>15. CursorAccounts'
    BY <1>6, <1>14 DEF IInv, CursorAccounts
  <1>16. \A d : d = call[r].day => Accounted(d)'
    <2>1. CASE rows' = rows
      BY <2>1, <1>7, <1>8, <1>11 DEF Accounted, Linked
    <2>2. CASE rows' # rows
      <3>1. n + 1 \in Ids'
        BY <2>2, <1>5, <1>7 DEF Ids
      <3> QED
        BY <2>2, <1>7, <1>11, <3>1 DEF Accounted
    <2> QED
      BY <2>1, <2>2
  <1>17. RunsAccount'
    <2> SUFFICES ASSUME ~rule.deleted, ~lost, NEW q \in Runners,
                        call'[q].op \in {"look", "insert"}, ~call'[q].overtaken,
                        NEW d \in today..(call'[q].day - 1)
                 PROVE  Accounted(d)'
      BY <1>6 DEF RunsAccount
    <2>1. CASE q # r
      BY <2>1, <1>3, <1>14 DEF IInv, RunsAccount
    <2>2. CASE q = r
      <3>1. d \in today..(call[r].day - 1) \/ d = call[r].day
        BY <2>2, <1>1, <1>3 DEF Days
      <3>2. d \in today..(call[r].day - 1) => Accounted(d)
        BY <2>2, <1>2, <1>3 DEF IInv, RunsAccount
      <3> QED
        BY <3>1, <3>2, <1>14, <1>16
    <2> QED
      BY <2>1, <2>2
  <1> QED
    BY <1>9, <1>10, <1>12, <1>13, <1>15, <1>17 DEF IInv

LEMMA GenFailsInv ==
    ASSUME IInv, NEW r \in Runners, GenFails(r)
    PROVE  IInv'
  <1> USE DEF GenFails
  <1>1. /\ call' \in [Runners -> Calls] /\ call'[r] = Idle
        /\ \A q \in Runners \ {r} : call'[q] = call[q]
    BY IdleIsCall DEF IInv, TypeOK
  <1>2. TypeOK'
    BY <1>1, RecurrencesAssumption DEF IInv, TypeOK, Disturb
  <1>3. CallsMatch' /\ RunsAccount'
    BY <1>1 DEF IInv, CallsMatch, RunsAccount, Ids, Accounted, Idle
  <1>4. StartsDiffer' /\ LiveIsLinked' /\ PaidIsKept' /\ CursorAccounts'
    BY DEF IInv, StartsDiffer, LiveIsLinked, PaidIsKept, CursorAccounts, Ids,
       Live, Deleted, Accounted
  <1> QED
    BY <1>2, <1>3, <1>4 DEF IInv

LEMMA GenFinishInv ==
    ASSUME IInv, NEW r \in Runners, GenFinish(r)
    PROVE  IInv'
  <1> USE DEF GenFinish
  <1>1. /\ call' \in [Runners -> Calls] /\ call'[r] = Idle
        /\ \A q \in Runners \ {r} : call'[q] = call[q]
    BY IdleIsCall DEF IInv, TypeOK
  <1>2. /\ call[r] \in [op : {"look", "insert"}, day : Nat, last : Days,
                         time : Times, overtaken : BOOLEAN]
        /\ today \in Days /\ LastDay \in Nat /\ lost \in BOOLEAN
    BY CallKinds, RecurrencesAssumption DEF IInv, TypeOK
  <1>3. rule' = [rule EXCEPT !.until = call[r].last] /\ call[r].last \in 0..LastDay
    BY <1>2 DEF Days
  <1>4. TypeOK'
    BY <1>1, <1>2, <1>3 DEF IInv, TypeOK
  <1>5. rule'.deleted = rule.deleted /\ rule'.until = call[r].last
    BY <1>3 DEF IInv, TypeOK
  <1>6. CallsMatch' /\ RunsAccount'
    BY <1>1, <1>2, <1>5 DEF IInv, CallsMatch, RunsAccount, Ids, Accounted, Idle
  <1>7. StartsDiffer' /\ LiveIsLinked' /\ PaidIsKept'
    BY <1>5 DEF IInv, StartsDiffer, LiveIsLinked, PaidIsKept, Ids, Live, Deleted
  <1>8. CursorAccounts'
    <2> SUFFICES ASSUME ~rule.deleted, ~lost, ~call[r].overtaken,
                        NEW d \in today..call[r].last
                 PROVE  Accounted(d)
      BY <1>2, <1>5 DEF CursorAccounts, Accounted, Ids
    <2>1. d \in today..(call[r].day - 1)
      BY <1>2 DEF Days
    <2> QED
      BY <2>1 DEF IInv, RunsAccount
  <1> QED
    BY <1>4, <1>6, <1>7, <1>8 DEF IInv

LEMMA RevokeReadInv ==
    ASSUME IInv, NEW r \in Runners, RevokeRead(r)
    PROVE  IInv'
  <1>1. /\ Ids \subseteq Nat /\ \A i \in Ids : rows[i] \in Bookings
        /\ call \in [Runners -> Calls]
    BY RowsType DEF IInv, TypeOK, Ids
  <1>2. PICK first \in Revocable :
          /\ \A i \in Revocable : rows[first].day <= rows[i].day
          /\ call' = [call EXCEPT ![r] = [op |-> "revoke", ids |-> Revocable,
                                          from |-> rows[first].day]]
    BY DEF RevokeRead
  <1>3. Revocable \subseteq Ids
    BY DEF Revocable
  <1>4. rows[first].day \in Days
    BY <1>1, <1>3 DEF Bookings
  <1>5. /\ call' \in [Runners -> Calls] /\ call'[r].op = "revoke"
        /\ call'[r].ids = Revocable /\ call'[r].from = rows[first].day
        /\ \A q \in Runners \ {r} : call'[q] = call[q]
    BY <1>1, <1>2, <1>3, <1>4 DEF Calls
  <1>6. UNCHANGED <<rule, rows, today, skipped, lost, late>> /\ disturbed' \in 0..MaxDisturbed
    BY RecurrencesAssumption DEF RevokeRead, Disturb, IInv, TypeOK
  <1>7. TypeOK'
    BY <1>5, <1>6 DEF IInv, TypeOK
  <1>8. CallsMatch'
    <2> SUFFICES ASSUME NEW q \in Runners
                 PROVE  /\ call'[q].op = "insert" => call'[q].day <= call'[q].last
                        /\ call'[q].op \in {"look", "insert"} => call'[q].day >= 1
                        /\ call'[q].op = "revoke" =>
                              \A i \in call'[q].ids : i \in Ids /\ call'[q].from <= rows[i].day
                        /\ call'[q].op = "delete" => call'[q].id \in Ids
      BY <1>6 DEF CallsMatch, Ids
    <2>1. CASE q # r
      BY <2>1, <1>5 DEF IInv, CallsMatch
    <2>2. CASE q = r
      BY <2>2, <1>2, <1>3, <1>5
    <2> QED
      BY <2>1, <2>2
  <1>9. StartsDiffer' /\ LiveIsLinked' /\ PaidIsKept' /\ CursorAccounts'
    BY <1>6 DEF IInv, StartsDiffer, LiveIsLinked, PaidIsKept, CursorAccounts,
       Ids, Live, Deleted, Accounted
  <1>10. RunsAccount'
    BY <1>5, <1>6 DEF IInv, RunsAccount, Ids, Accounted
  <1> QED
    BY <1>7, <1>8, <1>9, <1>10 DEF IInv

\* What lies before the first revoked booking is untouched, and whoever is in
\* the middle of a window is overtaken.
LEMMA RevokeCommitInv ==
    ASSUME IInv, NEW r \in Runners, RevokeCommit(r)
    PROVE  IInv'
  <1> DEFINE from == call[r].from
             Gone(i) == i \in call[r].ids /\ StillUnpaid(i)
             Revoked(i) == [rows[i] EXCEPT !.state = "revoked", !.linked = FALSE]
  <1>1. /\ call \in [Runners -> Calls] /\ today \in Days /\ LastDay \in Nat
        /\ call[r].op = "revoke" /\ from \in Days
        /\ \A i \in call[r].ids : i \in Ids /\ from <= rows[i].day
        /\ lost \in BOOLEAN /\ skipped \subseteq Days /\ rule.until \in 0..LastDay
    BY CallKinds, RecurrencesAssumption DEF IInv, TypeOK, CallsMatch,
       RevokeCommit
  <1>2. \A i \in Ids : rows[i] \in Bookings /\ rows[i].day \in Days
    BY RowsType DEF IInv, Bookings
  <1>3. rows' = [i \in Ids |-> IF Gone(i) THEN Revoked(i) ELSE rows[i]]
    BY DEF RevokeCommit
  <1>4. \A i \in Ids : Revoked(i) \in Bookings
    BY <1>2 DEF Bookings
  <1>5. rows' \in Seq(Bookings) /\ Ids' = Ids
    <2>1. \A i \in Ids : rows'[i] \in Bookings
      BY <1>2, <1>3, <1>4
    <2> QED
      BY <2>1, <1>3, SameLength DEF IInv, Ids
  <1>6. \A i \in Ids :
          /\ rows'[i].day = rows[i].day /\ rows'[i].time = rows[i].time
          /\ rows'[i].pay = rows[i].pay
          /\ \/ rows'[i] = rows[i] /\ ~Gone(i)
             \/ Gone(i) /\ rows'[i].state = "revoked" /\ ~rows'[i].linked
    BY <1>2, <1>3 DEF Bookings
  <1>7. \A q \in Runners : call[q].op \in {"look", "insert"} =>
          /\ [call[q] EXCEPT !.overtaken = TRUE] \in Calls
          /\ call[q] \in [op : {"look", "insert"}, day : Nat, last : Days,
                          time : Times, overtaken : BOOLEAN]
    BY CallKinds DEF IInv, Calls
  <1>8. call' = [q \in Runners |->
                  IF q = r THEN Idle
                  ELSE IF call[q].op \in {"look", "insert"}
                       THEN [call[q] EXCEPT !.overtaken = TRUE] ELSE call[q]]
    BY DEF RevokeCommit
  <1>9. call' \in [Runners -> Calls]
    BY <1>1, <1>7, <1>8, IdleIsCall
  <1>10. \A q \in Runners :
           \/ call'[q] = Idle
           \/ /\ call'[q].op = call[q].op /\ call[q].op \in {"look", "insert"}
              /\ call'[q].day = call[q].day /\ call'[q].last = call[q].last
              /\ call'[q].overtaken
           \/ call'[q] = call[q] /\ call[q].op \notin {"look", "insert"}
    BY <1>7, <1>8
  <1>11. /\ rule' = [rule EXCEPT !.until = from - 1]
         /\ skipped' = {d \in skipped : d < from}
         /\ lost' = (lost \/ from - 1 > rule.until)
         /\ UNCHANGED <<today, late, disturbed>>
    BY DEF RevokeCommit
  <1>12. rule'.deleted = rule.deleted /\ rule'.until = from - 1
    BY <1>11 DEF IInv, TypeOK
  <1>13. TypeOK'
    <2>1. from - 1 \in 0..LastDay
      BY <1>1 DEF Days
    <2>2. rule' \in [status : Statuses, time : Times, end : Days, window : 0..Window,
                     until : 0..LastDay, deleted : BOOLEAN]
      BY <2>1, <1>11 DEF IInv, TypeOK
    <2>3. skipped' \subseteq Days /\ lost' \in BOOLEAN
      BY <1>1, <1>11
    <2> HIDE DEF from
    <2> QED
      BY <2>2, <2>3, <1>5, <1>9, <1>11 DEF IInv, TypeOK
  <1>14. CallsMatch'
    BY <1>5, <1>6, <1>10 DEF IInv, CallsMatch, Idle
  <1>15. StartsDiffer'
    BY <1>5, <1>6 DEF IInv, StartsDiffer
  <1>16. LiveIsLinked'
    BY <1>5, <1>6, <1>12 DEF IInv, LiveIsLinked, Live, Deleted
  <1>17. PaidIsKept'
    BY <1>5, <1>6, <1>11 DEF IInv, PaidIsKept, StillUnpaid
  <1>18. CursorAccounts'
    <2> SUFFICES ASSUME ~rule.deleted, ~lost', NEW d \in today..(from - 1)
                 PROVE  Accounted(d)'
      BY <1>11, <1>12 DEF CursorAccounts
    <2> HIDE DEF from
    <2>1. ~lost /\ ~(from - 1 > rule.until)
      BY <1>11
    <2>2. from - 1 <= rule.until
      BY <2>1, <1>1 DEF Days
    <2>3. Accounted(d) /\ d < from
      BY <2>1, <2>2, <1>1 DEF IInv, CursorAccounts, Days
    <2>4. CASE d \in skipped
      BY <2>3, <2>4, <1>11 DEF Accounted
    <2>5. CASE d \notin skipped
      <3>1. PICK i \in Ids : rows[i].linked /\ rows[i].day = d
        BY <2>3, <2>5 DEF Accounted
      <3>2. ~Gone(i)
        BY <3>1, <2>3, <1>1 DEF Days
      <3> QED
        BY <3>1, <3>2, <1>5, <1>6 DEF Accounted
    <2> QED
      BY <2>4, <2>5
  <1>19. RunsAccount'
    BY <1>10 DEF RunsAccount, Idle
  <1> QED
    BY <1>13, <1>14, <1>15, <1>16, <1>17, <1>18, <1>19 DEF IInv

LEMMA ChangeReadInv ==
    ASSUME IInv, NEW r \in Runners, ChangeRead(r)
    PROVE  IInv'
  <1>1. PICK to \in Changes : call' = [call EXCEPT ![r] = [op |-> "change", to |-> to]]
    BY DEF ChangeRead
  <1>2. /\ call' \in [Runners -> Calls] /\ call'[r].op = "change"
        /\ \A q \in Runners \ {r} : call'[q] = call[q]
    BY <1>1 DEF IInv, TypeOK, Calls
  <1>3. UNCHANGED <<rule, rows, today, skipped, lost, late>> /\ disturbed' \in 0..MaxDisturbed
    BY RecurrencesAssumption DEF ChangeRead, Disturb, IInv, TypeOK
  <1>4. TypeOK'
    BY <1>2, <1>3 DEF IInv, TypeOK
  <1>5. CallsMatch' /\ RunsAccount'
    BY <1>2, <1>3 DEF IInv, CallsMatch, RunsAccount, Ids, Accounted
  <1>6. StartsDiffer' /\ LiveIsLinked' /\ PaidIsKept' /\ CursorAccounts'
    BY <1>3 DEF IInv, StartsDiffer, LiveIsLinked, PaidIsKept, CursorAccounts,
       Ids, Live, Deleted, Accounted
  <1> QED
    BY <1>4, <1>5, <1>6 DEF IInv

LEMMA ChangeWriteInv ==
    ASSUME IInv, NEW r \in Runners, ChangeWrite(r)
    PROVE  IInv'
  <1>1. /\ call' \in [Runners -> Calls] /\ call'[r] = Idle
        /\ \A q \in Runners \ {r} : call'[q] = call[q]
    BY IdleIsCall DEF ChangeWrite, IInv, TypeOK
  <1>2. call[r].to \in Changes
    BY CallKinds DEF ChangeWrite, IInv
  <1>3. UNCHANGED <<rows, today, skipped, lost, late, disturbed>>
    BY DEF ChangeWrite
  <1>4. /\ rule' \in [status : Statuses, time : Times, end : Days, window : 0..Window,
                      until : 0..LastDay, deleted : BOOLEAN]
        /\ rule'.until = rule.until /\ rule'.deleted = rule.deleted
    BY <1>2 DEF ChangeWrite, Changes, IInv, TypeOK
  <1>5. TypeOK'
    BY <1>1, <1>3, <1>4 DEF IInv, TypeOK
  <1>6. CallsMatch' /\ RunsAccount'
    BY <1>1, <1>3, <1>4 DEF IInv, CallsMatch, RunsAccount, Ids, Accounted, Idle
  <1>7. StartsDiffer' /\ LiveIsLinked' /\ PaidIsKept' /\ CursorAccounts'
    BY <1>3, <1>4 DEF IInv, StartsDiffer, LiveIsLinked, PaidIsKept,
       CursorAccounts, Ids, Live, Deleted, Accounted
  <1> QED
    BY <1>5, <1>6, <1>7 DEF IInv

LEMMA RemoveInv ==
    ASSUME IInv, Remove
    PROVE  IInv'
  <1>1. \A i \in Ids : rows[i] \in Bookings
    BY RowsType DEF IInv
  <1>2. rows' = [i \in Ids |-> [rows[i] EXCEPT !.linked = FALSE]]
    BY DEF Remove
  <1>3. \A i \in Ids : /\ rows'[i] \in Bookings /\ ~rows'[i].linked
                       /\ rows'[i].day = rows[i].day
                       /\ rows'[i].pay = rows[i].pay /\ rows'[i].state = rows[i].state
    BY <1>1, <1>2 DEF Bookings
  <1>4. rows' \in Seq(Bookings) /\ Ids' = Ids
    BY <1>2, <1>3, SameLength DEF IInv, Ids
  <1>5. /\ rule' \in [status : Statuses, time : Times, end : Days, window : 0..Window,
                      until : 0..LastDay, deleted : BOOLEAN]
        /\ rule'.deleted
    BY DEF Remove, IInv, TypeOK, Statuses
  <1>6. UNCHANGED <<today, call, skipped, lost, late>> /\ disturbed' \in 0..MaxDisturbed
    BY RecurrencesAssumption DEF Remove, Disturb, IInv, TypeOK
  <1>7. TypeOK'
    BY <1>4, <1>5, <1>6 DEF IInv, TypeOK
  <1>8. CallsMatch'
    BY <1>3, <1>4, <1>6 DEF IInv, CallsMatch
  <1>9. StartsDiffer' /\ PaidIsKept'
    BY <1>3, <1>4, <1>6 DEF IInv, StartsDiffer, PaidIsKept
  <1>10. LiveIsLinked' /\ CursorAccounts' /\ RunsAccount'
    BY <1>5 DEF LiveIsLinked, CursorAccounts, RunsAccount
  <1> QED
    BY <1>7, <1>8, <1>9, <1>10 DEF IInv

\* What becomes of a booking leaves its start and its link alone, and revives
\* none: whatever runs meanwhile goes on.
LEMMA BecomesInv ==
    ASSUME IInv, NEW i \in Ids, NEW b \in Bookings, Becomes(i, b),
           b.day = rows[i].day, b.time = rows[i].time, b.linked = rows[i].linked,
           Deleted(i) => b.state = rows[i].state,
           b.state = "revoked" => rows[i].state = "revoked",
           b.state = "revoked" /\ b.pay = "paid" => rows[i].pay = "paid" \/ i \in late',
           late \subseteq late', late' \subseteq Nat, disturbed' \in 0..MaxDisturbed,
           call' \in [Runners -> Calls],
           \A q \in Runners :
              \/ call'[q] = call[q] \/ call'[q] = Idle
    PROVE  IInv'
  <1>1. rows \in Seq(Bookings) /\ rows' = [rows EXCEPT ![i] = b]
        /\ UNCHANGED <<rule, today, skipped, lost>>
    BY DEF Becomes, IInv, TypeOK
  <1>2. rows' \in Seq(Bookings) /\ Ids' = Ids
    BY <1>1 DEF Ids
  <1>3. /\ \A j \in Ids : /\ rows'[j].day = rows[j].day /\ rows'[j].time = rows[j].time
                          /\ rows'[j].linked = rows[j].linked
        /\ \A j \in Ids \ {i} : rows'[j] = rows[j]
        /\ rows'[i] = b
    BY <1>1 DEF Ids
  <1>4. TypeOK'
    BY <1>1, <1>2 DEF IInv, TypeOK
  <1>5. CallsMatch' /\ StartsDiffer'
    BY <1>2, <1>3 DEF IInv, CallsMatch, StartsDiffer, Idle
  <1>6. LiveIsLinked'
    BY <1>1, <1>2, <1>3 DEF IInv, LiveIsLinked, Live, Deleted
  <1>7. PaidIsKept'
    BY <1>2, <1>3 DEF IInv, PaidIsKept
  <1>8. \A d : Accounted(d) => Accounted(d)'
    BY <1>1, <1>2, <1>3 DEF Accounted
  <1>9. CursorAccounts' /\ RunsAccount'
    BY <1>1, <1>8 DEF IInv, CursorAccounts, RunsAccount, Idle
  <1> QED
    BY <1>4, <1>5, <1>6, <1>7, <1>9 DEF IInv

\* Collecting and cancelling: a collection that reaches a revoked booking is late.
LEMMA BookingInv ==
    ASSUME IInv, NEW i \in Ids, Ask(i) \/ Land(i) \/ TakeOff(i) \/ Cancel(i)
    PROVE  IInv'
  <1>1. rows[i] \in Bookings /\ i \in Nat
    BY RowsType DEF IInv, Ids
  <1>2. /\ call \in [Runners -> Calls] /\ late \subseteq Nat
        /\ disturbed \in 0..MaxDisturbed /\ MaxDisturbed \in Nat
    BY RecurrencesAssumption DEF IInv, TypeOK
  <1>3. call' = call /\ late \subseteq late' /\ late' \subseteq Nat
        /\ disturbed' \in 0..MaxDisturbed
    BY <1>1, <1>2 DEF Ask, Land, TakeOff, Cancel, Disturb
  <1>4. CASE Ask(i)
    <2>1. Becomes(i, [rows[i] EXCEPT !.asked = TRUE])
      BY <1>4 DEF Ask
    <2> QED
      BY <1>1, <1>2, <1>3, <2>1, BecomesInv DEF Bookings
  <1>5. CASE Land(i)
    <2>1. PICK pay \in {"paid", "credit"} :
             Becomes(i, [rows[i] EXCEPT !.pay = pay, !.asked = FALSE])
      BY <1>5 DEF Land
    <2>2. rows[i].state = "revoked" => i \in late'
      BY <1>5 DEF Land, Deleted
    <2> QED
      BY <1>1, <1>2, <1>3, <2>1, <2>2, BecomesInv DEF Bookings
  <1>6. CASE TakeOff(i)
    <2>1. Becomes(i, [rows[i] EXCEPT !.pay = "unpaid"])
      BY <1>6 DEF TakeOff
    <2> QED
      BY <1>1, <1>2, <1>3, <2>1, BecomesInv DEF Bookings
  <1>7. CASE Cancel(i)
    <2>1. Becomes(i, [rows[i] EXCEPT !.state = "cancelled"]) /\ rows[i].state = "open"
      BY <1>7 DEF Cancel
    <2> QED
      BY <1>1, <1>2, <1>3, <2>1, BecomesInv DEF Bookings, Deleted
  <1> QED
    BY <1>4, <1>5, <1>6, <1>7

LEMMA DeleteReadInv ==
    ASSUME IInv, NEW r \in Runners, NEW i \in Ids, DeleteRead(r, i)
    PROVE  IInv'
  <1>1. call' = [call EXCEPT ![r] = [op |-> "delete", id |-> i]] /\ i \in Nat
    BY DEF DeleteRead, Ids
  <1>2. /\ call' \in [Runners -> Calls] /\ call'[r].op = "delete" /\ call'[r].id = i
        /\ \A q \in Runners \ {r} : call'[q] = call[q]
    BY <1>1 DEF IInv, TypeOK, Calls
  <1>3. UNCHANGED <<rule, rows, today, skipped, lost, late>> /\ disturbed' \in 0..MaxDisturbed
    BY RecurrencesAssumption DEF DeleteRead, Disturb, IInv, TypeOK
  <1>4. TypeOK'
    BY <1>2, <1>3 DEF IInv, TypeOK
  <1>5. CallsMatch' /\ RunsAccount'
    BY <1>2, <1>3 DEF IInv, CallsMatch, RunsAccount, Ids, Accounted
  <1>6. StartsDiffer' /\ LiveIsLinked' /\ PaidIsKept' /\ CursorAccounts'
    BY <1>3 DEF IInv, StartsDiffer, LiveIsLinked, PaidIsKept, CursorAccounts,
       Ids, Live, Deleted, Accounted
  <1> QED
    BY <1>4, <1>5, <1>6 DEF IInv

\* Deleting by hand leaves the link, so the start stays taken.
LEMMA DeleteWriteInv ==
    ASSUME IInv, NEW r \in Runners, DeleteWrite(r)
    PROVE  IInv'
  <1> DEFINE i == call[r].id
             b == IF Deleted(i) THEN rows[i] ELSE [rows[i] EXCEPT !.state = "removed"]
  <1>1. i \in Ids /\ Becomes(i, b)
    BY DEF DeleteWrite, IInv, CallsMatch
  <1>2. rows[i] \in Bookings
    BY <1>1, RowsType DEF IInv
  <1>3. /\ call' \in [Runners -> Calls] /\ call'[r] = Idle
        /\ \A q \in Runners \ {r} : call'[q] = call[q]
    BY IdleIsCall DEF DeleteWrite, IInv, TypeOK
  <1>4. late' = late /\ late \subseteq Nat /\ disturbed' \in 0..MaxDisturbed
    BY DEF DeleteWrite, IInv, TypeOK
  <1>5. /\ b \in Bookings /\ b.day = rows[i].day /\ b.time = rows[i].time
        /\ b.linked = rows[i].linked /\ b.pay = rows[i].pay
        /\ Deleted(i) => b.state = rows[i].state
        /\ b.state = "revoked" => rows[i].state = "revoked"
    BY <1>2 DEF Bookings
  <1> HIDE DEF i, b
  <1> QED
    BY <1>1, <1>3, <1>4, <1>5, BecomesInv

LEMMA TomorrowInv ==
    ASSUME IInv, Tomorrow
    PROVE  IInv'
  <1>1. today \in Days /\ LastDay \in Nat /\ rule.until \in 0..LastDay
    BY RecurrencesAssumption DEF IInv, TypeOK
  <1>2. today' = today + 1 /\ today' \in Days
        /\ UNCHANGED <<rule, rows, call, skipped, lost, late, disturbed>>
    BY <1>1 DEF Tomorrow, Days
  <1>3. TypeOK'
    BY <1>2 DEF IInv, TypeOK
  <1>4. CallsMatch' /\ StartsDiffer' /\ LiveIsLinked' /\ PaidIsKept'
    BY <1>2 DEF IInv, CallsMatch, StartsDiffer, LiveIsLinked, PaidIsKept, Ids,
       Live, Deleted
  <1>5. \A d : Accounted(d)' = Accounted(d)
    BY <1>2 DEF Accounted, Ids
  <1>6. CursorAccounts'
    BY <1>1, <1>2, <1>5 DEF IInv, CursorAccounts, Days
  <1>7. RunsAccount'
    <2>1. \A q \in Runners : call[q].op \in {"look", "insert"} => call[q].day \in Nat
      BY CallKinds DEF IInv
    <2> QED
      BY <1>1, <1>2, <1>5, <2>1 DEF IInv, RunsAccount, Days
  <1> QED
    BY <1>3, <1>4, <1>6, <1>7 DEF IInv

-----------------------------------------------------------------------------
LEMMA NextInv == IInv /\ [Next]_vars => IInv'
  <1> SUFFICES ASSUME IInv, [Next]_vars PROVE IInv'
    OBVIOUS
  <1>1. ASSUME NEW r \in Runners, Generate(r) \/ GenFails(r) PROVE IInv'
    BY <1>1, GenReadInv, GenLookInv, GenInsertInv, GenFinishInv, GenFailsInv DEF
       Generate
  <1>2. ASSUME NEW r \in Requests,
               \/ RevokeRead(r) \/ RevokeCommit(r)
               \/ ChangeRead(r) \/ ChangeWrite(r)
               \/ DeleteWrite(r) \/ \E i \in Ids : DeleteRead(r, i)
        PROVE  IInv'
    <2>1. r \in Runners
      BY DEF Runners
    <2> QED
      BY <1>2, <2>1, RevokeReadInv, RevokeCommitInv, ChangeReadInv,
         ChangeWriteInv, DeleteReadInv, DeleteWriteInv
  <1>3. CASE UNCHANGED vars
    BY <1>3 DEF vars, IInv, TypeOK, CallsMatch, StartsDiffer, LiveIsLinked,
       PaidIsKept, CursorAccounts, RunsAccount, Ids, Live, Deleted, Accounted
  <1> QED
    BY <1>1, <1>2, <1>3, RemoveInv, TomorrowInv, BookingInv DEF Next

LEMMA SpecInv == Spec => []IInv
  BY InitInv, NextInv, PTL DEF Spec

\* Every run, revocation and change keeps the variables in their types.
THEOREM RecurrenceTypeOK == Spec => []TypeOK
  BY SpecInv, PTL DEF IInv

\* generateOne: the unique index keeps a rule from having two bookings of a
\* start, and what is unlinked is deleted as well.
THEOREM RecurrenceNeverTwice == Spec => []NeverTwice
  <1>1. IInv => NeverTwice
    BY DEF IInv, NeverTwice, LiveIsLinked, StartsDiffer, Live, Deleted
  <1> QED
    BY <1>1, SpecInv, PTL

\* revokeWindow: the condition of the UPDATE, not the list it read, decides; a revoked
\* booking that is paid was reached by a collection begun before it was revoked.
THEOREM RecurrencePaidIsKept == Spec => []PaidIsKept
  BY SpecInv, PTL DEF IInv

\* generateRule and revokeWindow: up to the cursor every day to come has its
\* booking or its conflict, but for the two ways to lose it.
THEOREM RecurrenceCursorAccounts == Spec => []CursorAccounts
  BY SpecInv, PTL DEF IInv
-----------------------------------------------------------------------------
(* The scheduler.  A job that no two requests changed at once is changed by *)
(* one at most; what that one has still to do says how far the entry may    *)
(* differ from the row.                                                     *)

Synced(j) ==
    entry[j] = IF jobRow[j].status = "active" THEN jobRow[j] ELSE NoEntry

Pending(c, j) ==
    /\ jobCall[c].op \in {"create", "update", "remove"} => Synced(j)
    /\ jobCall[c].op \in {"update", "read", "back"} => Kept(j)
    /\ jobCall[c].op = "back" => jobCall[c].row = jobRow[j]
    /\ jobCall[c].op = "off" => entry[j] = NoEntry

OneChanges(j) ==
    /\ \A c, d \in Clerks : Changing(c, j) /\ Changing(d, j) => c = d
    /\ \A c \in Clerks : Changing(c, j) => Pending(c, j)
    /\ ~Busy(j) => Synced(j)

JobsInv ==
    /\ JobsTypeOK
    /\ BarredWhileItRuns
    /\ up => \A j \in Jobs \ doubted : OneChanges(j)

\* A request's record is not the idle one, a run's is not that of a free slot.
LEMMA JobTypes ==
    ASSUME JobsTypeOK
    PROVE  /\ jobRow \in [Jobs -> JobRows \cup {NoRow}]
           /\ entry \in [Jobs -> Settings \cup {NoEntry}]
           /\ run \in [Slots -> Runs \cup {NoRun}]
           /\ jobCall \in [Clerks -> JobCalls \cup {NoRequest}]
           /\ \A c \in Clerks : jobCall[c].op # "idle" =>
                 jobCall[c] \in JobCalls /\ jobCall[c].job \in Jobs
           /\ \A r \in JobCalls : r.job \in Jobs /\ r # NoRequest /\ r.op # "idle"
           /\ \A s \in Slots : run[s] # NoRun => run[s] \in Runs
           /\ \A r \in Runs : r.job \in Jobs /\ r # NoRun /\ r.stage # "none"
  <1>1. \A r \in JobCalls : r.job \in Jobs /\ r # NoRequest /\ r.op # "idle"
    BY DEF JobCalls, NoRequest
  <1>2. \A r \in Runs : r.job \in Jobs /\ r # NoRun /\ r.stage # "none"
    BY DEF Runs, NoRun
  <1>3. NoRequest.op = "idle"
    BY DEF NoRequest
  <1> QED
    BY <1>1, <1>2, <1>3 DEF JobsTypeOK

LEMMA Started ==
    ASSUME JobsInv, NEW s \in Slots, NEW j \in Jobs, NEW r, r.concurrent \in BOOLEAN,
           Start(s, j, r)
    PROVE  /\ BarredWhileItRuns'
           /\ run' \in [Slots -> Runs \cup {NoRun}]
           /\ running' \subseteq Jobs /\ mixed' \subseteq Jobs
  <1> DEFINE e == [stage |-> "handler", job |-> j, concurrent |-> r.concurrent]
  <1>1. /\ run[s] = NoRun /\ (r.concurrent \/ j \notin running)
        /\ running' = running \cup {j}
        /\ run' = [run EXCEPT ![s] = e]
        /\ mixed' = IF r.concurrent THEN mixed \cup {j} ELSE mixed
    BY DEF Start, Admitted
  <1>2. e \in Runs /\ e.job = j /\ e # NoRun
    <2>1. e \in Runs /\ e.job = j
      BY DEF Runs
    <2> QED  BY <2>1, JobTypes DEF JobsInv
  <1> HIDE DEF e
  <1>3. /\ run' \in [Slots -> Runs \cup {NoRun}]
        /\ run'[s] = e /\ \A t \in Slots \ {s} : run'[t] = run[t]
        /\ running' \subseteq Jobs /\ mixed' \subseteq Jobs
    BY <1>1, <1>2 DEF JobsInv, JobsTypeOK
  <1>4. \A i \in Jobs : UnderWay(i)' =
           IF i = j THEN UnderWay(i) \cup {s} ELSE UnderWay(i)
    BY <1>1, <1>2, <1>3 DEF UnderWay
  <1>5. BarredWhileItRuns'
    <2> SUFFICES ASSUME NEW i \in Jobs
                 PROVE  /\ i \in running' => UnderWay(i)' # {}
                        /\ i \notin mixed' =>
                              /\ UnderWay(i)' # {} => i \in running'
                              /\ \A t, u \in UnderWay(i)' : t = u
      BY DEF BarredWhileItRuns
    <2>1. /\ i \in running => UnderWay(i) # {}
          /\ i \notin mixed => /\ UnderWay(i) # {} => i \in running
                               /\ \A t, u \in UnderWay(i) : t = u
      BY DEF JobsInv, BarredWhileItRuns
    <2> QED
      BY <1>1, <1>4, <2>1
  <1> QED
    BY <1>3, <1>5

LEMMA LoggedStep ==
    ASSUME JobsInv, NEW s \in Slots, Logged(s)
    PROVE  /\ BarredWhileItRuns'
           /\ run' \in [Slots -> Runs \cup {NoRun}]
  <1>1. /\ run[s].stage \in {"success", "failure"}
        /\ running' = running \ {run[s].job}
        /\ run' = [run EXCEPT ![s] = NoRun] /\ mixed' = mixed
    BY DEF Logged, LeftRunning
  <1>2. run[s] # NoRun
    BY <1>1 DEF NoRun
  <1>3. /\ run' \in [Slots -> Runs \cup {NoRun}]
        /\ run'[s] = NoRun /\ \A t \in Slots \ {s} : run'[t] = run[t]
    BY <1>1 DEF JobsInv, JobsTypeOK
  <1>4. \A i \in Jobs : UnderWay(i)' = UnderWay(i) \ {s}
    BY <1>1, <1>2, <1>3 DEF UnderWay
  <1>5. \A i \in Jobs : s \in UnderWay(i) <=> i = run[s].job
    BY <1>2 DEF UnderWay
  <1> QED
    BY <1>1, <1>3, <1>4, <1>5 DEF JobsInv, BarredWhileItRuns

LEMMA HandlerStep ==
    ASSUME JobsInv, NEW s \in Slots, HandlerEnds(s)
    PROVE  /\ BarredWhileItRuns'
           /\ run' \in [Slots -> Runs \cup {NoRun}]
  <1>1. PICK outcome \in {"success", "failure"} : run' = [run EXCEPT ![s].stage = outcome]
    BY DEF HandlerEnds
  <1>2. run[s].stage = "handler" /\ running' = running /\ mixed' = mixed
    BY DEF HandlerEnds
  <1>3. run[s] # NoRun /\ run[s] \in Runs
    BY <1>2, JobTypes DEF NoRun, JobsInv
  <1>4. \A r \in Runs : /\ [r EXCEPT !.stage = outcome] \in Runs
                        /\ [r EXCEPT !.stage = outcome].job = r.job
    BY DEF Runs
  <1>5. run'[s] = [run[s] EXCEPT !.stage = outcome]
        /\ \A t \in Slots \ {s} : run'[t] = run[t]
    BY <1>1 DEF JobsInv, JobsTypeOK
  <1>6. run'[s] \in Runs /\ run'[s].job = run[s].job /\ run'[s] # NoRun
    BY <1>3, <1>4, <1>5, JobTypes DEF JobsInv
  <1>7. run' \in [Slots -> Runs \cup {NoRun}]
    BY <1>1, <1>5, <1>6 DEF JobsInv, JobsTypeOK
  <1>8. \A i \in Jobs : UnderWay(i)' = UnderWay(i)
    BY <1>3, <1>5, <1>6 DEF UnderWay
  <1> QED
    BY <1>2, <1>7, <1>8 DEF JobsInv, BarredWhileItRuns

\* Nothing of a job and its requests changed.
LEMMA OneStays ==
    ASSUME NEW j \in Jobs, OneChanges(j), jobRow'[j] = jobRow[j], entry'[j] = entry[j],
           \A c \in Clerks : \/ jobCall'[c] = jobCall[c]
                             \/ ~Changing(c, j) /\ ~Changing(c, j)'
    PROVE  OneChanges(j)'
  <1>1. Synced(j)' <=> Synced(j)
    BY DEF Synced
  <1>2. \A c \in Clerks : Changing(c, j)' <=> Changing(c, j)
    BY DEF Changing
  <1>3. \A c \in Clerks : Changing(c, j) => (Pending(c, j)' <=> Pending(c, j))
    BY <1>1, <1>2 DEF Pending, Kept
  <1> QED
    BY <1>1, <1>2, <1>3 DEF OneChanges, Busy
\* A request that begins to change a job is alone, or the job is in doubt.
LEMMA FirstRead ==
    ASSUME JobsInv, up, NEW c \in Clerks, NEW j \in Jobs, NEW e \in JobCalls,
           jobCall[c] = NoRequest, jobCall' = [jobCall EXCEPT ![c] = e], e.job = j,
           e.op \in {"create", "update", "remove"}, e.op = "update" => Kept(j),
           Doubt(j), jobRow' = jobRow, entry' = entry
    PROVE  \A i \in Jobs \ doubted' : OneChanges(i)'
  <1>1. /\ jobCall'[c] = e /\ \A d \in Clerks \ {c} : jobCall'[d] = jobCall[d]
        /\ jobCall[c].op = "idle"
    BY DEF JobsInv, JobsTypeOK, NoRequest
  <1>2. /\ \A i : ~Changing(c, i)
        /\ \A i : Changing(c, i)' <=> i = j
        /\ \A i : \A d \in Clerks \ {c} : Changing(d, i)' <=> Changing(d, i)
    BY <1>1 DEF Changing
  <1>3. doubted \subseteq doubted' /\ (Busy(j) => j \in doubted')
    BY DEF Doubt
  <1>4. ASSUME NEW i \in Jobs \ doubted', i # j
        PROVE  OneChanges(i)'
    <2>1. OneChanges(i)
      BY <1>3 DEF JobsInv
    <2>2. \A d \in Clerks : \/ jobCall'[d] = jobCall[d]
                            \/ ~Changing(d, i) /\ ~Changing(d, i)'
      BY <1>1, <1>2, <1>4
    <2> QED  BY <2>1, <2>2, OneStays
  <1>5. ASSUME j \notin doubted'
        PROVE  OneChanges(j)'
    <2>1. ~Busy(j) /\ OneChanges(j)
      BY <1>3, <1>5 DEF JobsInv
    <2>2. \A d \in Clerks : Changing(d, j)' => d = c
      BY <1>2, <2>1 DEF Busy
    <2>3. Synced(j)'
      BY <2>1 DEF OneChanges, Synced
    <2>4. Pending(c, j)'
      BY <1>1, <2>3 DEF Pending, Kept
    <2> QED  BY <2>2, <2>3, <2>4 DEF OneChanges
  <1> QED
    BY <1>4, <1>5

\* A request that goes on with a job that is not in doubt.
LEMMA GoesOn ==
    ASSUME JobsInv, up, NEW c \in Clerks, NEW j \in Jobs, NEW e,
           Changing(c, j), jobCall' = [jobCall EXCEPT ![c] = e],
           e = NoRequest \/ e.job = j,
           \A i \in Jobs \ {j} : jobRow'[i] = jobRow[i] /\ entry'[i] = entry[i],
           doubted \subseteq doubted',
           j \notin doubted' /\ Pending(c, j) =>
              IF Changing(c, j)' THEN Pending(c, j)' ELSE Synced(j)'
    PROVE  \A i \in Jobs \ doubted' : OneChanges(i)'
  <1>1. jobCall'[c] = e /\ \A d \in Clerks \ {c} : jobCall'[d] = jobCall[d]
    BY DEF JobsInv, JobsTypeOK
  <1>2. /\ \A i : Changing(c, i) => i = j
        /\ \A i : Changing(c, i)' => i = j
        /\ \A i : \A d \in Clerks \ {c} : Changing(d, i)' <=> Changing(d, i)
    BY <1>1 DEF Changing, NoRequest
  <1>3. ASSUME NEW i \in Jobs \ doubted', i # j
        PROVE  OneChanges(i)'
    <2>1. OneChanges(i)
      BY DEF JobsInv
    <2>2. \A d \in Clerks : \/ jobCall'[d] = jobCall[d]
                            \/ ~Changing(d, i) /\ ~Changing(d, i)'
      BY <1>1, <1>2, <1>3
    <2> QED  BY <1>3, <2>1, <2>2, OneStays
  <1>4. ASSUME j \notin doubted'
        PROVE  OneChanges(j)'
    <2>1. OneChanges(j)
      BY <1>4 DEF JobsInv
    <2>2. \A d \in Clerks : Changing(d, j)' => d = c
      BY <1>2, <2>1 DEF OneChanges
    <2>3. Pending(c, j)
      BY <2>1 DEF OneChanges
    <2> QED
      BY <1>4, <2>2, <2>3 DEF OneChanges, Busy
  <1> QED
    BY <1>3, <1>4

\* Requests that change no job.
LEMMA NoneChanges ==
    ASSUME JobsInv, up, jobRow' = jobRow, entry' = entry, doubted \subseteq doubted',
           \A c \in Clerks : \/ jobCall'[c] = jobCall[c]
                             \/ \A i \in Jobs \ doubted' :
                                   ~Changing(c, i) /\ ~Changing(c, i)'
    PROVE  \A i \in Jobs \ doubted' : OneChanges(i)'
  <1> SUFFICES ASSUME NEW i \in Jobs \ doubted' PROVE OneChanges(i)'
    OBVIOUS
  <1>1. OneChanges(i)
    BY DEF JobsInv
  <1> QED
    BY <1>1, OneStays

\* What the steps of requests leave alone.
LEMMA RunsStay ==
    ASSUME JobsInv, UNCHANGED <<running, run, mixed>>
    PROVE  BarredWhileItRuns'
  <1>1. \A i \in Jobs : UnderWay(i)' = UnderWay(i)
    BY DEF UnderWay
  <1> QED
    BY <1>1 DEF JobsInv, BarredWhileItRuns
\* The writes of a patch keep a row a row.
LEMMA PatchedRow ==
    ASSUME NEW r \in JobRows, NEW f \in Fields, NEW p \in Settings,
           r.status \in {"active", "disabled"}
    PROVE  /\ [r EXCEPT ![f] = p[f]] \in JobRows
           /\ [r EXCEPT ![f] = p[f]].status \in {"active", "disabled"}
  <1>1. CASE f = "status"
    BY <1>1 DEF JobRows, Settings
  <1>2. CASE f = "handler"
    BY <1>2 DEF JobRows, Settings
  <1>3. CASE f = "cron"
    BY <1>3 DEF JobRows, Settings
  <1>4. CASE f = "concurrent"
    BY <1>4 DEF JobRows, Settings
  <1> QED
    BY <1>1, <1>2, <1>3, <1>4 DEF Fields

\* A live row is what a cron entry can be made from.
LEMMA LiveRow ==
    ASSUME JobsTypeOK, NEW j \in Jobs, Kept(j)
    PROVE  jobRow[j] \in Settings /\ jobRow[j] \in JobRows
  <1>1. jobRow[j] # NoRow
    BY DEF Kept, NoRow
  <1> QED
    BY <1>1 DEF Kept, JobsTypeOK, JobRows, Settings

LEMMA SettingsAreRows ==
    \A r \in Settings :
        r \in JobRows /\ r.status \in {"active", "disabled"} /\ r.concurrent \in BOOLEAN
  BY DEF Settings, JobRows

\* A process is up while it serves requests and runs.
LEMMA IsUp ==
    ASSUME JobsTypeOK
    PROVE  /\ \A c \in Clerks : jobCall[c] # NoRequest => up
           /\ \A s \in Slots : run[s] # NoRun => up
           /\ \A c \in Clerks : jobCall[c].op # "idle" => jobCall[c] # NoRequest
  BY DEF JobsTypeOK, NoRequest

LEMMA ReadSteps ==
    ASSUME JobsInv, NEW c \in Clerks, NEW j \in Jobs,
           CreateRead(c, j) \/ UpdateRead(c, j) \/ RemoveRead(c, j)
    PROVE  JobsInv'
  <1>1. PICK e \in JobCalls :
           /\ jobCall' = [jobCall EXCEPT ![c] = e] /\ e.job = j
           /\ e.op \in {"create", "update", "remove"}
           /\ e.op = "update" => Kept(j)
    <2>1. CASE CreateRead(c, j)
      <3>1. PICK r \in Settings :
               jobCall' = [jobCall EXCEPT ![c] = [op |-> "create", job |-> j, row |-> r]]
        BY <2>1 DEF CreateRead, Then
      <3>2. [op |-> "create", job |-> j, row |-> r] \in JobCalls
        BY DEF JobCalls
      <3> QED  BY <3>1, <3>2
    <2>2. CASE UpdateRead(c, j)
      <3>1. PICK f \in Fields, r \in Settings :
               jobCall' = [jobCall EXCEPT ![c] =
                             [op |-> "update", job |-> j, field |-> f, row |-> r]]
        BY <2>2 DEF UpdateRead, Then
      <3>2. [op |-> "update", job |-> j, field |-> f, row |-> r] \in JobCalls
        BY DEF JobCalls
      <3> QED  BY <2>2, <3>1, <3>2 DEF UpdateRead
    <2>3. CASE RemoveRead(c, j)
      <3>1. [op |-> "remove", job |-> j] \in JobCalls
        BY DEF JobCalls
      <3> QED  BY <2>3, <3>1 DEF RemoveRead, Then
    <2> QED  BY <2>1, <2>2, <2>3
  <1>2. /\ up /\ jobCall[c] = NoRequest /\ Doubt(j)
        /\ UNCHANGED <<jobRow, entry, running, run, up, mixed>>
    BY DEF CreateRead, UpdateRead, RemoveRead
  <1>3. \A i \in Jobs \ doubted' : OneChanges(i)'
    BY <1>1, <1>2, FirstRead
  <1>4. BarredWhileItRuns'
    BY <1>2, RunsStay
  <1>5. JobsTypeOK'
    <2>1. jobCall' \in [Clerks -> JobCalls \cup {NoRequest}]
      BY <1>1 DEF JobsInv, JobsTypeOK
    <2>2. doubted' \subseteq Jobs
      BY <1>2 DEF JobsInv, JobsTypeOK, Doubt
    <2> QED  BY <1>2, <2>1, <2>2 DEF JobsInv, JobsTypeOK
  <1> QED
    BY <1>3, <1>4, <1>5 DEF JobsInv

LEMMA WriteSteps ==
    ASSUME JobsInv, NEW c \in Clerks,
           \/ CreateWrite(c) \/ UpdateWrite(c) \/ ReadBack(c)
           \/ Schedule(c) \/ Unschedule(c) \/ RemoveWrite(c)
    PROVE  JobsInv'
  <1>0. PICK j : j = jobCall[c].job
    OBVIOUS
  <1>1. /\ jobCall[c].op \in {"create", "update", "read", "back", "remove", "off"}
        /\ UNCHANGED <<running, run, up, mixed, doubted>>
    BY DEF CreateWrite, UpdateWrite, ReadBack, Schedule, Unschedule, RemoveWrite
  <1>2. /\ up /\ j \in Jobs /\ jobCall[c] \in JobCalls /\ Changing(c, j)
    BY <1>0, <1>1, JobTypes, IsUp DEF JobsInv, Changing
  <1>3. /\ jobRow \in [Jobs -> JobRows \cup {NoRow}]
        /\ entry \in [Jobs -> Settings \cup {NoEntry}]
        /\ jobCall \in [Clerks -> JobCalls \cup {NoRequest}]
    BY JobTypes DEF JobsInv
  <1> DEFINE Good(e) ==
        /\ jobCall' = [jobCall EXCEPT ![c] = e]
        /\ e \in JobCalls \cup {NoRequest} /\ (e = NoRequest \/ e.job = j)
        /\ jobRow' \in [Jobs -> JobRows \cup {NoRow}]
        /\ entry' \in [Jobs -> Settings \cup {NoEntry}]
        /\ \A i \in Jobs \ {j} : jobRow'[i] = jobRow[i] /\ entry'[i] = entry[i]
        /\ Pending(c, j) => IF Changing(c, j)' THEN Pending(c, j)' ELSE Synced(j)'
  <1>4. ASSUME NEW e, Good(e)
        PROVE  JobsInv'
    <2>1. \A i \in Jobs \ doubted' : OneChanges(i)'
      BY <1>1, <1>2, <1>4, GoesOn
    <2>2. BarredWhileItRuns'
      BY <1>1, RunsStay
    <2>3. JobsTypeOK'
      <3>1. jobCall' \in [Clerks -> JobCalls \cup {NoRequest}]
        BY <1>3, <1>4
      <3> QED  BY <1>1, <1>2, <1>4, <3>1 DEF JobsInv, JobsTypeOK
    <2> QED  BY <2>1, <2>2, <2>3 DEF JobsInv
  <1>5. \A e : /\ jobCall' = [jobCall EXCEPT ![c] = e] => jobCall'[c] = e
               /\ e = NoRequest => e.op = "idle"
    BY <1>3 DEF NoRequest
  <1>6. CASE CreateWrite(c)
    <2> DEFINE e == [op |-> "read", job |-> j]
               r == jobCall[c].row
    <2>1. /\ jobCall[c].op = "create" /\ jobRow' = [jobRow EXCEPT ![j] = r]
          /\ jobCall' = [jobCall EXCEPT ![c] = e] /\ entry' = entry
      BY <1>0, <1>6 DEF CreateWrite, Then
    <2>2. r \in Settings
      BY <1>2, <2>1 DEF JobCalls
    <2>3. e \in JobCalls
      BY <1>2 DEF JobCalls
    <2> HIDE DEF r
    <2>4. jobRow'[j] = r /\ r \in JobRows /\ r.status \in {"active", "disabled"}
      BY <1>2, <1>3, <2>1, <2>2, SettingsAreRows
    <2>5. jobCall'[c] = e
      BY <1>5, <2>1
    <2>6. Pending(c, j)' /\ Changing(c, j)'
      BY <2>4, <2>5 DEF Pending, Kept, Changing
    <2>7. Good(e)
      BY <1>2, <1>3, <2>1, <2>3, <2>4, <2>6
    <2> QED  BY <1>4, <2>7
  <1>7. CASE UpdateWrite(c)
    <2> DEFINE e == [op |-> "read", job |-> j]
               f == jobCall[c].field
               p == jobCall[c].row
    <2>1. /\ jobCall[c].op = "update"
          /\ jobRow' = IF Kept(j) THEN [jobRow EXCEPT ![j][f] = p[f]] ELSE jobRow
          /\ jobCall' = [jobCall EXCEPT ![c] = e] /\ entry' = entry
      BY <1>0, <1>7 DEF UpdateWrite, Then
    <2>2. f \in Fields /\ p \in Settings
      BY <1>2, <2>1 DEF JobCalls
    <2>3. e \in JobCalls
      BY <1>2 DEF JobCalls
    <2> HIDE DEF f, p
    <2>4. Kept(j) =>
             /\ jobRow' = [jobRow EXCEPT ![j] = [jobRow[j] EXCEPT ![f] = p[f]]]
             /\ [jobRow[j] EXCEPT ![f] = p[f]] \in JobRows
             /\ [jobRow[j] EXCEPT ![f] = p[f]].status \in {"active", "disabled"}
      <3> SUFFICES ASSUME Kept(j)
                   PROVE  /\ jobRow' = [jobRow EXCEPT ![j] = [jobRow[j] EXCEPT ![f] = p[f]]]
                          /\ [jobRow[j] EXCEPT ![f] = p[f]] \in JobRows
                          /\ [jobRow[j] EXCEPT ![f] = p[f]].status \in {"active", "disabled"}
        OBVIOUS
      <3>1. jobRow[j] \in JobRows /\ jobRow[j].status \in {"active", "disabled"}
        BY <1>2, LiveRow DEF JobsInv, Kept
      <3>2. jobRow' = [jobRow EXCEPT ![j] = [jobRow[j] EXCEPT ![f] = p[f]]]
        BY <2>1
      <3> QED  BY <2>2, <3>1, <3>2, PatchedRow
    <2>5. jobCall'[c] = e
      BY <1>5, <2>1
    <2>6. Changing(c, j)' /\ (Pending(c, j) => Pending(c, j)')
      <3>1. Pending(c, j) => Kept(j)
        BY <2>1 DEF Pending
      <3>2. Kept(j) => Kept(j)'
        BY <1>2, <1>3, <2>4 DEF Kept
      <3> QED  BY <2>5, <3>1, <3>2 DEF Pending, Changing
    <2>7. Good(e)
      <3>1. jobRow' \in [Jobs -> JobRows \cup {NoRow}]
            /\ \A i \in Jobs \ {j} : jobRow'[i] = jobRow[i]
        BY <1>2, <1>3, <2>1, <2>4
      <3> QED  BY <1>2, <1>3, <2>1, <2>3, <2>6, <3>1
    <2> QED  BY <1>4, <2>7
  <1>8. CASE ReadBack(c)
    <2>1. PICK e : e = IF Kept(j) THEN [op |-> "back", job |-> j, row |-> jobRow[j]]
                       ELSE NoRequest
      OBVIOUS
    <2>2. /\ jobCall[c].op = "read" /\ jobCall' = [jobCall EXCEPT ![c] = e]
          /\ UNCHANGED <<jobRow, entry>>
      BY <1>0, <1>8, <2>1 DEF ReadBack, Then
    <2>3. e \in JobCalls \cup {NoRequest}
      BY <1>2, <2>1, LiveRow DEF JobsInv, JobCalls
    <2>4. jobCall'[c] = e
      BY <1>5, <2>2
    <2>5. Pending(c, j) => Kept(j)
      BY <2>2 DEF Pending
    <2>6. Kept(j) => Changing(c, j)' /\ Pending(c, j)'
      BY <2>1, <2>2, <2>4 DEF Pending, Changing, Kept
    <2>7. Good(e)
      BY <1>3, <2>1, <2>2, <2>3, <2>5, <2>6
    <2> QED  BY <1>4, <2>7
  <1>9. CASE Schedule(c)
    <2> DEFINE r == jobCall[c].row
    <2>1. /\ jobCall[c].op = "back"
          /\ entry' = [entry EXCEPT ![j] = Registered(j, r)]
          /\ jobCall' = [jobCall EXCEPT ![c] = NoRequest] /\ jobRow' = jobRow
      BY <1>0, <1>9 DEF Schedule, Then
    <2>2. r \in Settings
      BY <1>2, <2>1 DEF JobCalls
    <2> HIDE DEF r
    <2>3. entry' \in [Jobs -> Settings \cup {NoEntry}]
          /\ entry'[j] = IF r.status = "active" THEN r ELSE NoEntry
      BY <1>2, <1>3, <2>1, <2>2 DEF Registered
    <2>4. Pending(c, j) => r = jobRow[j]
      BY <2>1 DEF Pending, r
    <2>5. Pending(c, j) => Synced(j)'
      BY <2>1, <2>3, <2>4 DEF Synced
    <2>6. ~Changing(c, j)'
      BY <1>5, <2>1 DEF Changing
    <2>7. Good(NoRequest)
      BY <1>2, <1>3, <2>1, <2>3, <2>5, <2>6
    <2> QED  BY <1>4, <2>7
  <1>10. CASE Unschedule(c)
    <2> DEFINE e == [op |-> "off", job |-> j]
    <2>1. /\ entry' = [entry EXCEPT ![j] = NoEntry]
          /\ jobCall' = [jobCall EXCEPT ![c] = e] /\ jobRow' = jobRow
      BY <1>0, <1>10 DEF Unschedule, Then
    <2>2. e \in JobCalls
      BY <1>2 DEF JobCalls
    <2>3. jobCall'[c] = e /\ entry'[j] = NoEntry
          /\ entry' \in [Jobs -> Settings \cup {NoEntry}]
      BY <1>2, <1>3, <1>5, <2>1
    <2>4. Pending(c, j)' /\ Changing(c, j)'
      BY <2>3 DEF Pending, Changing
    <2>5. Good(e)
      BY <1>2, <1>3, <2>1, <2>2, <2>3, <2>4
    <2> QED  BY <1>4, <2>5
  <1>11. CASE RemoveWrite(c)
    <2>1. /\ jobCall[c].op = "off"
          /\ jobRow' = IF Kept(j) THEN [jobRow EXCEPT ![j].status = "deleted"] ELSE jobRow
          /\ jobCall' = [jobCall EXCEPT ![c] = NoRequest] /\ entry' = entry
      BY <1>0, <1>11 DEF RemoveWrite, Then
    <2>2. Kept(j) => /\ [jobRow[j] EXCEPT !.status = "deleted"] \in JobRows
                     /\ [jobRow[j] EXCEPT !.status = "deleted"].status = "deleted"
      BY <1>2, LiveRow DEF JobsInv, JobRows
    <2>3. jobRow' \in [Jobs -> JobRows \cup {NoRow}]
          /\ jobRow'[j].status # "active"
          /\ \A i \in Jobs \ {j} : jobRow'[i] = jobRow[i]
      <3>1. CASE Kept(j)
        <4>1. jobRow' = [jobRow EXCEPT ![j] = [jobRow[j] EXCEPT !.status = "deleted"]]
          BY <2>1, <3>1
        <4> QED  BY <1>2, <1>3, <2>2, <3>1, <4>1
      <3>2. CASE ~Kept(j)
        BY <1>3, <2>1, <3>2 DEF Kept
      <3> QED  BY <3>1, <3>2
    <2>4. Pending(c, j) => entry'[j] = NoEntry
      BY <2>1 DEF Pending
    <2>5. Pending(c, j) => Synced(j)'
      BY <2>3, <2>4 DEF Synced
    <2>6. ~Changing(c, j)'
      BY <1>5, <2>1 DEF Changing
    <2>7. Good(NoRequest)
      BY <1>3, <2>1, <2>3, <2>5, <2>6
    <2> QED  BY <1>4, <2>7
  <1> HIDE DEF Good
  <1> QED
    BY <1>6, <1>7, <1>8, <1>9, <1>10, <1>11
LEMMA RunSteps ==
    ASSUME JobsInv, NEW s \in Slots, NEW j \in Jobs,
           CronFires(s, j) \/ HandlerEnds(s) \/ Logged(s)
    PROVE  JobsInv'
  <1>1. UNCHANGED <<jobRow, entry, jobCall, up, doubted>>
    BY DEF CronFires, HandlerEnds, Logged
  <1>2. up
    <2>1. HandlerEnds(s) \/ Logged(s) => run[s] # NoRun
      BY DEF HandlerEnds, Logged, NoRun
    <2> QED
      BY <2>1, IsUp DEF JobsInv, CronFires
  <1>3. \A i \in Jobs \ doubted' : OneChanges(i)'
    BY <1>1, <1>2, NoneChanges
  <1>4. /\ BarredWhileItRuns' /\ run' \in [Slots -> Runs \cup {NoRun}]
        /\ running' \subseteq Jobs /\ mixed' \subseteq Jobs
    <2>1. CASE CronFires(s, j)
      <3>1. entry[j] # NoEntry /\ Start(s, j, entry[j])
        BY <2>1 DEF CronFires
      <3>2. entry[j].concurrent \in BOOLEAN
        BY <3>1, JobTypes, SettingsAreRows DEF JobsInv
      <3> QED  BY <3>1, <3>2, Started
    <2>2. CASE HandlerEnds(s)
      BY <2>2, HandlerStep DEF JobsInv, JobsTypeOK, HandlerEnds
    <2>3. CASE Logged(s)
      <3>1. mixed' = mixed /\ running' \subseteq running
        BY <2>3 DEF Logged, LeftRunning
      <3> QED  BY <2>3, <3>1, LoggedStep DEF JobsInv, JobsTypeOK
    <2> QED  BY <2>1, <2>2, <2>3
  <1>5. JobsTypeOK'
    BY <1>1, <1>2, <1>4 DEF JobsInv, JobsTypeOK
  <1> QED
    BY <1>3, <1>4, <1>5 DEF JobsInv

LEMMA NowSteps ==
    ASSUME JobsInv, NEW c \in Clerks, NEW j \in Jobs,
           RunNowRead(c, j) \/ RunNow(c)
    PROVE  JobsInv'
  <1>1. CASE RunNowRead(c, j)
    <2> DEFINE e == [op |-> "now", job |-> j, row |-> jobRow[j]]
    <2>1. /\ up /\ jobCall[c] = NoRequest /\ Kept(j)
          /\ jobCall' = [jobCall EXCEPT ![c] = e]
          /\ UNCHANGED <<jobRow, entry, running, run, up, mixed, doubted>>
      BY <1>1 DEF RunNowRead, Then
    <2>2. e \in JobCalls
      BY <2>1, LiveRow DEF JobsInv, JobCalls
    <2>3. /\ jobCall'[c] = e /\ \A d \in Clerks \ {c} : jobCall'[d] = jobCall[d]
          /\ jobCall' \in [Clerks -> JobCalls \cup {NoRequest}]
      BY <2>1, <2>2 DEF JobsInv, JobsTypeOK
    <2>4. \A i : ~Changing(c, i) /\ ~Changing(c, i)'
      BY <2>1, <2>3 DEF Changing, NoRequest
    <2>5. \A i \in Jobs \ doubted' : OneChanges(i)'
      BY <2>1, <2>3, <2>4, NoneChanges
    <2> HIDE DEF e
    <2>6. BarredWhileItRuns' /\ JobsTypeOK'
      <3>1. JobsTypeOK'
        BY <2>1, <2>3 DEF JobsInv, JobsTypeOK
      <3> QED  BY <2>1, <3>1, RunsStay
    <2> QED  BY <2>5, <2>6 DEF JobsInv
  <1>2. CASE RunNow(c)
    <2>1. /\ jobCall[c].op = "now" /\ jobCall' = [jobCall EXCEPT ![c] = NoRequest]
          /\ UNCHANGED <<jobRow, entry, up, doubted>>
      BY <1>2 DEF RunNow, Then
    <2>2. up /\ jobCall[c] \in JobCalls /\ jobCall[c].job \in Jobs
      BY <2>1, JobTypes, IsUp DEF JobsInv
    <2>3. jobCall[c].row \in Settings
      BY <2>1, <2>2 DEF JobCalls
    <2>4. /\ jobCall'[c] = NoRequest /\ \A d \in Clerks \ {c} : jobCall'[d] = jobCall[d]
          /\ jobCall' \in [Clerks -> JobCalls \cup {NoRequest}]
      BY <2>1 DEF JobsInv, JobsTypeOK
    <2>5. \A i : ~Changing(c, i) /\ ~Changing(c, i)'
      BY <2>1, <2>4 DEF Changing, NoRequest
    <2>6. \A i \in Jobs \ doubted' : OneChanges(i)'
      BY <2>1, <2>2, <2>4, <2>5, NoneChanges
    <2>7. \/ \E s \in Slots : Start(s, jobCall[c].job, jobCall[c].row)
          \/ UNCHANGED <<running, run, mixed>>
      BY <1>2 DEF RunNow
    <2>8. /\ BarredWhileItRuns' /\ run' \in [Slots -> Runs \cup {NoRun}]
          /\ running' \subseteq Jobs /\ mixed' \subseteq Jobs
      <3>1. CASE \E s \in Slots : Start(s, jobCall[c].job, jobCall[c].row)
        BY <2>2, <2>3, <3>1, Started, SettingsAreRows
      <3>2. CASE UNCHANGED <<running, run, mixed>>
        BY <3>2, RunsStay DEF JobsInv, JobsTypeOK
      <3> QED  BY <2>7, <3>1, <3>2
    <2>9. JobsTypeOK'
      BY <2>1, <2>2, <2>4, <2>8 DEF JobsInv, JobsTypeOK
    <2> QED  BY <2>6, <2>8, <2>9 DEF JobsInv
  <1> QED
    BY <1>1, <1>2

LEMMA GiveUpStep ==
    ASSUME JobsInv, NEW c \in Clerks, GiveUp(c)
    PROVE  JobsInv'
  <1>1. /\ jobCall[c] # NoRequest /\ jobCall' = [jobCall EXCEPT ![c] = NoRequest]
        /\ doubted' = doubted \cup {j \in Jobs : Changing(c, j)}
        /\ UNCHANGED <<jobRow, entry, running, run, up, mixed>>
    BY DEF GiveUp, Then
  <1>2. /\ jobCall'[c] = NoRequest /\ \A d \in Clerks \ {c} : jobCall'[d] = jobCall[d]
        /\ jobCall' \in [Clerks -> JobCalls \cup {NoRequest}]
    BY <1>1 DEF JobsInv, JobsTypeOK
  <1>3. up
    BY <1>1, IsUp DEF JobsInv
  <1>4. \A i \in Jobs \ doubted' : ~Changing(c, i) /\ ~Changing(c, i)'
    BY <1>1, <1>2 DEF Changing, NoRequest
  <1>5. \A i \in Jobs \ doubted' : OneChanges(i)'
    BY <1>1, <1>2, <1>3, <1>4, NoneChanges
  <1>6. BarredWhileItRuns'
    BY <1>1, RunsStay
  <1>7. JobsTypeOK'
    BY <1>1, <1>2, <1>3 DEF JobsInv, JobsTypeOK
  <1> QED
    BY <1>5, <1>6, <1>7 DEF JobsInv

\* Nothing is left of what a process had in memory.
LEMMA ProcessSteps ==
    ASSUME JobsInv, Stop \/ Boot
    PROVE  JobsInv'
  <1>1. CASE Stop
    <2>1. /\ up' = FALSE /\ entry' = [j \in Jobs |-> NoEntry] /\ running' = {}
          /\ run' = [s \in Slots |-> NoRun] /\ mixed' = {}
          /\ jobCall' = [c \in Clerks |-> NoRequest]
          /\ UNCHANGED <<jobRow, doubted>>
      BY <1>1 DEF Stop
    <2>2. \A i \in Jobs : UnderWay(i)' = {}
      BY <2>1 DEF UnderWay
    <2>3. BarredWhileItRuns'
      BY <2>1, <2>2 DEF BarredWhileItRuns
    <2>4. JobsTypeOK'
      BY <2>1 DEF JobsInv, JobsTypeOK
    <2> QED  BY <2>1, <2>3, <2>4 DEF JobsInv
  <1>2. CASE Boot
    <2>1. /\ ~up /\ up' = TRUE /\ UNCHANGED <<jobRow, running, run, jobCall, mixed>>
          /\ \/ /\ entry' = [j \in Jobs |-> IF Kept(j) THEN Registered(j, jobRow[j])
                                            ELSE NoEntry]
                /\ doubted' = {}
             \/ doubted' = Jobs /\ entry' = entry
      BY <1>2 DEF Boot
    <2>2. /\ \A c \in Clerks : jobCall'[c] = NoRequest
          /\ \A i : ~Busy(i)' /\ \A c \in Clerks : ~Changing(c, i)'
      BY <2>1 DEF JobsInv, JobsTypeOK, NoRequest, Busy, Changing
    <2>3. entry' \in [Jobs -> Settings \cup {NoEntry}]
      BY <2>1, LiveRow DEF JobsInv, JobsTypeOK, Registered
    <2>4. ASSUME NEW i \in Jobs \ doubted'
          PROVE  OneChanges(i)'
      <3>1. entry'[i] = IF Kept(i) THEN Registered(i, jobRow[i])
                        ELSE NoEntry
        BY <2>1
      <3>2. Synced(i)'
        BY <2>1, <3>1 DEF Synced, Registered, Kept
      <3> QED  BY <2>2, <3>2 DEF OneChanges
    <2>5. BarredWhileItRuns'
      BY <2>1, RunsStay
    <2>6. JobsTypeOK'
      BY <2>1, <2>3 DEF JobsInv, JobsTypeOK
    <2> QED  BY <2>4, <2>5, <2>6 DEF JobsInv
  <1> QED
    BY <1>1, <1>2

LEMMA JobsCorrect == JobsSpec => []JobsInv
  <1>1. JobsInit => JobsInv
    <2> SUFFICES ASSUME JobsInit PROVE JobsInv
      OBVIOUS
    <2>1. /\ jobRow = [j \in Jobs |-> NoRow] /\ entry = [j \in Jobs |-> NoEntry]
          /\ running = {} /\ run = [s \in Slots |-> NoRun] /\ up = TRUE
          /\ jobCall = [c \in Clerks |-> NoRequest] /\ mixed = {} /\ doubted = {}
      BY DEF JobsInit
    <2>2. JobsTypeOK
      BY <2>1 DEF JobsTypeOK
    <2>3. \A i \in Jobs : UnderWay(i) = {}
      BY <2>1 DEF UnderWay
    <2>4. BarredWhileItRuns
      BY <2>1, <2>3 DEF BarredWhileItRuns
    <2>5. \A i \in Jobs : OneChanges(i)
      <3>1. \A c \in Clerks, i \in Jobs : ~Changing(c, i)
        BY <2>1 DEF Changing, NoRequest
      <3>2. \A i \in Jobs : Synced(i)
        BY <2>1 DEF Synced, NoEntry, NoRow
      <3> QED  BY <3>1, <3>2 DEF OneChanges
    <2> QED  BY <2>2, <2>4, <2>5 DEF JobsInv
  <1>2. JobsInv /\ [JobsNext]_jobsVars => JobsInv'
    <2> SUFFICES ASSUME JobsInv, [JobsNext]_jobsVars PROVE JobsInv'
      OBVIOUS
    <2>1. ASSUME UNCHANGED jobsVars PROVE JobsInv'
      <3>1. UNCHANGED <<jobRow, entry, running, run, jobCall, up, mixed, doubted>>
        BY <2>1 DEF jobsVars
      <3>2. BarredWhileItRuns'
        BY <3>1, RunsStay
      <3>3. up' => \A i \in Jobs \ doubted' : OneChanges(i)'
        BY <3>1, NoneChanges
      <3>4. JobsTypeOK'
        BY <3>1 DEF JobsInv, JobsTypeOK
      <3> QED  BY <3>2, <3>3, <3>4 DEF JobsInv
    <2>2. ASSUME NEW c \in Clerks, NEW j \in Jobs,
                 \/ CreateRead(c, j) \/ UpdateRead(c, j)
                 \/ RemoveRead(c, j) \/ RunNowRead(c, j)
          PROVE  JobsInv'
      BY <2>2, ReadSteps, NowSteps
    <2>3. ASSUME NEW c \in Clerks,
                 \/ CreateWrite(c) \/ UpdateWrite(c) \/ ReadBack(c)
                 \/ Schedule(c) \/ Unschedule(c) \/ RemoveWrite(c)
          PROVE  JobsInv'
      BY <2>3, WriteSteps
    <2>4. ASSUME NEW c \in Clerks, GiveUp(c) PROVE JobsInv'
      BY <2>4, GiveUpStep
    <2>5. ASSUME NEW c \in Clerks, RunNow(c) PROVE JobsInv'
      <3>1. jobCall[c].op # "idle"
        BY <2>5 DEF RunNow
      <3>2. jobCall[c].job \in Jobs
        BY <3>1, JobTypes DEF JobsInv
      <3> QED  BY <2>5, <3>2, NowSteps
    <2>6. ASSUME NEW s \in Slots, NEW j \in Jobs, CronFires(s, j) PROVE JobsInv'
      BY <2>6, RunSteps
    <2>7. ASSUME NEW s \in Slots, HandlerEnds(s) \/ Logged(s) PROVE JobsInv'
      <3>1. run[s] # NoRun
        BY <2>7 DEF HandlerEnds, Logged, NoRun
      <3>2. run[s].job \in Jobs
        BY <3>1, JobTypes DEF JobsInv
      <3> QED  BY <2>7, <3>2, RunSteps
    <2>8. ASSUME Stop \/ Boot PROVE JobsInv'
      BY <2>8, ProcessSteps
    <2> QED
      BY <2>1, <2>2, <2>3, <2>4, <2>5, <2>6, <2>7, <2>8 DEF JobsNext
  <1> QED
    BY <1>1, <1>2, PTL DEF JobsSpec

\* Rows, entries, runs and requests keep their types, and nothing outlives the
\* process.
THEOREM JobsTypeCorrect == JobsSpec => []JobsTypeOK
  <1>1. JobsInv => JobsTypeOK
    BY DEF JobsInv
  <1> QED
    BY <1>1, JobsCorrect, PTL

\* execute(): the set of running jobs bars a job exactly while it runs, for any
\* number of jobs and runs, by cron or by hand, whatever their outcome.
THEOREM JobsBarredWhileItRuns == JobsSpec => []BarredWhileItRuns
  <1>1. JobsInv => BarredWhileItRuns
    BY DEF JobsInv
  <1> QED
    BY <1>1, JobsCorrect, PTL

\* create, update, remove and their schedule() and unschedule(): what is
\* scheduled is what the table says, once the only request that was changing
\* the job is through, for any number of requests and jobs.
THEOREM JobsEntriesFollowRows == JobsSpec => []EntriesFollowRows
  <1>1. JobsInv => EntriesFollowRows
    BY DEF JobsInv, OneChanges, Synced, EntriesFollowRows
  <1> QED
    BY <1>1, JobsCorrect, PTL
-----------------------------------------------------------------------------
(* The notices.  A row that no clerk sends again is in the hands of one     *)
(* worker at most: of the one that wrote it while it is pending, of the job *)
(* while it has failed.  What the provider took is then in the row, in the  *)
(* answer its worker holds, or among what nobody could record.              *)

Holds(w, i) == i \in DOMAIN task[w].left
InHand(w, i) == Holds(w, i) /\ Current(w) = i /\ task[w].answer # "none"
Firsts == {"send", "committed", "flush", "remind"}
Shown(i) == IF notice[i].status \in {"none", "pending"} THEN 0 ELSE 1
Open(i) == IF \E w \in Workers : InHand(w, i) THEN 1 ELSE 0

HeldByOne(i) == \A v, w \in Workers : Holds(v, i) /\ Holds(w, i) => v = w

HeldAs(i) ==
    \A w \in Workers : Holds(w, i) =>
        \/ /\ task[w].op \in Firsts /\ notice[i].status = "pending"
           /\ task[w].left[i] = Same
        \/ /\ task[w].op = "retry" /\ notice[i].status = "failed"
           /\ notice[i].retries < Limit /\ task[w].left[i] = notice[i].retries + 1

Counted(i) ==
    /\ notice[i].retries <= Limit
    /\ notice[i].status \in {"none", "pending"} => notice[i].retries = 0
    /\ notice[i].status = "none" => accepted[i] = 0
    /\ accepted[i] <= notice[i].retries + Shown(i) + upset + Open(i)

TakenOnce(i) ==
    i \notin unclear =>
        \/ accepted[i] = 0
        \/ /\ accepted[i] = 1
           /\ \/ notice[i].status = "success"
              \/ \E w \in Workers : InHand(w, i) /\ task[w].answer = "success"

Delivered(i) == HeldByOne(i) /\ HeldAs(i) /\ Counted(i) /\ TakenOnce(i)

TasksMatch ==
    \A w \in Workers :
        /\ task[w].answer # "none" => Delivering(w)
        /\ task[w].posts # <<>> => task[w].op \in {"send", "remind"}
        /\ task[w].bookings # {} => task[w].op = "remind"
        /\ task[w].op = "retry" => w = Retrier

\* Rows are written in the order of their numbers.
InOrder == \A i \in Written, j \in Notices : j < i => j \in Written

\* What the reminders have still to write was not written, but by hand while they
\* had it on their list.
Ahead ==
    /\ \A b \in task[Reminder].bookings :
          \A i \in Written : notice[i].booking = b => i \in crossed
    /\ \A k \in DOMAIN task[Reminder].posts :
          task[Reminder].posts[k].booking # NoBooking =>
            /\ task[Reminder].posts[k].booking \notin task[Reminder].bookings
            /\ \A i \in Written :
                  /\ notice[i].booking = task[Reminder].posts[k].booking
                  /\ notice[i].channel = task[Reminder].posts[k].channel
                  => i \in crossed
            /\ \A m \in DOMAIN task[Reminder].posts :
                  m # k => task[Reminder].posts[m].channel # task[Reminder].posts[k].channel

MailTypes == NoticesTypeOK /\ TasksMatch /\ InOrder

MailInv ==
    /\ MailTypes
    /\ \A i \in Notices \ byHand : Delivered(i)
    /\ Ahead /\ RemindedOnce

\* A set of numbers that is not empty has a least one.
LEMMA Least ==
    ASSUME NEW S, S \subseteq Nat, S # {}
    PROVE  Min(S) \in S /\ \A x \in S : Min(S) <= x
  <1>1. \E x \in S : \A y \in S : x <= y
    <2>1. PICK x \in S : \A y \in S : ~(<<y, x>> \in OpToRel(<, Nat))
      BY NatLessThanWellFounded, WFMin
    <2>2. ASSUME NEW y \in S, y < x
          PROVE  FALSE
      <3>1. <<y, x>> \in Nat \X Nat /\ <<y, x>>[1] < <<y, x>>[2]
        BY <2>2
      <3>2. <<y, x>> \in OpToRel(<, Nat)
        BY <3>1, Zenon DEF OpToRel
      <3> QED  BY <2>1, <3>2
    <2> QED
      BY <2>2
  <1> QED
    BY <1>1 DEF Min

PostSet == [booking : Expected \cup {NoBooking}, channel : {"site", "sms"}]
LeftSet == UNION {[ids -> Nat \cup {Same}] : ids \in SUBSET Notices}
TaskSet ==
    [op : {"idle", "send", "committed", "flush", "retry", "resend", "remind"},
     bookings : SUBSET Expected, posts : Seq(PostSet), left : LeftSet,
     answer : {"none", "success", "failed"}]

\* A worker that has nothing left delivers nothing.
LEMMA NothingLeft ==
    ASSUME NEW f \in LeftSet
    PROVE  /\ f = [i \in DOMAIN f |-> f[i]] /\ DOMAIN f \subseteq Notices
           /\ DOMAIN f = {} <=> f = Nothing
           /\ \A i \in DOMAIN f : f[i] \in Nat \cup {Same}
  <1>1. PICK ids \in SUBSET Notices : f \in [ids -> Nat \cup {Same}]
    BY DEF LeftSet
  <1>2. DOMAIN f = {} => f = Nothing
    <2>1. ASSUME DOMAIN f = {}
          PROVE  f = Nothing
      <3>1. f \in [1..0 -> Nat \cup {Same}]
        BY <1>1, <2>1
      <3>2. f \in Seq(Nat \cup {Same}) /\ Len(f) = 0
        BY <3>1
      <3> QED  BY <3>2 DEF Nothing
    <2> QED  BY <2>1
  <1>3. DOMAIN Nothing = {}
    BY DEF Nothing
  <1> QED
    BY <1>1, <1>2, <1>3

LEMMA IsLeft ==
    ASSUME NEW S \in SUBSET Notices, NEW f \in [S -> Nat \cup {Same}]
    PROVE  f \in LeftSet
  BY DEF LeftSet

LEMMA MailTypesOK ==
    ASSUME NoticesTypeOK
    PROVE  /\ Notices \subseteq Nat
           /\ notice \in [Notices -> NoticeRows]
           /\ task \in [Workers -> TaskSet]
           /\ \A w \in Workers : DOMAIN task[w].left \subseteq Written
           /\ \A i \in Notices : /\ notice[i].retries \in Nat /\ accepted[i] \in Nat
                                 /\ i \in Written <=> notice[i].status # "none"
           /\ Written \subseteq Notices
           /\ Retrier \in Workers /\ Reminder \in Workers
           /\ Retrier \notin Senders /\ Reminder \notin Senders /\ Retrier # Reminder
           /\ NoTask \in TaskSet /\ upset \in Nat /\ Limit \in Nat
  <1>1. Notices \subseteq Nat /\ Limit \in Nat /\ MaxUpset \in Nat
        /\ Retrier \notin Senders /\ Reminder \notin Senders /\ Retrier # Reminder
    BY NoticesAssumption
  <1>2. notice \in [Notices -> NoticeRows] /\ accepted \in [Notices -> Nat] /\ upset \in Nat
    BY <1>1 DEF NoticesTypeOK
  <1>3. Written \subseteq Notices
    BY DEF Written
  <1>4. \A w \in Workers : DOMAIN task[w].left \subseteq Written
    BY DEF NoticesTypeOK
  <1>5. ASSUME NEW w \in Workers
        PROVE  task[w] \in TaskSet
    <2>1. task[w] \in TaskFor(DOMAIN task[w].left)
      BY DEF NoticesTypeOK
    <2>2. task[w].left \in LeftSet
      <3>1. task[w].left \in [DOMAIN task[w].left -> Nat \cup {Same}]
        BY <2>1 DEF TaskFor
      <3> QED  BY <1>3, <1>4, <3>1, IsLeft
    <2> QED
      BY <2>1, <2>2 DEF TaskFor, TaskSet, PostSet
  <1>6. task \in [Workers -> TaskSet]
    BY <1>5 DEF NoticesTypeOK
  <1>7. NoTask \in TaskSet
    <2>1. Nothing \in LeftSet
      <3>1. Nothing \in [{} -> Nat \cup {Same}]
        BY DEF Nothing
      <3> QED  BY <3>1, IsLeft
    <2> QED  BY <2>1 DEF NoTask, TaskSet
  <1>8. \A i \in Notices : /\ notice[i].retries \in Nat /\ accepted[i] \in Nat
                           /\ i \in Written <=> notice[i].status # "none"
    BY <1>2 DEF NoticeRows, Written
  <1> QED
    BY <1>1, <1>2, <1>3, <1>4, <1>6, <1>7, <1>8 DEF Workers
\* What a worker has in its hands is there and is written.
LEMMA CurrentIsHeld ==
    ASSUME NoticesTypeOK, NEW w \in Workers,
           task[w].left # Nothing
    PROVE  Holds(w, Current(w)) /\ Current(w) \in Written
  <1>1. /\ task[w].left \in LeftSet /\ DOMAIN task[w].left \subseteq Written
        /\ Written \subseteq Notices /\ Notices \subseteq Nat
    BY MailTypesOK DEF TaskSet
  <1>2. DOMAIN task[w].left # {} /\ DOMAIN task[w].left \subseteq Nat
    BY <1>1, NothingLeft
  <1> QED
    BY <1>1, <1>2, Least DEF Current, Holds

IdleFields ==
    /\ NoTask.op = "idle" /\ NoTask.bookings = {} /\ NoTask.posts = <<>>
    /\ NoTask.left = Nothing /\ NoTask.answer = "none"
    /\ DOMAIN Nothing = {}

LEMMA IdleIs == IdleFields
  BY DEF IdleFields, NoTask, Nothing

\* A worker goes on, or has nothing left and returns.
LEMMA GoesOrReturns ==
    ASSUME NoticesTypeOK, NEW w \in Workers,
           NEW next \in TaskSet, Goes(w, next)
    PROVE  /\ task' \in [Workers -> TaskSet]
           /\ \A v \in Workers \ {w} : task'[v] = task[v]
           /\ task'[w].left = next.left /\ task'[w].posts = next.posts
           /\ task'[w].bookings = next.bookings
           /\ \/ task'[w] = next
              \/ task'[w] = NoTask /\ next.left = Nothing
  <1>1. task \in [Workers -> TaskSet] /\ NoTask \in TaskSet
    BY MailTypesOK
  <1>2. PICK e : e = IF /\ next.bookings = {} /\ next.posts = <<>>
                        /\ next.left = Nothing
                     THEN NoTask ELSE next
    OBVIOUS
  <1>3. task' = [task EXCEPT ![w] = e]
    BY <1>2 DEF Goes
  <1>4. /\ task'[w] = e /\ \A v \in Workers \ {w} : task'[v] = task[v]
        /\ task' \in [Workers -> TaskSet]
    BY <1>1, <1>2, <1>3
  <1>5. CASE e = next
    BY <1>4, <1>5
  <1>6. CASE e = NoTask /\ next.bookings = {} /\ next.posts = <<>>
             /\ next.left = Nothing
    BY <1>4, <1>6, IdleIs DEF IdleFields
  <1> QED
    BY <1>2, <1>5, <1>6

\* The types that are left to show of a step.
LEMMA TypesFollow ==
    ASSUME NoticesTypeOK,
           notice' \in [Notices -> NoticeRows], task' \in [Workers -> TaskSet],
           \A i \in Written : notice'[i].status # "none",
           \A w \in Workers : DOMAIN task'[w].left \subseteq Written',
           accepted' \in [Notices -> Nat], upset' \in 0..MaxUpset,
           unclear' \subseteq Written', byHand' \subseteq Written',
           manual' \subseteq Written', crossed' \subseteq Written'
    PROVE  NoticesTypeOK'
  <1>1. task' = [w \in Workers |-> task'[w]]
    OBVIOUS
  <1>2. ASSUME NEW w \in Workers
        PROVE  task'[w] \in TaskFor(DOMAIN task'[w].left)
    <2>1. task'[w] \in TaskSet
      OBVIOUS
    <2>2. task'[w].left \in [DOMAIN task'[w].left -> Nat \cup {Same}]
      BY <2>1, NothingLeft DEF TaskSet
    <2> QED
      BY <2>1, <2>2 DEF TaskSet, PostSet, TaskFor
  <1>3. \A w \in Workers :
           LET ids == DOMAIN task'[w].left
           IN  task'[w] \in TaskFor(ids) /\ ids \subseteq Written'
    BY <1>2
  <1> QED
    BY <1>1, <1>3 DEF NoticesTypeOK, Workers, NoticeRows, TaskFor, Written

\* A step that does nothing to a row, nor to who holds it but to go on.
LEMMA RowStays ==
    ASSUME NoticesTypeOK, NEW i \in Notices, Delivered(i),
           notice'[i] = notice[i], accepted'[i] = accepted[i],
           i \in unclear => i \in unclear', upset' \in Nat, upset' >= upset,
           \A w \in Workers : Holds(w, i)' =>
              /\ Holds(w, i) /\ task'[w].left[i] = task[w].left[i]
              /\ task'[w].op = task[w].op \/ {task'[w].op, task[w].op} \subseteq Firsts,
           \A w \in Workers : InHand(w, i) =>
              InHand(w, i)' /\ task'[w].answer = task[w].answer
    PROVE  Delivered(i)'
  <1>1. Workers' = Workers /\ Same' = Same
    BY DEF Workers, Same
  <1>2. HeldByOne(i)' /\ HeldAs(i)'
    BY <1>1 DEF Delivered, HeldByOne, HeldAs, Firsts
  <1>3. Counted(i)'
    <2>1. /\ notice[i].retries \in Nat /\ accepted[i] \in Nat /\ upset \in Nat
          /\ Shown(i) \in {0, 1} /\ Shown(i)' = Shown(i)
      BY MailTypesOK DEF Shown
    <2>2. Open(i) \in {0, 1} /\ Open(i)' \in {0, 1} /\ (Open(i) = 1 => Open(i)' = 1)
      BY <1>1 DEF Open
    <2>3. Counted(i)
      BY DEF Delivered
    <2>4. accepted'[i] <= notice'[i].retries + Shown(i)' + upset' + Open(i)'
      <3>1. accepted[i] <= notice[i].retries + Shown(i) + upset + Open(i)
        BY <2>3, Zenon DEF Counted
      <3>2. \A a, r, s, u, v, o, p \in Nat :
               /\ a <= r + s + u + o
               /\ o + u <= p + v
               => a <= r + s + v + p
        OBVIOUS
      <3>3. upset' \in Nat /\ Open(i) + upset <= Open(i)' + upset'
        BY <2>1, <2>2
      <3> QED  BY <2>1, <2>2, <3>1, <3>2, <3>3
    <2>5. /\ notice'[i].retries <= Limit
          /\ notice'[i].status \in {"none", "pending"} => notice'[i].retries = 0
          /\ notice'[i].status = "none" => accepted'[i] = 0
      BY <2>3 DEF Counted
    <2> QED
      BY <2>4, <2>5, Zenon DEF Counted
  <1>4. TakenOnce(i)'
    BY <1>1 DEF Delivered, TakenOnce
  <1> QED
    BY <1>2, <1>3, <1>4 DEF Delivered

\* A failure after which nobody holds a row.
LEMMA RowDropped ==
    ASSUME NoticesTypeOK, NEW i \in Notices, Delivered(i),
           notice'[i] = notice[i], accepted'[i] = accepted[i],
           i \in unclear => i \in unclear', upset' = upset + 1,
           \A w \in Workers : ~Holds(w, i)',
           \A w \in Workers : InHand(w, i) /\ task[w].answer = "success" => i \in unclear'
    PROVE  Delivered(i)'
  <1>1. Workers' = Workers
    BY DEF Workers
  <1>2. HeldByOne(i)' /\ HeldAs(i)'
    BY <1>1 DEF HeldByOne, HeldAs
  <1>3. Counted(i)'
    <2>1. /\ notice[i].retries \in Nat /\ accepted[i] \in Nat /\ upset \in Nat
          /\ Shown(i) \in {0, 1} /\ Shown(i)' = Shown(i)
      BY MailTypesOK DEF Shown
    <2>2. Open(i) \in {0, 1} /\ Open(i)' \in {0, 1}
      BY DEF Open
    <2>3. Counted(i)
      BY DEF Delivered
    <2>4. accepted'[i] <= notice'[i].retries + Shown(i)' + upset' + Open(i)'
      <3>1. accepted[i] <= notice[i].retries + Shown(i) + upset + Open(i)
        BY <2>3, Zenon DEF Counted
      <3>2. \A a, r, s, u, v, o, p \in Nat :
               /\ a <= r + s + u + o
               /\ o + u <= p + v
               => a <= r + s + v + p
        OBVIOUS
      <3>3. upset' \in Nat /\ Open(i) + upset <= Open(i)' + upset'
        BY <2>1, <2>2
      <3> QED  BY <2>1, <2>2, <3>1, <3>2, <3>3
    <2>5. /\ notice'[i].retries <= Limit
          /\ notice'[i].status \in {"none", "pending"} => notice'[i].retries = 0
          /\ notice'[i].status = "none" => accepted'[i] = 0
      BY <2>3 DEF Counted
    <2> QED
      BY <2>4, <2>5, Zenon DEF Counted
  <1>4. TakenOnce(i)'
    BY <1>1 DEF Delivered, TakenOnce
  <1> QED
    BY <1>2, <1>3, <1>4 DEF Delivered
\* The same when only worker w goes on.
LEMMA HandsStay ==
    ASSUME NoticesTypeOK, NEW w \in Workers,
           \A v \in Workers \ {w} : task'[v] = task[v],
           NEW i \in Notices, Delivered(i),
           notice'[i] = notice[i], accepted'[i] = accepted[i],
           i \in unclear => i \in unclear', upset' \in Nat, upset' >= upset,
           Holds(w, i)' =>
              /\ Holds(w, i) /\ task'[w].left[i] = task[w].left[i]
              /\ task'[w].op = task[w].op \/ {task'[w].op, task[w].op} \subseteq Firsts,
           InHand(w, i) => InHand(w, i)' /\ task'[w].answer = task[w].answer
    PROVE  Delivered(i)'
  <1>1. \A v \in Workers \ {w} : /\ Holds(v, i)' <=> Holds(v, i)
                                 /\ InHand(v, i)' <=> InHand(v, i)
    BY DEF Holds, InHand, Current
  <1> QED
    BY <1>1, RowStays

\* The rows a call of send writes: one for each channel of the template.
LEMMA PostsAre ==
    ASSUME NEW booking \in Expected \cup {NoBooking},
           NEW channels \in Templates
    PROVE  /\ Posts(booking, channels) \in Seq(PostSet)
           /\ Len(channels) \in {1, 2} /\ DOMAIN channels = 1..Len(channels)
           /\ DOMAIN Posts(booking, channels) = 1..Len(channels)
           /\ \A k \in 1..Len(channels) :
                 /\ Posts(booking, channels)[k].booking = booking
                 /\ Posts(booking, channels)[k].channel = channels[k]
                 /\ New(Posts(booking, channels)[k]) \in NoticeRows
                 /\ \A m \in 1..Len(channels) : m # k => channels[m] # channels[k]
  <1>1. /\ channels \in Seq({"site", "sms"}) /\ Len(channels) \in {1, 2}
        /\ DOMAIN channels = 1..Len(channels)
        /\ \A k, m \in 1..Len(channels) : m # k => channels[m] # channels[k]
    <2>1. channels \in {<<"site">>, <<"sms">>, <<"site", "sms">>, <<"sms", "site">>}
      BY NoticesAssumption
    <2>2. CASE Len(channels) = 1 /\ channels \in Seq({"site", "sms"})
      BY <2>2
    <2>3. CASE /\ Len(channels) = 2 /\ channels \in Seq({"site", "sms"})
               /\ channels[1] # channels[2]
      BY <2>3
    <2>4. \A x, y \in {"site", "sms"} :
             /\ <<x>> \in Seq({"site", "sms"}) /\ Len(<<x>>) = 1
             /\ <<x, y>> \in Seq({"site", "sms"}) /\ Len(<<x, y>>) = 2
             /\ <<x, y>>[1] = x /\ <<x, y>>[2] = y
      OBVIOUS
    <2>5. CASE \E x \in {"site", "sms"} : channels = <<x>>
      BY <2>2, <2>4, <2>5
    <2>6. CASE \E x, y \in {"site", "sms"} : x # y /\ channels = <<x, y>>
      BY <2>3, <2>4, <2>6
    <2>7. {"site", "sms"} = {"site", "sms"} /\ "site" # "sms"
      OBVIOUS
    <2> QED  BY <2>1, <2>5, <2>6, <2>7
  <1>2. PICK n : n = Len(channels) /\ n \in Nat
    BY <1>1
  <1>3. \A k \in 1..n : channels[k] \in {"site", "sms"}
    BY <1>1, <1>2
  <1>4. Posts(booking, channels)
          = [k \in 1..n |-> [booking |-> booking, channel |-> channels[k]]]
    BY <1>1, <1>2 DEF Posts
  <1>5. \A k \in 1..n : [booking |-> booking, channel |-> channels[k]] \in PostSet
    BY <1>3 DEF PostSet
  <1>6. Posts(booking, channels) \in Seq(PostSet)
    <2>1. Posts(booking, channels) \in [1..n -> PostSet]
      BY <1>4, <1>5
    <2> QED  BY <1>2, <2>1
  <1>7. \A p \in PostSet : New(p) \in NoticeRows
    BY DEF PostSet, New, NoticeRows
  <1> QED
    BY <1>1, <1>2, <1>4, <1>5, <1>6, <1>7

\* What a step that writes no row leaves.
LEMMA WrittenStays ==
    ASSUME notice' = notice
    PROVE  Written' = Written /\ (InOrder => InOrder')
  BY DEF Written, InOrder

\* Steps that put nothing into anybody's hands.
LEMMA BeginSteps ==
    ASSUME MailInv,
           \/ \E w \in Senders : Send(w)
           \/ RemindRead \/ RemindNext
    PROVE  MailTypes' /\ \A i \in Notices \ byHand' : Delivered(i)'
  <1>1. PICK w \in Workers, e \in TaskSet :
          /\ task' = [task EXCEPT ![w] = e] /\ task[w].left = Nothing
          /\ e.left = Nothing /\ e.answer = task[w].answer /\ e.op # "retry"
          /\ e.posts # <<>> => e.op \in {"send", "remind"}
          /\ e.bookings # {} => e.op = "remind"
    <2>1. CASE \E w \in Senders : Send(w)
      <3>1. PICK w \in Senders : Send(w)
        BY <2>1
      <3>2. PICK channels \in Templates, booking \in Expected \cup {NoBooking} :
               task' = [task EXCEPT ![w] = [NoTask EXCEPT !.op = "send",
                                             !.posts = Posts(booking, channels)]]
        BY <3>1 DEF Send
      <3>3. Posts(booking, channels) \in Seq(PostSet)
        BY PostsAre
      <3>4. PICK e : e = [NoTask EXCEPT !.op = "send",
                                     !.posts = Posts(booking, channels)]
        OBVIOUS
      <3>5. /\ e \in TaskSet /\ e.left = Nothing /\ e.answer = "none"
            /\ e.op = "send" /\ e.bookings = {}
        BY <3>3, <3>4, MailTypesOK DEF MailInv, MailTypes, TaskSet, NoTask
      <3>6. task[w] = NoTask /\ w \in Workers
        BY <3>1 DEF Send, Workers
      <3> QED
        BY <3>2, <3>4, <3>5, <3>6, IdleIs DEF IdleFields
    <2>2. CASE RemindRead
      <3>1. PICK bookings : bookings = {b \in Expected : ~Reminded(b)}
        OBVIOUS
      <3>2. PICK e : e = [NoTask EXCEPT !.op = "remind", !.bookings = bookings]
        OBVIOUS
      <3>3. task[Reminder] = NoTask /\ task' = [task EXCEPT ![Reminder] = e]
        BY <2>2, <3>1, <3>2 DEF RemindRead
      <3>4. /\ e \in TaskSet /\ e.left = Nothing /\ e.answer = "none"
            /\ e.op = "remind" /\ e.posts = <<>>
        BY <3>1, <3>2, MailTypesOK DEF MailInv, MailTypes, TaskSet, NoTask
      <3> QED
        BY <3>3, <3>4, MailTypesOK, IdleIs DEF IdleFields, MailInv, MailTypes
    <2>3. CASE RemindNext
      <3>1. PICK b \in task[Reminder].bookings, channels \in Templates :
               task' = [task EXCEPT ![Reminder].bookings = @ \ {b},
                                    ![Reminder].posts = Posts(b, channels)]
        BY <2>3 DEF RemindNext
      <3>2. /\ task \in [Workers -> TaskSet] /\ Reminder \in Workers
            /\ task[Reminder] \in TaskSet
        BY MailTypesOK DEF MailInv, MailTypes
      <3>3. PICK e : e = [task[Reminder] EXCEPT !.bookings = @ \ {b},
                                                !.posts = Posts(b, channels)]
        OBVIOUS
      <3>4. task' = [task EXCEPT ![Reminder] = e]
        BY <3>1, <3>2, <3>3
      <3>5. b \in Expected
        BY <3>2 DEF TaskSet
      <3>6. Posts(b, channels) \in Seq(PostSet)
        BY <3>5, PostsAre
      <3>7. /\ e \in TaskSet /\ e.left = task[Reminder].left
            /\ e.answer = task[Reminder].answer /\ e.op = task[Reminder].op
        BY <3>2, <3>3, <3>6 DEF TaskSet
      <3>8. task[Reminder].left = Nothing /\ task[Reminder].op = "remind"
        BY <2>3, <3>2 DEF RemindNext, MailInv, MailTypes, TasksMatch
      <3> QED
        BY <3>2, <3>4, <3>7, <3>8
    <2> QED  BY <2>1, <2>2, <2>3
  <1>2. UNCHANGED <<notice, accepted, unclear, byHand, manual, crossed, upset>>
    BY DEF Send, RemindRead, RemindNext
  <1>3. NoticesTypeOK /\ TasksMatch /\ InOrder
    BY DEF MailInv, MailTypes
  <1>4. /\ task'[w] = e /\ \A v \in Workers \ {w} : task'[v] = task[v]
        /\ task' \in [Workers -> TaskSet]
    BY <1>1, <1>3, MailTypesOK
  <1>5. DOMAIN Nothing = {}
    BY IdleIs DEF IdleFields
  <1>6. NoticesTypeOK'
    <2>1. \A v \in Workers : DOMAIN task'[v].left \subseteq Written'
      BY <1>1, <1>2, <1>3, <1>4, <1>5, MailTypesOK, WrittenStays
    <2>2. /\ notice' \in [Notices -> NoticeRows] /\ accepted' \in [Notices -> Nat]
          /\ \A i \in Written : notice'[i].status # "none"
          /\ unclear' \subseteq Written' /\ byHand' \subseteq Written'
          /\ manual' \subseteq Written' /\ crossed' \subseteq Written'
          /\ upset' \in 0..MaxUpset
      BY <1>2, <1>3 DEF NoticesTypeOK, Written
    <2> QED  BY <1>3, <1>4, <2>1, <2>2, TypesFollow
  <1>7. TasksMatch'
    <2>1. task[w].answer = "none"
      BY <1>1, <1>3 DEF TasksMatch, Delivering
    <2> QED  BY <1>1, <1>3, <1>4, <2>1 DEF TasksMatch, Delivering, Workers
  <1>8. ASSUME NEW i \in Notices \ byHand'
        PROVE  Delivered(i)'
    <2>1. Delivered(i) /\ upset \in Nat
      BY <1>2, <1>3, MailTypesOK DEF MailInv
    <2>2. ~Holds(w, i)' /\ ~InHand(w, i)
      BY <1>1, <1>4, <1>5 DEF Holds, InHand
    <2> QED  BY <1>2, <1>3, <1>4, <2>1, <2>2, HandsStay
  <1> QED
    BY <1>2, <1>3, <1>6, <1>7, <1>8, WrittenStays DEF MailTypes
\* The row written next.
LEMMA NextRow ==
    ASSUME NoticesTypeOK, Unwritten # {}
    PROVE  /\ Min(Unwritten) \in Notices \ Written
           /\ \A i \in Notices \ Written : Min(Unwritten) <= i
  BY MailTypesOK, Least DEF Unwritten

\* Rows are written in the order of their numbers, one or several at once.
LEMMA RowsWritten ==
    ASSUME NoticesTypeOK, InOrder, NEW ids \in SUBSET Notices,
           ids # {},
           \A i \in Notices \ ids : notice'[i] = notice[i],
           \A i \in ids : notice'[i].status # "none",
           \A i \in ids, j \in Notices : j < i => j \in ids \/ j \in Written
    PROVE  /\ Written' = Written \cup ids
           /\ InOrder'
  <1>1. Written' = Written \cup ids
    BY DEF Written
  <1> QED
    BY <1>1 DEF InOrder

\* A row that was not written is in nobody's hands and was sent to nobody.
LEMMA FreshRow ==
    ASSUME MailInv, NEW i \in Notices \ Written
    PROVE  /\ accepted[i] = 0 /\ notice[i].retries \in Nat
           /\ \A w \in Workers : ~Holds(w, i)
           /\ i \notin byHand /\ i \notin unclear /\ upset \in Nat /\ Limit \in Nat
  <1>1. NoticesTypeOK /\ i \notin byHand /\ i \notin unclear
    BY DEF MailInv, MailTypes, NoticesTypeOK
  <1>2. notice[i].status = "none" /\ Delivered(i)
    BY <1>1, MailTypesOK DEF MailInv
  <1> QED
    BY <1>1, <1>2, MailTypesOK DEF Holds, Delivered, Counted

LEMMA PostedRow ==
    ASSUME MailInv, NEW i \in Notices \ Written,
           NEW w \in Workers,
           notice'[i].status = "pending", notice'[i].retries = 0,
           accepted' = accepted, upset' = upset,
           \A v \in Workers \ {w} : task'[v] = task[v],
           task'[w].op \in Firsts, i \in DOMAIN task'[w].left,
           task'[w].left[i] = Same
    PROVE  Delivered(i)'
  <1>1. /\ accepted[i] = 0 /\ upset \in Nat /\ Limit \in Nat
        /\ \A v \in Workers : ~Holds(v, i)
    BY FreshRow
  <1>2. \A v \in Workers : Holds(v, i)' <=> v = w
    BY <1>1 DEF Holds
  <1>3. HeldByOne(i)' /\ HeldAs(i)'
    BY <1>2 DEF HeldByOne, HeldAs, Workers, Firsts, Same
  <1>4. Counted(i)'
    <2>1. Shown(i)' \in {0, 1} /\ Open(i)' \in {0, 1}
      BY DEF Shown, Open
    <2>2. accepted'[i] <= notice'[i].retries + Shown(i)' + upset' + Open(i)'
      BY <1>1, <2>1
    <2>3. /\ notice'[i].retries <= Limit
          /\ notice'[i].status \in {"none", "pending"} => notice'[i].retries = 0
          /\ notice'[i].status = "none" => accepted'[i] = 0
      BY <1>1
    <2> QED
      BY <2>2, <2>3, Zenon DEF Counted
  <1>5. TakenOnce(i)'
    BY <1>1 DEF TakenOnce
  <1> QED
    BY <1>3, <1>4, <1>5 DEF Delivered

LEMMA PostStep ==
    ASSUME MailInv, NEW w \in Workers, Post(w)
    PROVE  MailTypes' /\ \A i \in Notices \ byHand' : Delivered(i)'
  <1>1. NoticesTypeOK /\ TasksMatch /\ InOrder
    BY DEF MailInv, MailTypes
  <1>2. PICK n : n = Min(Unwritten)
    OBVIOUS
  <1>3. PICK e : e = [task[w] EXCEPT !.posts = Tail(@), !.left = At(n, Same)]
    OBVIOUS
  <1>4. /\ task[w].posts # <<>> /\ task[w].left = Nothing
        /\ Unwritten # {}
        /\ notice' = [notice EXCEPT ![n] = New(Head(task[w].posts))]
        /\ UNCHANGED <<accepted, unclear, byHand, upset>>
        /\ manual' \subseteq manual \cup {n} /\ crossed' \subseteq crossed \cup {n}
        /\ task' = [task EXCEPT ![w].posts = Tail(@), ![w].left = At(n, Same)]
    BY <1>2 DEF Post
  <1>5. /\ task \in [Workers -> TaskSet] /\ task[w] \in TaskSet
        /\ task' = [task EXCEPT ![w] = e] /\ notice \in [Notices -> NoticeRows]
    BY <1>1, <1>3, <1>4, MailTypesOK
  <1>6. /\ n \in Notices \ Written
        /\ \A j \in Notices : j < n => j \in Written
    BY <1>1, <1>2, <1>4, NextRow, MailTypesOK
  <1>7. /\ At(n, Same) \in LeftSet /\ DOMAIN At(n, Same) = {n}
        /\ At(n, Same)[n] = Same
    BY <1>6, IsLeft DEF At
  <1>8. task[w].posts \in Seq(PostSet) /\ Head(task[w].posts) \in PostSet
        /\ Tail(task[w].posts) \in Seq(PostSet)
    BY <1>4, <1>5 DEF TaskSet
  <1>9. /\ e \in TaskSet /\ e.left = At(n, Same) /\ e.op = task[w].op
        /\ e.answer = task[w].answer /\ e.bookings = task[w].bookings
        /\ e.posts = Tail(task[w].posts)
    BY <1>3, <1>5, <1>7, <1>8 DEF TaskSet
  <1>10. /\ task'[w] = e /\ \A v \in Workers \ {w} : task'[v] = task[v]
         /\ task' \in [Workers -> TaskSet]
    BY <1>5, <1>9
  <1>11. \A p \in PostSet : /\ New(p) \in NoticeRows /\ New(p).status = "pending"
                            /\ New(p).retries = 0
    BY DEF New, NoticeRows, PostSet
  <1>12. /\ notice' \in [Notices -> NoticeRows]
         /\ notice'[n].status = "pending" /\ notice'[n].retries = 0
         /\ \A i \in Notices \ {n} : notice'[i] = notice[i]
    BY <1>4, <1>5, <1>6, <1>8, <1>11
  <1>13. Written' = Written \cup {n} /\ InOrder'
    <2>1. {n} \in SUBSET Notices /\ {n} # {}
      BY <1>6
    <2>2. /\ \A i \in Notices \ {n} : notice'[i] = notice[i]
          /\ \A i \in {n} : notice'[i].status # "none"
          /\ \A i \in {n}, j \in Notices : j < i => j \in {n} \/ j \in Written
      BY <1>6, <1>12
    <2> QED  BY ONLY <2>1, <2>2, <1>1, RowsWritten, NoticesAssumption
  <1>14. task[w].op \in {"send", "remind"} /\ task[w].answer = "none"
    BY <1>1, <1>4 DEF TasksMatch, Delivering
  <1>15. NoticesTypeOK'
    <2>1. \A v \in Workers : DOMAIN task'[v].left \subseteq Written'
      BY <1>1, <1>7, <1>9, <1>10, <1>13, MailTypesOK
    <2>2. /\ accepted' \in [Notices -> Nat] /\ upset' \in 0..MaxUpset
          /\ unclear' \subseteq Written' /\ byHand' \subseteq Written'
          /\ manual' \subseteq Written' /\ crossed' \subseteq Written'
      BY <1>1, <1>4, <1>13 DEF NoticesTypeOK
    <2>3. \A i \in Written : notice'[i].status # "none"
      BY <1>6, <1>12 DEF Written
    <2> QED  BY <1>1, <1>10, <1>12, <2>1, <2>2, <2>3, TypesFollow
  <1>16. TasksMatch'
    BY <1>1, <1>9, <1>10, <1>14 DEF TasksMatch, Delivering, Workers
  <1>17. ASSUME NEW i \in Notices \ byHand'
         PROVE  Delivered(i)'
    <2>1. CASE i = n
      BY <1>4, <1>6, <1>7, <1>9, <1>10, <1>12, <1>14, <2>1, PostedRow DEF Firsts
    <2>2. CASE i # n
      <3>1. Delivered(i) /\ upset \in Nat
        BY <1>1, <1>4, MailTypesOK DEF MailInv
      <3>2. ~Holds(w, i)' /\ ~InHand(w, i)
        BY <1>7, <1>9, <1>10, <1>14, <2>2 DEF Holds, InHand
      <3> QED  BY <1>1, <1>4, <1>10, <1>12, <2>2, <3>1, <3>2, HandsStay
    <2> QED  BY <2>1, <2>2
  <1> QED
    BY <1>13, <1>15, <1>16, <1>17 DEF MailTypes

LEMMA EnqueueStep ==
    ASSUME MailInv, NEW w \in Senders, Enqueue(w)
    PROVE  MailTypes' /\ \A i \in Notices \ byHand' : Delivered(i)'
  <1>1. NoticesTypeOK /\ TasksMatch /\ InOrder /\ w \in Workers
    BY DEF MailInv, MailTypes, Workers
  <1>2. PICK channels, first, ids :
          /\ channels \in Templates
          /\ first = Min(Unwritten) /\ ids = first .. first + Len(channels) - 1
          /\ ids \subseteq Notices
          /\ notice' = [i \in Notices |->
                          IF i \in ids
                          THEN New(Posts(NoBooking, channels)[i - first + 1])
                          ELSE notice[i]]
          /\ task' = [task EXCEPT ![w] = [NoTask EXCEPT !.op = "committed",
                                                 !.left = [i \in ids |-> Same]]]
    <2>1. PICK channels \in Templates :
            LET first == Min(Unwritten)
                ids == first .. first + Len(channels) - 1
            IN  /\ ids \subseteq Notices
                /\ notice' = [i \in Notices |->
                               IF i \in ids
                               THEN New(Posts(NoBooking, channels)[i - first + 1])
                               ELSE notice[i]]
                /\ task' = [task EXCEPT ![w] = [NoTask EXCEPT !.op = "committed",
                                                      !.left = [i \in ids |-> Same]]]
      BY Zenon DEF Enqueue
    <2> WITNESS channels, Min(Unwritten), Min(Unwritten) .. Min(Unwritten) + Len(channels) - 1
    <2> QED  BY <2>1, Zenon
  <1>3. /\ task[w] = NoTask /\ Unwritten # {}
        /\ UNCHANGED <<accepted, unclear, byHand, manual, crossed, upset>>
    BY DEF Enqueue
  <1>4. PICK n : n = Len(channels)
    OBVIOUS
  <1>5. /\ n \in {1, 2}
        /\ \A k \in 1..n : New(Posts(NoBooking, channels)[k]) \in NoticeRows
    BY <1>2, <1>4, PostsAre
  <1>6. /\ first \in Notices \ Written /\ Notices \subseteq Nat
        /\ \A j \in Notices : j < first => j \in Written
    BY <1>1, <1>2, <1>3, NextRow, MailTypesOK
  <1>7. /\ first \in ids /\ ids \in SUBSET Notices /\ ids # {}
        /\ \A i \in ids : i \notin Written /\ i - first + 1 \in 1..n
        /\ \A i \in ids, j \in Notices : j < i => j \in ids \/ j \in Written
    <2>1. ids = first .. first + n - 1 /\ first \in Nat
      BY <1>2, <1>4, <1>6
    <2>2. first \in ids /\ \A i \in ids : i \in Nat /\ first <= i /\ i - first + 1 \in 1..n
      BY <1>5, <2>1
    <2>3. ASSUME NEW i \in ids
          PROVE  i \notin Written
      BY <1>1, <1>6, <2>1, <2>2 DEF InOrder
    <2>4. ASSUME NEW i \in ids, NEW j \in Notices, j < i
          PROVE  j \in ids \/ j \in Written
      BY <1>5, <1>6, <2>1, <2>2, <2>4
    <2> QED  BY <1>2, <2>2, <2>3, <2>4
  <1>8. /\ \A i \in ids : /\ notice'[i] \in NoticeRows
                          /\ notice'[i].status = "pending" /\ notice'[i].retries = 0
        /\ \A i \in Notices \ ids : notice'[i] = notice[i]
        /\ notice' \in [Notices -> NoticeRows]
    <2>1. \A i \in ids : /\ notice'[i] \in NoticeRows
                         /\ notice'[i].status = "pending" /\ notice'[i].retries = 0
      BY <1>2, <1>5, <1>7 DEF New
    <2>2. notice \in [Notices -> NoticeRows]
      BY <1>1, MailTypesOK
    <2> QED  BY <1>2, <2>1, <2>2
  <1>9. Written' = Written \cup ids /\ InOrder'
    BY <1>1, <1>7, <1>8, RowsWritten
  <1>10. PICK e : e = [NoTask EXCEPT !.op = "committed",
                                     !.left = [i \in ids |-> Same]]
    OBVIOUS
  <1>11. /\ e \in TaskSet /\ e.left = [i \in ids |-> Same] /\ e.op = "committed"
         /\ e.answer = "none" /\ e.bookings = {} /\ e.posts = <<>>
    <2>1. [i \in ids |-> Same] \in LeftSet
      BY <1>7, IsLeft
    <2> QED
      BY <1>1, <1>10, <2>1, MailTypesOK, IdleIs DEF TaskSet, IdleFields, NoTask
  <1>12. /\ task'[w] = e /\ \A v \in Workers \ {w} : task'[v] = task[v]
         /\ task' \in [Workers -> TaskSet]
    BY <1>1, <1>2, <1>10, <1>11, MailTypesOK
  <1>13. NoticesTypeOK'
    <2>1. \A v \in Workers : DOMAIN task'[v].left \subseteq Written'
      BY <1>1, <1>9, <1>11, <1>12, MailTypesOK
    <2>2. /\ accepted' \in [Notices -> Nat] /\ upset' \in 0..MaxUpset
          /\ unclear' \subseteq Written' /\ byHand' \subseteq Written'
          /\ manual' \subseteq Written' /\ crossed' \subseteq Written'
      BY <1>1, <1>3, <1>9 DEF NoticesTypeOK
    <2>3. \A i \in Written : notice'[i].status # "none"
      BY <1>7, <1>8 DEF Written
    <2> QED  BY <1>1, <1>8, <1>12, <2>1, <2>2, <2>3, TypesFollow
  <1>14. TasksMatch'
    BY <1>1, <1>11, <1>12 DEF TasksMatch, Delivering, Workers
  <1>15. ASSUME NEW i \in Notices \ byHand'
         PROVE  Delivered(i)'
    <2>1. CASE i \in ids
      BY <1>1, <1>3, <1>7, <1>8, <1>11, <1>12, <2>1, PostedRow DEF Firsts
    <2>2. CASE i \notin ids
      <3>1. Delivered(i) /\ upset \in Nat
        BY <1>1, <1>3, MailTypesOK DEF MailInv
      <3>2. ~Holds(w, i)' /\ ~InHand(w, i)
        BY <1>3, <1>11, <1>12, <2>2, IdleIs DEF Holds, InHand, IdleFields
      <3> QED  BY <1>1, <1>3, <1>8, <1>12, <2>2, <3>1, <3>2, HandsStay
    <2> QED  BY <2>1, <2>2
  <1> QED
    BY <1>9, <1>13, <1>14, <1>15 DEF MailTypes

\* A step that writes no new row and begins no other message.
Quietly ==
    /\ Written' = Written
    /\ \A i \in Notices : /\ notice'[i].booking = notice[i].booking
                           /\ notice'[i].channel = notice[i].channel
    /\ \A w \in Workers : /\ task'[w].posts \in {task[w].posts, <<>>}
                                /\ task'[w].bookings \in {task[w].bookings, {}}
    /\ UNCHANGED <<manual, crossed>>

\* The types after a step of one worker that writes no new row.
LEMMA OneGoes ==
    ASSUME MailTypes, NEW w \in Workers,
           task' \in [Workers -> TaskSet],
           \A v \in Workers \ {w} : task'[v] = task[v],
           DOMAIN task'[w].left \subseteq Written,
           notice' \in [Notices -> NoticeRows], Written' = Written,
           accepted' \in [Notices -> Nat], upset' \in 0..MaxUpset,
           unclear' \subseteq Written, byHand' \subseteq Written,
           manual' = manual, crossed' = crossed,
           task'[w].answer # "none" =>
              task'[w].op \notin {"idle", "committed"} /\ task'[w].left # Nothing,
           task'[w].posts # <<>> => task'[w].op \in {"send", "remind"},
           task'[w].bookings # {} => task'[w].op = "remind",
           task'[w].op = "retry" => w = Retrier
    PROVE  MailTypes'
  <1>1. NoticesTypeOK /\ TasksMatch /\ InOrder
    BY DEF MailTypes
  <1>2. NoticesTypeOK'
    <2>1. \A v \in Workers : DOMAIN task'[v].left \subseteq Written'
      BY <1>1, MailTypesOK
    <2>2. \A i \in Written : notice'[i].status # "none"
      BY DEF Written
    <2>3. manual' \subseteq Written' /\ crossed' \subseteq Written'
      BY <1>1 DEF NoticesTypeOK
    <2> QED  BY <1>1, <2>1, <2>2, <2>3, TypesFollow
  <1>3. TasksMatch'
    BY <1>1 DEF TasksMatch, Delivering, Workers
  <1>4. InOrder'
    BY <1>1 DEF InOrder
  <1> QED
    BY <1>2, <1>3, <1>4 DEF MailTypes

LEMMA FlushStep ==
    ASSUME MailInv, NEW w \in Workers, FlushRead(w)
    PROVE  /\ MailTypes' /\ Quietly
           /\ \A i \in Notices \ byHand' : Delivered(i)'
  <1>1. NoticesTypeOK /\ TasksMatch /\ MailTypes
    BY DEF MailInv, MailTypes
  <1>2. PICK pending : pending = {i \in DOMAIN task[w].left : notice[i].status = "pending"}
    OBVIOUS
  <1>3. PICK next : next = [task[w] EXCEPT !.op = "flush",
                                           !.left = Restrict(@, pending)]
    OBVIOUS
  <1>4. /\ task[w].op = "committed" /\ Goes(w, next)
        /\ UNCHANGED <<notice, accepted, unclear, byHand, manual, crossed, upset>>
    BY <1>2, <1>3 DEF FlushRead
  <1>5. task[w] \in TaskSet /\ DOMAIN task[w].left \subseteq Written
        /\ Written \subseteq Notices
    BY <1>1, MailTypesOK
  <1>6. Restrict(task[w].left, pending) = [i \in pending |-> task[w].left[i]]
    BY DEF Restrict
  <1>7. Restrict(task[w].left, pending) \in LeftSet
    <2>1. \A i \in DOMAIN task[w].left : task[w].left[i] \in Nat \cup {Same}
      BY <1>5, NothingLeft DEF TaskSet
    <2> QED  BY <1>2, <1>5, <1>6, <2>1, IsLeft
  <1>8. task[w].answer = "none" /\ task[w].posts = <<>> /\ task[w].bookings = {}
    BY <1>1, <1>4 DEF TasksMatch, Delivering
  <1>9. /\ next \in TaskSet /\ next.op = "flush" /\ next.answer = "none"
        /\ next.posts = <<>> /\ next.bookings = {}
        /\ next.left = [i \in pending |-> task[w].left[i]]
    BY <1>3, <1>5, <1>6, <1>7, <1>8 DEF TaskSet
  <1>10. /\ task' \in [Workers -> TaskSet]
         /\ \A v \in Workers \ {w} : task'[v] = task[v]
         /\ task'[w].left = next.left
         /\ \/ task'[w] = next
            \/ task'[w] = NoTask /\ next.left = Nothing
    BY <1>1, <1>4, <1>9, GoesOrReturns
  <1>11. MailTypes'
    <2>1. DOMAIN task'[w].left \subseteq Written /\ Written' = Written
      BY <1>2, <1>4, <1>5, <1>9, <1>10, WrittenStays
    <2>2. /\ task'[w].answer = "none" /\ task'[w].posts = <<>> /\ task'[w].bookings = {}
          /\ task'[w].op # "retry"
      BY <1>9, <1>10, IdleIs DEF IdleFields
    <2>3. /\ notice' \in [Notices -> NoticeRows] /\ accepted' \in [Notices -> Nat]
          /\ upset' \in 0..MaxUpset
          /\ unclear' \subseteq Written /\ byHand' \subseteq Written
          /\ manual' = manual /\ crossed' = crossed
      BY <1>1, <1>4 DEF NoticesTypeOK
    <2> QED  BY <1>1, <1>10, <2>1, <2>2, <2>3, OneGoes
  <1>12. ASSUME NEW i \in Notices \ byHand'
         PROVE  Delivered(i)'
    <2>1. Delivered(i) /\ upset \in Nat
      BY <1>1, <1>4, MailTypesOK DEF MailInv
    <2>2. ~InHand(w, i)
      BY <1>8 DEF InHand
    <2>3. ASSUME Holds(w, i)'
          PROVE  /\ Holds(w, i) /\ task'[w].left[i] = task[w].left[i]
                 /\ {task'[w].op, task[w].op} \subseteq Firsts
      <3>1. task'[w] = next
        BY <1>10, <2>3, IdleIs DEF IdleFields, Holds
      <3> QED  BY <1>2, <1>4, <1>9, <2>3, <3>1 DEF Holds, Firsts
    <2> QED  BY <1>1, <1>4, <1>10, <2>1, <2>2, <2>3, HandsStay
  <1>13. Quietly
    BY <1>4, <1>8, <1>9, <1>10, IdleIs, WrittenStays DEF Quietly, IdleFields
  <1> QED
    BY <1>11, <1>12, <1>13

LEMMA RetryReadStep ==
    ASSUME MailInv, RetryRead
    PROVE  /\ MailTypes' /\ Quietly
           /\ \A i \in Notices \ byHand' : Delivered(i)'
  <1>1. NoticesTypeOK /\ TasksMatch /\ MailTypes /\ Retrier \in Workers
    BY MailTypesOK DEF MailInv, MailTypes
  <1>2. PICK ids : ids = Retryable
    OBVIOUS
  <1>3. PICK e : e = [NoTask EXCEPT !.op = "retry",
                                    !.left = [i \in ids |-> notice[i].retries + 1]]
    OBVIOUS
  <1>4. /\ task[Retrier] = NoTask /\ task' = [task EXCEPT ![Retrier] = e]
        /\ UNCHANGED <<notice, accepted, unclear, byHand, manual, crossed, upset>>
    BY <1>2, <1>3 DEF RetryRead
  <1>5. /\ ids \subseteq Written /\ Written \subseteq Notices
        /\ \A i \in ids : /\ notice[i].status = "failed" /\ notice[i].retries < Limit
                          /\ notice[i].retries \in Nat
    BY <1>1, <1>2, MailTypesOK DEF Retryable
  <1>6. /\ e \in TaskSet /\ e.left = [i \in ids |-> notice[i].retries + 1]
        /\ e.op = "retry" /\ e.answer = "none" /\ e.posts = <<>> /\ e.bookings = {}
    <2>1. [i \in ids |-> notice[i].retries + 1] \in LeftSet
      BY <1>5, IsLeft
    <2> QED
      BY <1>1, <1>3, <2>1, MailTypesOK, IdleIs DEF TaskSet, IdleFields, NoTask
  <1>7. /\ task'[Retrier] = e /\ \A v \in Workers \ {Retrier} : task'[v] = task[v]
        /\ task' \in [Workers -> TaskSet]
    BY <1>1, <1>4, <1>6, MailTypesOK
  <1>8. MailTypes'
    <2>1. /\ notice' \in [Notices -> NoticeRows] /\ accepted' \in [Notices -> Nat]
          /\ upset' \in 0..MaxUpset
          /\ unclear' \subseteq Written /\ byHand' \subseteq Written
          /\ manual' = manual /\ crossed' = crossed
      BY <1>1, <1>4 DEF NoticesTypeOK
    <2> QED  BY <1>1, <1>4, <1>5, <1>6, <1>7, <2>1, WrittenStays, OneGoes
  <1>9. ASSUME NEW i \in Notices \ byHand'
        PROVE  Delivered(i)'
    <2>1. Delivered(i) /\ upset \in Nat
      BY <1>1, <1>4, MailTypesOK DEF MailInv
    <2>2. ~Holds(Retrier, i) /\ ~InHand(Retrier, i)
      BY <1>4, IdleIs DEF Holds, InHand, IdleFields
    <2>3. CASE i \notin ids
      <3>1. ~Holds(Retrier, i)'
        BY <1>6, <1>7, <2>3 DEF Holds
      <3> QED  BY <1>1, <1>4, <1>7, <2>1, <2>2, <3>1, HandsStay
    <2>4. CASE i \in ids
      <3>1. \A v \in Workers : ~Holds(v, i) /\ ~InHand(v, i)
        BY <1>1, <1>5, <2>1, <2>2, <2>4 DEF Delivered, HeldAs, TasksMatch,
           InHand
      <3>2. \A v \in Workers : (Holds(v, i)' <=> v = Retrier) /\ ~InHand(v, i)'
        BY <1>6, <1>7, <2>4, <3>1 DEF Holds, InHand
      <3>3. HeldByOne(i)' /\ HeldAs(i)'
        BY <1>4, <1>5, <1>6, <1>7, <2>4, <3>2 DEF HeldByOne, HeldAs, Workers
      <3>4. Counted(i)'
        <4>1. Open(i)' = Open(i) /\ Shown(i)' = Shown(i)
          BY <1>4, <3>1, <3>2 DEF Open, Shown, Workers
        <4> QED
          BY <1>4, <2>1, <4>1, Zenon DEF Counted, Delivered
      <3>5. TakenOnce(i)'
        BY <1>4, <2>1, <3>1 DEF TakenOnce, Delivered
      <3> QED  BY <3>3, <3>4, <3>5 DEF Delivered
    <2> QED  BY <2>3, <2>4
  <1>10. Quietly
    BY <1>4, <1>6, <1>7, WrittenStays DEF Quietly
  <1> QED
    BY <1>8, <1>9, <1>10

LEMMA ResendStep ==
    ASSUME MailInv, NEW w \in Senders, NEW n \in Notices,
           ResendRead(w, n)
    PROVE  /\ MailTypes' /\ Quietly
           /\ \A i \in Notices \ byHand' : Delivered(i)'
  <1>1. NoticesTypeOK /\ TasksMatch /\ MailTypes /\ w \in Workers
    BY DEF MailInv, MailTypes, Workers
  <1>2. PICK left : left = At(n, notice[n].retries + 1)
    OBVIOUS
  <1>3. PICK e : e = [NoTask EXCEPT !.op = "resend", !.left = left]
    OBVIOUS
  <1>4. /\ task[w] = NoTask /\ n \in Written
        /\ task' = [task EXCEPT ![w] = e] /\ byHand' = byHand \cup {n}
        /\ upset < MaxUpset /\ upset' = upset + 1
        /\ UNCHANGED <<notice, accepted, unclear, manual, crossed>>
    BY <1>2, <1>3 DEF ResendRead, Upset
  <1>5. left \in LeftSet /\ DOMAIN left = {n}
    <2>1. notice[n].retries \in Nat /\ {n} \in SUBSET Notices
      BY <1>1, MailTypesOK
    <2>2. left \in [{n} -> Nat \cup {Same}]
      BY <1>2, <2>1 DEF At
    <2> QED  BY <2>1, <2>2, IsLeft
  <1>6. /\ e \in TaskSet /\ e.left = left
        /\ e.op = "resend" /\ e.answer = "none" /\ e.posts = <<>> /\ e.bookings = {}
    BY <1>1, <1>3, <1>5, MailTypesOK, IdleIs DEF TaskSet, IdleFields, NoTask
  <1>7. /\ task'[w] = e /\ \A v \in Workers \ {w} : task'[v] = task[v]
        /\ task' \in [Workers -> TaskSet]
    BY <1>1, <1>4, <1>6, MailTypesOK
  <1>8. upset \in Nat /\ MaxUpset \in Nat
    BY <1>1, MailTypesOK, NoticesAssumption
  <1>9. MailTypes'
    <2>1. /\ notice' \in [Notices -> NoticeRows] /\ accepted' \in [Notices -> Nat]
          /\ upset' \in 0..MaxUpset
          /\ unclear' \subseteq Written /\ byHand' \subseteq Written
          /\ manual' = manual /\ crossed' = crossed
      BY <1>1, <1>4, <1>8 DEF NoticesTypeOK
    <2> QED  BY <1>1, <1>4, <1>5, <1>6, <1>7, <2>1, WrittenStays, OneGoes
  <1>10. ASSUME NEW i \in Notices \ byHand'
         PROVE  Delivered(i)'
    <2>1. Delivered(i) /\ i # n
      BY <1>4 DEF MailInv
    <2>2. ~Holds(w, i)' /\ ~InHand(w, i)
      BY <1>4, <1>5, <1>6, <1>7, <2>1, IdleIs DEF Holds, InHand, IdleFields
    <2> QED  BY <1>1, <1>4, <1>7, <1>8, <2>1, <2>2, HandsStay
  <1>11. Quietly
    BY <1>4, <1>6, <1>7, WrittenStays DEF Quietly
  <1> QED
    BY <1>9, <1>10, <1>11

\* What a worker has to say of a row, once it has delivered it.
LEMMA LeftIs ==
    ASSUME MailTypes, NEW w \in Workers, Delivering(w)
    PROVE  /\ Holds(w, Current(w)) /\ Current(w) \in Written
           /\ Written \subseteq Notices
           /\ task[w].left[Current(w)] \in Nat \cup {Same}
           /\ Left(w) \in LeftSet
           /\ DOMAIN Left(w) = DOMAIN task[w].left \ {Current(w)}
           /\ \A i \in DOMAIN Left(w) : Left(w)[i] = task[w].left[i]
  <1>1. /\ task[w].left \in LeftSet /\ DOMAIN task[w].left \subseteq Written
        /\ Written \subseteq Notices
    BY MailTypesOK DEF MailTypes, TaskSet
  <1>2. \A i \in DOMAIN task[w].left : task[w].left[i] \in Nat \cup {Same}
    BY <1>1, NothingLeft
  <1>3. Holds(w, Current(w)) /\ Current(w) \in Written
    BY CurrentIsHeld DEF Delivering, MailTypes
  <1>4. PICK S : S = DOMAIN task[w].left \ {Current(w)}
    OBVIOUS
  <1>5. Left(w) = [i \in S |-> task[w].left[i]]
    BY <1>4 DEF Left, Restrict
  <1>6. Left(w) \in LeftSet
    BY <1>1, <1>2, <1>4, <1>5, IsLeft
  <1> QED
    BY <1>1, <1>2, <1>3, <1>4, <1>5, <1>6 DEF Holds

\* A worker writes what became of a row it held, and counts the attempt.
LEMMA RowRecorded ==
    ASSUME NoticesTypeOK, NEW i \in Notices, Delivered(i),
           NEW w \in Workers, Holds(w, i), Current(w) = i,
           notice'[i].status \notin {"none", "pending"},
           notice'[i].retries
              = IF task[w].left[i] = Same THEN notice[i].retries ELSE task[w].left[i],
           task[w].answer # "none" => notice'[i].status = task[w].answer,
           UNCHANGED <<accepted, unclear, upset>>,
           \A v \in Workers \ {w} : task'[v] = task[v],
           ~Holds(w, i)'
    PROVE  Delivered(i)'
  <1>1. \A v \in Workers \ {w} : ~Holds(v, i)
    BY DEF Delivered, HeldByOne
  <1>2. \A v \in Workers : ~Holds(v, i)' /\ ~InHand(v, i)'
    BY <1>1 DEF Holds, InHand
  <1>3. HeldByOne(i)' /\ HeldAs(i)'
    BY <1>2 DEF HeldByOne, HeldAs, Workers
  <1>4. /\ notice[i].retries \in Nat /\ accepted[i] \in Nat /\ upset \in Nat /\ Limit \in Nat
        /\ Shown(i) \in {0, 1} /\ Open(i) \in {0, 1}
    BY MailTypesOK DEF Shown, Open
  <1>5. Shown(i)' = 1 /\ Open(i)' = 0
    BY <1>2 DEF Shown, Open, Workers
  <1>6. accepted[i] <= notice[i].retries + Shown(i) + upset + Open(i)
    BY Zenon DEF Delivered, Counted
  <1>7. /\ notice'[i].retries \in Nat /\ notice'[i].retries <= Limit
        /\ notice[i].retries + Shown(i) + 1 <= notice'[i].retries + Shown(i)'
        /\ notice[i].status \in {"pending", "failed"}
    <2>1. CASE notice[i].status = "pending" /\ task[w].left[i] = Same
      <3>1. notice[i].status \in {"none", "pending"} => notice[i].retries = 0
        BY Zenon DEF Delivered, Counted
      <3>2. Shown(i) = 0
        BY <2>1 DEF Shown
      <3> QED  BY <1>4, <1>5, <2>1, <3>1, <3>2
    <2>2. CASE /\ notice[i].status = "failed" /\ notice[i].retries < Limit
               /\ task[w].left[i] = notice[i].retries + 1
      <3>1. Shown(i) = 1 /\ task[w].left[i] # Same
        BY <1>4, <2>2 DEF Shown, Same
      <3> QED  BY <1>4, <1>5, <2>2, <3>1
    <2> QED
      BY <2>1, <2>2 DEF Delivered, HeldAs
  <1>8. accepted'[i] <= notice'[i].retries + Shown(i)' + upset' + Open(i)'
    <2>1. \A a, r, s, u, o, t, x \in Nat :
             a <= r + s + u + o /\ o <= 1 /\ r + s + 1 <= t + x => a <= t + x + u + 0
      OBVIOUS
    <2>2. Open(i) <= 1 /\ Open(i) \in Nat /\ Shown(i) \in Nat /\ Shown(i)' \in Nat
      BY <1>4, <1>5
    <2>3. accepted[i] <= notice'[i].retries + Shown(i)' + upset + 0
      BY ONLY <1>4, <1>6, <1>7, <2>1, <2>2
    <2> QED  BY <1>5, <2>3
  <1>9. Counted(i)'
    <2>1. /\ notice'[i].status \in {"none", "pending"} => notice'[i].retries = 0
          /\ notice'[i].status = "none" => accepted'[i] = 0
      OBVIOUS
    <2> QED  BY <1>7, <1>8, <2>1, Zenon DEF Counted
  <1>10. TakenOnce(i)'
    <2>1. \A v \in Workers : InHand(v, i) => v = w
      BY <1>1 DEF InHand
    <2> QED  BY <1>7, <2>1 DEF TakenOnce, Delivered
  <1> QED
    BY <1>3, <1>9, <1>10 DEF Delivered

LEMMA RecordStep ==
    ASSUME MailInv, NEW w \in Workers,
           NEW status \in {"success", "failed", "skipped"},
           Delivering(w), Record(w, status),
           task[w].answer # "none" => status = task[w].answer
    PROVE  /\ MailTypes' /\ Quietly
           /\ \A i \in Notices \ byHand' : Delivered(i)'
  <1>1. NoticesTypeOK /\ TasksMatch /\ MailTypes
    BY DEF MailInv, MailTypes
  <1>2. PICK n, left, next :
          /\ n = Current(w) /\ left = Left(w)
          /\ next = [task[w] EXCEPT !.left = left, !.answer = "none"]
    OBVIOUS
  <1>3. PICK retries : retries = IF task[w].left[n] = Same THEN notice[n].retries
                                 ELSE task[w].left[n]
    OBVIOUS
  <1>4. /\ Holds(w, n) /\ n \in Written /\ Written \subseteq Notices
        /\ task[w].left[n] \in Nat \cup {Same}
        /\ left \in LeftSet /\ DOMAIN left = DOMAIN task[w].left \ {n}
        /\ \A i \in DOMAIN left : left[i] = task[w].left[i]
    BY <1>1, <1>2, LeftIs
  <1>5. /\ Goes(w, next) /\ UNCHANGED <<accepted, unclear, byHand, manual, crossed, upset>>
        /\ notice' = [notice EXCEPT ![n].status = status,
                        ![n].retries = IF task[w].left[n] = Same THEN @
                                       ELSE task[w].left[n]]
    BY <1>2 DEF Record
  <1>6. /\ notice \in [Notices -> NoticeRows] /\ n \in Notices
        /\ notice[n].retries \in Nat /\ task[w] \in TaskSet
        /\ DOMAIN task[w].left \subseteq Written
    BY <1>1, <1>4, MailTypesOK
  <1>7. retries \in Nat
    BY <1>3, <1>4, <1>6
  <1>8. \A r \in NoticeRows, k \in Nat :
           /\ [r EXCEPT !.status = status, !.retries = k] \in NoticeRows
           /\ [r EXCEPT !.status = status, !.retries = k].status = status
           /\ [r EXCEPT !.status = status, !.retries = k].retries = k
    BY DEF NoticeRows
  <1>9. notice' = [notice EXCEPT ![n] = [notice[n] EXCEPT !.status = status,
                                                          !.retries = retries]]
    <2>1. \A r \in NoticeRows : \A k : [r EXCEPT !.status = status].retries = r.retries
      BY DEF NoticeRows
    <2> QED  BY <1>3, <1>5, <1>6, <2>1
  <1>10. /\ notice' \in [Notices -> NoticeRows]
         /\ notice'[n].status = status /\ notice'[n].retries = retries
         /\ \A i \in Notices \ {n} : notice'[i] = notice[i]
    <2>1. notice[n] \in NoticeRows
      BY <1>6
    <2> QED  BY <1>6, <1>7, <1>8, <1>9, <2>1
  <1>11. Written' = Written
    BY <1>4, <1>10 DEF Written
  <1>12. /\ next \in TaskSet /\ next.left = left /\ next.answer = "none"
         /\ next.op = task[w].op /\ next.posts = task[w].posts
         /\ next.bookings = task[w].bookings
    BY <1>2, <1>4, <1>6 DEF TaskSet
  <1>13. /\ task' \in [Workers -> TaskSet]
         /\ \A v \in Workers \ {w} : task'[v] = task[v]
         /\ task'[w].left = left /\ task'[w].posts = task[w].posts
         /\ task'[w].bookings = task[w].bookings
         /\ \/ task'[w] = next
            \/ task'[w] = NoTask /\ left = Nothing
    BY <1>1, <1>5, <1>12, GoesOrReturns
  <1>14. MailTypes'
    <2>1. DOMAIN task'[w].left \subseteq Written
      BY <1>4, <1>6, <1>13
    <2>2. /\ task'[w].answer = "none"
          /\ task'[w].op = "retry" => w = Retrier
          /\ task'[w].posts # <<>> => task'[w].op \in {"send", "remind"}
          /\ task'[w].bookings # {} => task'[w].op = "remind"
      <3>1. CASE task'[w] = next
        BY <1>1, <1>12, <3>1 DEF TasksMatch
      <3>2. CASE task'[w] = NoTask
        BY <3>2, IdleIs DEF IdleFields
      <3> QED  BY <1>13, <3>1, <3>2
    <2>3. /\ accepted' \in [Notices -> Nat] /\ upset' \in 0..MaxUpset
          /\ unclear' \subseteq Written /\ byHand' \subseteq Written
          /\ manual' = manual /\ crossed' = crossed
      BY <1>1, <1>5 DEF NoticesTypeOK
    <2> QED  BY <1>1, <1>10, <1>11, <1>13, <2>1, <2>2, <2>3, OneGoes
  <1>15. ASSUME NEW i \in Notices \ byHand'
         PROVE  Delivered(i)'
    <2>1. Delivered(i) /\ upset \in Nat
      BY <1>1, <1>5, MailTypesOK DEF MailInv
    <2>2. CASE i = n
      <3>1. ~Holds(w, i)'
        BY <1>4, <1>13, <2>2 DEF Holds
      <3> QED
        BY <1>1, <1>2, <1>3, <1>4, <1>5, <1>6, <1>10, <1>13, <2>1, <2>2, <3>1,
           RowRecorded
    <2>3. CASE i # n
      <3>1. ~InHand(w, i)
        BY <1>2, <2>3 DEF InHand
      <3>2. ASSUME Holds(w, i)'
            PROVE  /\ Holds(w, i) /\ task'[w].left[i] = task[w].left[i]
                   /\ task'[w].op = task[w].op
        <4>1. task'[w] = next
          BY <1>13, <3>2, IdleIs DEF IdleFields, Holds
        <4> QED  BY <1>4, <1>12, <1>13, <3>2, <4>1 DEF Holds
      <3> QED  BY <1>1, <1>5, <1>10, <1>13, <2>1, <2>3, <3>1, <3>2, HandsStay
    <2> QED  BY <2>2, <2>3
  <1>16. Quietly
    <2>1. \A r \in NoticeRows : \A k :
            /\ [r EXCEPT !.status = status, !.retries = k].booking = r.booking
            /\ [r EXCEPT !.status = status, !.retries = k].channel = r.channel
      BY DEF NoticeRows
    <2>2. \A i \in Notices : /\ notice'[i].booking = notice[i].booking
                             /\ notice'[i].channel = notice[i].channel
      BY <1>6, <1>9, <1>10, <2>1
    <2> QED  BY <1>5, <1>11, <1>13, <2>2 DEF Quietly
  <1> QED
    BY <1>14, <1>15, <1>16

\* The provider answers: only the worker that holds the row asked it.
LEMMA RowHanded ==
    ASSUME NoticesTypeOK, NEW i \in Notices, Delivered(i),
           NEW w \in Workers, Holds(w, i), Current(w) = i,
           task[w].answer = "none", NEW taken \in BOOLEAN, NEW answer \in {"success", "failed"},
           answer = "success" => taken,
           accepted'[i] = IF taken THEN accepted[i] + 1 ELSE accepted[i],
           taken /\ answer = "failed" => i \in unclear',
           i \in unclear => i \in unclear',
           UNCHANGED <<notice, upset>>,
           \A v \in Workers \ {w} : task'[v] = task[v],
           task'[w].left = task[w].left, task'[w].op = task[w].op,
           task'[w].answer = answer
    PROVE  Delivered(i)'
  <1>1. \A v \in Workers \ {w} : ~Holds(v, i)
    BY DEF Delivered, HeldByOne
  <1>2. \A v \in Workers : ~InHand(v, i)
    BY <1>1 DEF InHand
  <1>3. \A v \in Workers : Holds(v, i)' <=> v = w
    BY <1>1 DEF Holds
  <1>4. InHand(w, i)'
    BY <1>3 DEF InHand, Current
  <1>5. HeldByOne(i)' /\ HeldAs(i)'
    <2>1. HeldAs(i)
      BY DEF Delivered
    <2> QED  BY <1>3, <2>1 DEF HeldByOne, HeldAs, Workers, Same
  <1>6. notice[i].status \in {"pending", "failed"}
    BY DEF Delivered, HeldAs
  <1>7. /\ notice[i].retries \in Nat /\ accepted[i] \in Nat /\ upset \in Nat
        /\ Shown(i) \in {0, 1} /\ Shown(i)' = Shown(i)
    BY MailTypesOK DEF Shown
  <1>8. Open(i) = 0 /\ Open(i)' = 1
    BY <1>2, <1>4 DEF Open, Workers
  <1>9. accepted'[i] <= notice'[i].retries + Shown(i)' + upset' + Open(i)'
    <2>1. accepted[i] <= notice[i].retries + Shown(i) + upset + Open(i)
      BY Zenon DEF Delivered, Counted
    <2>2. accepted'[i] <= accepted[i] + 1 /\ accepted'[i] \in Nat
      BY <1>7
    <2> QED  BY <1>7, <1>8, <2>1, <2>2
  <1>10. Counted(i)'
    <2>1. /\ notice[i].retries <= Limit
          /\ notice[i].status \in {"none", "pending"} => notice[i].retries = 0
      BY Zenon DEF Delivered, Counted
    <2>2. /\ notice'[i].retries <= Limit
          /\ notice'[i].status \in {"none", "pending"} => notice'[i].retries = 0
          /\ notice'[i].status = "none" => accepted'[i] = 0
      BY <1>6, <2>1
    <2> QED  BY <1>9, <2>2, Zenon DEF Counted
  <1>11. TakenOnce(i)'
    <2>1. i \notin unclear' => accepted[i] = 0
      BY <1>2, <1>6 DEF Delivered, TakenOnce
    <2> QED  BY <1>4, <2>1 DEF TakenOnce, Workers
  <1> QED
    BY <1>5, <1>10, <1>11 DEF Delivered

LEMMA HandStep ==
    ASSUME MailInv, NEW w \in Workers, Hand(w)
    PROVE  /\ MailTypes' /\ Quietly
           /\ \A i \in Notices \ byHand' : Delivered(i)'
  <1>1. NoticesTypeOK /\ TasksMatch /\ MailTypes
    BY DEF MailInv, MailTypes
  <1>2. PICK n : n = Current(w)
    OBVIOUS
  <1>3. PICK taken \in BOOLEAN, answer \in {"success", "failed"} :
          /\ answer = "success" => taken
          /\ accepted' = IF taken THEN [accepted EXCEPT ![n] = @ + 1] ELSE accepted
          /\ unclear' = IF taken /\ answer = "failed" THEN unclear \cup {n} ELSE unclear
          /\ task' = [task EXCEPT ![w].answer = answer]
    BY <1>2 DEF Hand
  <1>4. /\ Delivering(w) /\ task[w].answer = "none"
        /\ UNCHANGED <<notice, byHand, manual, crossed, upset>>
    BY DEF Hand
  <1>5. Holds(w, n) /\ n \in Written /\ Written \subseteq Notices
    BY <1>1, <1>2, <1>4, LeftIs
  <1>6. /\ task \in [Workers -> TaskSet] /\ task[w] \in TaskSet
        /\ accepted \in [Notices -> Nat] /\ DOMAIN task[w].left \subseteq Written
    BY <1>1, MailTypesOK DEF NoticesTypeOK
  <1>7. /\ task'[w] = [task[w] EXCEPT !.answer = answer]
        /\ \A v \in Workers \ {w} : task'[v] = task[v]
        /\ task' \in [Workers -> TaskSet]
    <2>1. [task[w] EXCEPT !.answer = answer] \in TaskSet
      BY <1>6 DEF TaskSet
    <2> QED  BY <1>3, <1>6, <2>1
  <1>8. /\ task'[w].answer = answer /\ task'[w].left = task[w].left
        /\ task'[w].op = task[w].op /\ task'[w].posts = task[w].posts
        /\ task'[w].bookings = task[w].bookings
    BY <1>6, <1>7 DEF TaskSet
  <1>9. /\ accepted' \in [Notices -> Nat] /\ \A i \in Notices \ {n} : accepted'[i] = accepted[i]
        /\ accepted'[n] = IF taken THEN accepted[n] + 1 ELSE accepted[n]
    BY <1>3, <1>5, <1>6
  <1>10. MailTypes'
    <2>1. /\ task'[w].op \notin {"idle", "committed"} /\ task'[w].left # Nothing
          /\ task'[w].posts # <<>> => task'[w].op \in {"send", "remind"}
          /\ task'[w].bookings # {} => task'[w].op = "remind"
          /\ task'[w].op = "retry" => w = Retrier
      BY <1>1, <1>4, <1>8 DEF TasksMatch, Delivering
    <2>2. /\ notice' \in [Notices -> NoticeRows] /\ upset' \in 0..MaxUpset
          /\ unclear' \subseteq Written /\ byHand' \subseteq Written
          /\ manual' = manual /\ crossed' = crossed
      BY <1>1, <1>3, <1>4, <1>5 DEF NoticesTypeOK
    <2> QED  BY <1>1, <1>4, <1>6, <1>7, <1>8, <1>9, <2>1, <2>2, WrittenStays,
                OneGoes
  <1>11. ASSUME NEW i \in Notices \ byHand'
         PROVE  Delivered(i)'
    <2>1. Delivered(i) /\ upset \in Nat
      BY <1>1, <1>4, MailTypesOK DEF MailInv
    <2>2. (i \in unclear => i \in unclear') /\ (taken /\ answer = "failed" => n \in unclear')
      BY <1>3
    <2>3. CASE i = n
      BY <1>1, <1>2, <1>3, <1>4, <1>5, <1>7, <1>8, <1>9, <2>1, <2>2, <2>3,
         RowHanded
    <2>4. CASE i # n
      <3>1. ~InHand(w, i)
        BY <1>2, <2>4 DEF InHand
      <3>2. Holds(w, i)' =>
              /\ Holds(w, i) /\ task'[w].left[i] = task[w].left[i]
              /\ task'[w].op = task[w].op
        BY <1>8 DEF Holds
      <3>3. /\ notice'[i] = notice[i] /\ accepted'[i] = accepted[i]
            /\ upset' \in Nat /\ upset' >= upset
        BY <1>4, <1>9, <2>1, <2>4
      <3> QED  BY <1>1, <1>7, <2>1, <2>2, <3>1, <3>2, <3>3, HandsStay
    <2> QED  BY <2>3, <2>4
  <1>12. Quietly
    BY <1>4, <1>7, <1>8, WrittenStays DEF Quietly
  <1> QED
    BY <1>10, <1>11, <1>12

LEMMA FailsStep ==
    ASSUME MailInv, NEW w \in Workers, Fails(w)
    PROVE  /\ MailTypes' /\ Quietly
           /\ \A i \in Notices \ byHand' : Delivered(i)'
  <1>1. NoticesTypeOK /\ TasksMatch /\ MailTypes
    BY DEF MailInv, MailTypes
  <1>2. PICK left : left = IF Delivering(w) THEN Left(w) ELSE Nothing
    OBVIOUS
  <1>3. PICK next : next = [task[w] EXCEPT !.posts = <<>>, !.answer = "none", !.left = left]
    OBVIOUS
  <1>4. /\ Goes(w, next) /\ task[w].answer # "success"
        /\ upset < MaxUpset /\ upset' = upset + 1
        /\ UNCHANGED <<notice, accepted, unclear, byHand, manual, crossed>>
    BY <1>2, <1>3 DEF Fails, Upset
  <1>5. /\ task[w] \in TaskSet /\ DOMAIN task[w].left \subseteq Written
        /\ upset \in Nat /\ MaxUpset \in Nat
    BY <1>1, MailTypesOK, NoticesAssumption
  <1>6. /\ left \in LeftSet /\ DOMAIN left \subseteq DOMAIN task[w].left
        /\ \A i \in DOMAIN left : left[i] = task[w].left[i]
        /\ Delivering(w) => /\ Current(w) \notin DOMAIN left
                            /\ DOMAIN left = DOMAIN task[w].left \ {Current(w)}
    <2>1. CASE Delivering(w)
      BY <1>1, <1>2, <2>1, LeftIs
    <2>2. CASE ~Delivering(w)
      <3>1. left = Nothing /\ DOMAIN left = {}
        BY <1>2, <2>2, IdleIs DEF IdleFields
      <3>2. left \in LeftSet
        BY <1>1, <3>1, MailTypesOK, IdleIs DEF IdleFields, TaskSet
      <3> QED  BY <2>2, <3>1, <3>2
    <2> QED  BY <2>1, <2>2
  <1>7. /\ next \in TaskSet /\ next.left = left /\ next.answer = "none"
        /\ next.op = task[w].op /\ next.posts = <<>> /\ next.bookings = task[w].bookings
    <2>1. <<>> \in Seq(PostSet)
      OBVIOUS
    <2> QED  BY <1>3, <1>5, <1>6, <2>1 DEF TaskSet
  <1>8. /\ task' \in [Workers -> TaskSet]
        /\ \A v \in Workers \ {w} : task'[v] = task[v]
        /\ task'[w].left = left /\ task'[w].posts = <<>>
        /\ task'[w].bookings = task[w].bookings
        /\ \/ task'[w] = next
           \/ task'[w] = NoTask /\ left = Nothing
    BY <1>1, <1>4, <1>7, GoesOrReturns
  <1>9. MailTypes'
    <2>1. DOMAIN task'[w].left \subseteq Written
      BY <1>5, <1>6, <1>8
    <2>2. /\ task'[w].answer = "none"
          /\ task'[w].op = "retry" => w = Retrier
          /\ task'[w].bookings # {} => task'[w].op = "remind"
      <3>1. CASE task'[w] = next
        BY <1>1, <1>7, <3>1 DEF TasksMatch
      <3>2. CASE task'[w] = NoTask
        BY <3>2, IdleIs DEF IdleFields
      <3> QED  BY <1>8, <3>1, <3>2
    <2>3. /\ notice' \in [Notices -> NoticeRows] /\ accepted' \in [Notices -> Nat]
          /\ upset' \in 0..MaxUpset
          /\ unclear' \subseteq Written /\ byHand' \subseteq Written
          /\ manual' = manual /\ crossed' = crossed
      BY <1>1, <1>4, <1>5 DEF NoticesTypeOK
    <2> QED  BY <1>1, <1>4, <1>8, <2>1, <2>2, <2>3, WrittenStays, OneGoes
  <1>10. ASSUME NEW i \in Notices \ byHand'
         PROVE  Delivered(i)'
    <2>1. Delivered(i)
      BY <1>4 DEF MailInv
    <2>2. ASSUME Holds(w, i)'
          PROVE  /\ Holds(w, i) /\ task'[w].left[i] = task[w].left[i]
                 /\ task'[w].op = task[w].op
      <3>1. task'[w] = next
        BY <1>8, <2>2, IdleIs DEF IdleFields, Holds
      <3> QED  BY <1>6, <1>7, <1>8, <2>2, <3>1 DEF Holds
    <2>3. CASE ~InHand(w, i)
      BY <1>1, <1>4, <1>5, <1>8, <2>1, <2>2, <2>3, HandsStay
    <2>4. CASE InHand(w, i)
      <3>1. Holds(w, i) /\ Current(w) = i /\ Delivering(w)
        BY <1>1, <2>4 DEF InHand, TasksMatch
      <3>2. \A v \in Workers \ {w} : ~Holds(v, i)
        BY <2>1, <3>1 DEF Delivered, HeldByOne
      <3>3. \A v \in Workers : ~Holds(v, i)'
        BY <1>6, <1>8, <3>1, <3>2 DEF Holds
      <3>4. \A v \in Workers : ~(InHand(v, i) /\ task[v].answer = "success")
        BY <1>4, <3>2 DEF InHand
      <3> QED  BY <1>1, <1>4, <2>1, <3>3, <3>4, RowDropped
    <2> QED  BY <2>3, <2>4
  <1>11. Quietly
    BY <1>4, <1>8, WrittenStays DEF Quietly
  <1> QED
    BY <1>9, <1>10, <1>11

LEMMA RestartStep ==
    ASSUME MailInv, Restart
    PROVE  /\ MailTypes' /\ Quietly
           /\ \A i \in Notices \ byHand' : Delivered(i)'
  <1>1. NoticesTypeOK /\ TasksMatch /\ InOrder
    BY DEF MailInv, MailTypes
  <1>2. /\ upset < MaxUpset /\ upset' = upset + 1
        /\ task' = [w \in Workers |-> NoTask]
        /\ unclear' = unclear \cup {Current(w) :
                                      w \in {v \in Workers : task[v].answer = "success"}}
        /\ UNCHANGED <<notice, accepted, byHand, manual, crossed>>
    BY DEF Restart, Upset
  <1>3. upset \in Nat /\ MaxUpset \in Nat /\ NoTask \in TaskSet
    BY <1>1, MailTypesOK, NoticesAssumption
  <1>4. Written' = Written /\ InOrder'
    BY <1>1, <1>2, WrittenStays
  <1>5. \A w \in Workers : task'[w] = NoTask
    BY <1>2
  <1>6. NoticesTypeOK'
    <2>1. \A w \in Workers : task[w].answer = "success" => Current(w) \in Written
      BY <1>1, CurrentIsHeld DEF TasksMatch, Delivering
    <2>2. unclear' \subseteq Written'
      BY <1>1, <1>2, <1>4, <2>1 DEF NoticesTypeOK
    <2>3. \A w \in Workers : DOMAIN task'[w].left \subseteq Written'
      BY <1>5, IdleIs DEF IdleFields
    <2>4. /\ notice' \in [Notices -> NoticeRows] /\ accepted' \in [Notices -> Nat]
          /\ upset' \in 0..MaxUpset /\ byHand' \subseteq Written'
          /\ manual' \subseteq Written' /\ crossed' \subseteq Written'
          /\ \A i \in Written : notice'[i].status # "none"
      BY <1>1, <1>2, <1>3, <1>4 DEF NoticesTypeOK, Written
    <2>5. task' \in [Workers -> TaskSet]
      BY <1>2, <1>3
    <2> QED  BY <1>1, <2>2, <2>3, <2>4, <2>5, TypesFollow
  <1>7. TasksMatch'
    BY <1>5, IdleIs DEF TasksMatch, IdleFields, Workers
  <1>8. ASSUME NEW i \in Notices \ byHand'
        PROVE  Delivered(i)'
    <2>1. Delivered(i) /\ (i \in unclear => i \in unclear')
      BY <1>2 DEF MailInv
    <2>2. \A w \in Workers : ~Holds(w, i)'
      BY <1>5, IdleIs DEF IdleFields, Holds
    <2>3. \A w \in Workers : InHand(w, i) /\ task[w].answer = "success" => i \in unclear'
      BY <1>2 DEF InHand
    <2> QED  BY <1>1, <1>2, <2>1, <2>2, <2>3, RowDropped
  <1>9. Quietly
    BY <1>2, <1>5, IdleIs, WrittenStays DEF Quietly, IdleFields
  <1> QED
    BY <1>4, <1>6, <1>7, <1>8, <1>9 DEF MailTypes

-----------------------------------------------------------------------------
(* The reminders                                                           *)

\* What is not about a booking changes nothing for the reminders.
LEMMA AheadStays ==
    ASSUME NoticesTypeOK, Ahead, RemindedOnce,
           Written' \subseteq Notices, manual' = manual, crossed' = crossed,
           \A i \in Written' :
              \/ notice'[i].booking = NoBooking
              \/ /\ i \in Written
                 /\ notice'[i].booking = notice[i].booking
                 /\ notice'[i].channel = notice[i].channel,
           task'[Reminder].posts \in {task[Reminder].posts, <<>>},
           task'[Reminder].bookings \in {task[Reminder].bookings, {}}
    PROVE  Ahead' /\ RemindedOnce'
  <1>1. task[Reminder].bookings \subseteq Expected /\ NoBooking \notin Expected
    BY MailTypesOK, NoticesAssumption DEF TaskSet
  <1>2. NoBooking' = NoBooking
    BY DEF NoBooking
  <1>3. ASSUME NEW b \in task'[Reminder].bookings, NEW i \in Written', notice'[i].booking = b
        PROVE  i \in crossed'
    BY <1>1, <1>3 DEF Ahead
  <1>4. ASSUME NEW k \in DOMAIN task'[Reminder].posts,
               task'[Reminder].posts[k].booking # NoBooking
        PROVE  /\ task'[Reminder].posts[k].booking \notin task'[Reminder].bookings
               /\ \A i \in Written' :
                     /\ notice'[i].booking = task'[Reminder].posts[k].booking
                     /\ notice'[i].channel = task'[Reminder].posts[k].channel
                     => i \in crossed'
               /\ \A m \in DOMAIN task'[Reminder].posts :
                     m # k => task'[Reminder].posts[m].channel # task'[Reminder].posts[k].channel
    <2>1. task'[Reminder].posts = task[Reminder].posts
      BY <1>4
    <2> QED  BY <1>4, <2>1 DEF Ahead
  <1>5. RemindedOnce'
    BY <1>2 DEF RemindedOnce, SameReminder
  <1> QED
    BY <1>2, <1>3, <1>4, <1>5 DEF Ahead

LEMMA QuietlyReminds ==
    ASSUME MailInv, MailTypes', Quietly
    PROVE  Ahead' /\ RemindedOnce'
  <1>1. NoticesTypeOK /\ Written \subseteq Notices /\ Reminder \in Workers
    BY MailTypesOK DEF MailInv, MailTypes
  <1> QED
    BY <1>1, AheadStays DEF Quietly, MailInv

\* Requests and services begin to send, or commit rows that are no reminders.
LEMMA SendReminds ==
    ASSUME MailInv, NEW w \in Senders,
           Send(w) \/ Enqueue(w)
    PROVE  Ahead' /\ RemindedOnce'
  <1>1. /\ NoticesTypeOK /\ Written \subseteq Notices /\ w \in Workers \ {Reminder}
        /\ task \in [Workers -> TaskSet] /\ Reminder \in Workers
    BY MailTypesOK DEF MailInv, MailTypes, Workers
  <1>2. PICK e : task' = [task EXCEPT ![w] = e]
    <2>1. CASE Send(w)
      BY <2>1 DEF Send
    <2>2. CASE Enqueue(w)
      BY <2>2, Zenon DEF Enqueue
    <2> QED  BY <2>1, <2>2
  <1>3. task'[Reminder] = task[Reminder]
    BY <1>1, <1>2
  <1>4. manual' = manual /\ crossed' = crossed
    BY DEF Send, Enqueue
  <1>5. /\ Written' \subseteq Notices
        /\ \A i \in Written' :
              \/ notice'[i].booking = NoBooking
              \/ /\ i \in Written
                 /\ notice'[i].booking = notice[i].booking
                 /\ notice'[i].channel = notice[i].channel
    <2>1. CASE Send(w)
      BY <1>1, <2>1, WrittenStays DEF Send
    <2>2. CASE Enqueue(w)
      <3>1. PICK first : first = Min(Unwritten)
        OBVIOUS
      <3>2. PICK channels \in Templates :
            LET ids == first .. first + Len(channels) - 1
            IN  notice' = [i \in Notices |->
                             IF i \in ids
                             THEN New(Posts(NoBooking, channels)[i - first + 1])
                             ELSE notice[i]]
        BY <2>2, <3>1, Zenon DEF Enqueue
      <3>3. first \in Nat
        BY <1>1, <2>2, <3>1, NextRow, MailTypesOK DEF Enqueue
      <3>4. PICK n : n = Len(channels) /\ n \in Nat
        BY PostsAre
      <3>5. \A k \in 1..n : New(Posts(NoBooking, channels)[k]).booking
                              = NoBooking
        <4>1. \A p : New(p).booking = p.booking
          BY DEF New
        <4>2. \A k \in 1..n : Posts(NoBooking, channels)[k].booking = NoBooking
          BY <3>4, PostsAre
        <4> QED  BY <4>1, <4>2
      <3>6. \A i \in Notices : notice'[i] = notice[i] \/ notice'[i].booking = NoBooking
        <4>1. ASSUME NEW i \in first .. first + n - 1
              PROVE  i - first + 1 \in 1..n
          BY <3>3, <3>4
        <4>2. \A i \in Notices :
                 notice'[i] = IF i \in first .. first + n - 1
                              THEN New(Posts(NoBooking, channels)[i - first + 1])
                              ELSE notice[i]
          BY <3>2, <3>4
        <4> QED  BY <3>5, <4>1, <4>2
      <3> QED  BY <3>6 DEF Written
    <2> QED  BY <2>1, <2>2
  <1> QED
    BY <1>1, <1>3, <1>4, <1>5, AheadStays DEF MailInv

\* The reminders begin with the bookings nobody was reminded of.
LEMMA BeginReminds ==
    ASSUME MailInv, RemindRead \/ RemindNext
    PROVE  Ahead' /\ RemindedOnce'
  <1>1. /\ NoticesTypeOK /\ task \in [Workers -> TaskSet] /\ Reminder \in Workers
        /\ task[Reminder] \in TaskSet
    BY MailTypesOK DEF MailInv, MailTypes
  <1>2. /\ NoBooking' = NoBooking
        /\ UNCHANGED <<notice, manual, crossed>>
    BY DEF NoBooking, RemindRead, RemindNext
  <1>3. Written' = Written
    BY <1>2, WrittenStays
  <1>4. RemindedOnce'
    BY <1>2, <1>3 DEF RemindedOnce, SameReminder, MailInv
  <1>5. Ahead'
    <2>1. CASE RemindRead
      <3>1. PICK bookings : bookings = {b \in Expected : ~Reminded(b)}
        OBVIOUS
      <3>2. PICK e : e = [NoTask EXCEPT !.op = "remind", !.bookings = bookings]
        OBVIOUS
      <3>3. task'[Reminder] = e
        BY <1>1, <2>1, <3>1, <3>2 DEF RemindRead
      <3>4. e.bookings = bookings /\ e.posts = <<>>
        BY <3>2 DEF NoTask
      <3>5. \A b \in task'[Reminder].bookings, i \in Written : notice[i].booking # b
        BY <3>1, <3>3, <3>4 DEF Reminded
      <3>6. task'[Reminder].posts = <<>> /\ DOMAIN task'[Reminder].posts = {}
        BY <3>3, <3>4
      <3> QED  BY <1>2, <1>3, <3>5, <3>6 DEF Ahead
    <2>2. CASE RemindNext
      <3>1. PICK b \in task[Reminder].bookings, channels \in Templates :
               task' = [task EXCEPT ![Reminder].bookings = @ \ {b},
                                    ![Reminder].posts = Posts(b, channels)]
        BY <2>2 DEF RemindNext
      <3>2. /\ task'[Reminder].bookings = task[Reminder].bookings \ {b}
            /\ task'[Reminder].posts = Posts(b, channels)
        BY <1>1, <3>1 DEF TaskSet
      <3>3. b \in Expected
        BY <1>1 DEF TaskSet
      <3>4. PICK posts : posts = Posts(b, channels)
        OBVIOUS
      <3>5. PICK n : /\ n = Len(channels) /\ DOMAIN posts = 1..n
                     /\ \A k \in 1..n : posts[k].booking = b /\ posts[k].channel = channels[k]
                     /\ \A k, m \in 1..n : m # k => channels[m] # channels[k]
        BY <3>3, <3>4, PostsAre
      <3>6. \A i \in Written : notice[i].booking = b => i \in crossed
        BY DEF MailInv, Ahead
      <3>7. \A c \in task'[Reminder].bookings, i \in Written :
               notice[i].booking = c => i \in crossed
        BY <3>2 DEF MailInv, Ahead
      <3>8. task'[Reminder].posts = posts
        BY <3>2, <3>4
      <3> QED
        BY <1>2, <1>3, <3>2, <3>5, <3>6, <3>7, <3>8 DEF Ahead
    <2> QED  BY <2>1, <2>2
  <1> QED
    BY <1>4, <1>5

\* Whose post is written next is written, and the others of it are left.
LEMMA PostReminds ==
    ASSUME MailInv, NEW w \in Workers, Post(w)
    PROVE  Ahead' /\ RemindedOnce'
  <1>1. /\ NoticesTypeOK /\ task \in [Workers -> TaskSet] /\ Reminder \in Workers
        /\ notice \in [Notices -> NoticeRows] /\ Written \subseteq Notices
        /\ task[w] \in TaskSet
    BY MailTypesOK DEF MailInv, MailTypes
  <1>2. NoBooking' = NoBooking
    BY DEF NoBooking
  <1>3. PICK n, posts : n = Min(Unwritten) /\ posts = task[w].posts
    OBVIOUS
  <1>4. /\ posts # <<>> /\ Unwritten # {}
        /\ notice' = [notice EXCEPT ![n] = New(Head(posts))]
        /\ task' = [task EXCEPT ![w].posts = Tail(@), ![w].left = At(n, Same)]
    BY <1>3 DEF Post
  <1>5. n \in Notices \ Written /\ \A i \in Written : i < n
    <2>1. n \in Notices \ Written /\ n \in Nat /\ Written \subseteq Nat
      BY <1>1, <1>3, <1>4, NextRow, NoticesAssumption
    <2>2. ASSUME NEW i \in Written, n < i  PROVE FALSE
      BY <2>1, <2>2, <1>1 DEF MailInv, MailTypes, InOrder
    <2> QED  BY <2>1, <2>2
  <1>6. /\ task'[w].posts = Tail(posts) /\ task'[w].bookings = task[w].bookings
        /\ \A v \in Workers \ {w} : task'[v] = task[v]
    BY <1>1, <1>3, <1>4 DEF TaskSet
  <1>7. /\ posts \in Seq(PostSet) /\ Head(posts) = posts[1] /\ 1 \in DOMAIN posts
        /\ \A k \in DOMAIN Tail(posts) : /\ k + 1 \in DOMAIN posts /\ k + 1 # 1
                                         /\ Tail(posts)[k] = posts[k + 1]
        /\ \A k, m \in DOMAIN Tail(posts) : k # m => k + 1 # m + 1
    BY <1>1, <1>3, <1>4 DEF TaskSet
  <1>8. /\ notice'[n].booking = posts[1].booking /\ notice'[n].channel = posts[1].channel
        /\ Written' = Written \cup {n}
        /\ \A i \in Notices \ {n} : notice'[i] = notice[i]
    <2>1. notice'[n] = New(posts[1]) /\ \A i \in Notices \ {n} : notice'[i] = notice[i]
      BY <1>1, <1>4, <1>5, <1>7
    <2>2. /\ notice'[n].booking = posts[1].booking /\ notice'[n].channel = posts[1].channel
          /\ notice'[n].status = "pending"
      BY <2>1 DEF New
    <2> QED  BY <1>5, <2>1, <2>2 DEF Written
  <1>9. PICK b : b = posts[1].booking
    OBVIOUS
  <1>10. /\ crossed \subseteq crossed' /\ manual \subseteq manual'
         /\ crossed' \subseteq crossed \cup {n}
         /\ w # Reminder /\ b # NoBooking => n \in manual'
         /\ w # Reminder /\ b # NoBooking /\ OnTheList(b) => n \in crossed'
    BY <1>3, <1>7, <1>9 DEF Post
  <1>11. CASE w # Reminder
    <2>1. task'[Reminder] = task[Reminder]
      BY <1>1, <1>6, <1>11
    <2>2. RemindedOnce'
      <3> SUFFICES ASSUME NEW i \in Written', NEW j \in Written', i < j,
                          SameReminder(i, j)'
                   PROVE  j \in manual' \/ i \in crossed'
        BY DEF RemindedOnce
      <3>1. CASE i \in Written /\ j \in Written
        <4>1. SameReminder(i, j)
          BY <1>1, <1>2, <1>5, <1>8, <3>1 DEF SameReminder
        <4> QED  BY <1>10, <3>1, <4>1 DEF MailInv, RemindedOnce
      <3>2. CASE j = n
        BY <1>2, <1>8, <1>9, <1>10, <1>11, <3>2 DEF SameReminder
      <3>3. CASE i = n
        <4>1. n \in Nat /\ Written \subseteq Nat
          BY <1>1, <1>5, NoticesAssumption
        <4> QED  BY <1>5, <1>8, <3>3, <4>1
      <3> QED  BY <1>8, <3>1, <3>2, <3>3
    <2>3. ASSUME NEW c \in task[Reminder].bookings, NEW i \in Written',
                 notice'[i].booking = c
          PROVE  i \in crossed'
      <3>1. CASE i \in Written
        BY <1>1, <1>5, <1>8, <1>10, <2>3, <3>1 DEF MailInv, Ahead
      <3>2. CASE i = n
        <4>1. c # NoBooking
          BY <1>1, NoticesAssumption DEF TaskSet
        <4> QED  BY <1>8, <1>9, <1>10, <1>11, <2>3, <3>2, <4>1 DEF OnTheList
      <3> QED  BY <1>8, <3>1, <3>2
    <2>4. ASSUME NEW k \in DOMAIN task[Reminder].posts, NEW i \in Written',
                 task[Reminder].posts[k].booking # NoBooking,
                 notice'[i].booking = task[Reminder].posts[k].booking,
                 notice'[i].channel = task[Reminder].posts[k].channel
          PROVE  i \in crossed'
      <3>1. CASE i \in Written
        BY <1>1, <1>5, <1>8, <1>10, <2>4, <3>1 DEF MailInv, Ahead
      <3>2. CASE i = n
        BY <1>8, <1>9, <1>10, <1>11, <2>4, <3>2 DEF OnTheList
      <3> QED  BY <1>8, <3>1, <3>2
    <2>5. Ahead'
      BY <1>2, <2>1, <2>3, <2>4 DEF MailInv, Ahead
    <2> QED
      BY <2>2, <2>5
  <1>12. CASE w = Reminder
    <2>1. \A k \in DOMAIN posts : posts[k].booking # NoBooking =>
             /\ posts[k].booking \notin task[w].bookings
             /\ \A i \in Written : /\ notice[i].booking = posts[k].booking
                                    /\ notice[i].channel = posts[k].channel
                                    => i \in crossed
             /\ \A m \in DOMAIN posts : m # k => posts[m].channel # posts[k].channel
      BY <1>3, <1>12 DEF MailInv, Ahead
    <2>2. RemindedOnce'
      <3> SUFFICES ASSUME NEW i \in Written', NEW j \in Written', i < j,
                          SameReminder(i, j)'
                   PROVE  j \in manual' \/ i \in crossed'
        BY DEF RemindedOnce
      <3>1. CASE i \in Written /\ j \in Written
        <4>1. SameReminder(i, j)
          BY <1>1, <1>2, <1>5, <1>8, <3>1 DEF SameReminder
        <4> QED  BY <1>10, <3>1, <4>1 DEF MailInv, RemindedOnce
      <3>2. CASE i \in Written /\ j = n
        BY <1>1, <1>2, <1>5, <1>7, <1>8, <1>10, <2>1, <3>2 DEF SameReminder
      <3>3. CASE i = n
        <4>1. n \in Nat /\ Written \subseteq Nat
          BY <1>1, <1>5, NoticesAssumption
        <4> QED  BY <1>5, <1>8, <3>3, <4>1
      <3> QED  BY <1>8, <3>1, <3>2, <3>3
    <2>3. ASSUME NEW c \in task[w].bookings, NEW i \in Written', notice'[i].booking = c
          PROVE  i \in crossed'
      <3>1. CASE i \in Written
        BY <1>1, <1>5, <1>8, <1>10, <1>12, <2>3, <3>1 DEF MailInv, Ahead
      <3>2. CASE i = n
        <4>1. c # NoBooking
          BY <1>1, NoticesAssumption DEF TaskSet
        <4> QED  BY <1>7, <1>8, <2>1, <2>3, <3>2, <4>1
      <3> QED  BY <1>8, <3>1, <3>2
    <2>4. ASSUME NEW k \in DOMAIN Tail(posts), Tail(posts)[k].booking # NoBooking
          PROVE  /\ Tail(posts)[k].booking \notin task[w].bookings
                 /\ \A i \in Written' : /\ notice'[i].booking = Tail(posts)[k].booking
                                         /\ notice'[i].channel = Tail(posts)[k].channel
                                         => i \in crossed'
                 /\ \A m \in DOMAIN Tail(posts) :
                       m # k => Tail(posts)[m].channel # Tail(posts)[k].channel
      <3>1. PICK p : p = k + 1 /\ p \in DOMAIN posts /\ p # 1 /\ Tail(posts)[k] = posts[p]
        BY <1>7
      <3>2. posts[1].channel # posts[p].channel
        BY <1>7, <2>1, <2>4, <3>1
      <3>3. ASSUME NEW i \in Written', notice'[i].booking = posts[p].booking,
                   notice'[i].channel = posts[p].channel
            PROVE  i \in crossed'
        <4>1. i \in Written
          BY <1>8, <3>2, <3>3
        <4>2. notice'[i] = notice[i]
          BY <1>1, <1>5, <1>8, <4>1
        <4> QED  BY <1>10, <2>1, <2>4, <3>1, <3>3, <4>1, <4>2
      <3>4. \A m \in DOMAIN Tail(posts) : m # k => Tail(posts)[m].channel # posts[p].channel
        BY <1>7, <2>1, <2>4, <3>1
      <3> QED  BY <2>1, <2>4, <3>1, <3>3, <3>4
    <2>5. Ahead'
      BY <1>2, <1>6, <1>12, <2>3, <2>4 DEF Ahead
    <2> QED
      BY <2>2, <2>5
  <1> QED
    BY <1>11, <1>12

-----------------------------------------------------------------------------
LEMMA MailInit == NoticesInit => MailInv
  <1> SUFFICES ASSUME NoticesInit
               PROVE  MailInv
    OBVIOUS
  <1>1. /\ notice = [i \in Notices |-> [status |-> "none", channel |-> "site", retries |-> 0,
                                        booking |-> NoBooking]]
        /\ task = [w \in Workers |-> NoTask]
        /\ accepted = [i \in Notices |-> 0]
        /\ unclear = {} /\ byHand = {} /\ manual = {} /\ crossed = {} /\ upset = 0
    BY DEF NoticesInit
  <1>2. Written = {}
    BY <1>1 DEF Written
  <1>3. \A w \in Workers : task[w] = NoTask
    BY <1>1
  <1>4. NoticesTypeOK
    <2>1. notice \in [Notices -> NoticeRows]
      BY <1>1 DEF NoticeRows
    <2>2. NoTask \in TaskFor({}) /\ DOMAIN NoTask.left = {}
      BY DEF NoTask, TaskFor, Nothing
    <2>3. accepted \in [Notices -> Nat] /\ upset \in 0..MaxUpset
      BY <1>1, NoticesAssumption
    <2>4. task = [w \in Workers |-> task[w]]
      BY <1>1
    <2> QED
      BY <1>1, <1>2, <1>3, <2>1, <2>2, <2>3, <2>4 DEF NoticesTypeOK
  <1>5. TasksMatch
    BY <1>3, IdleIs DEF TasksMatch, IdleFields
  <1>6. InOrder
    BY <1>2 DEF InOrder
  <1>7. ASSUME NEW i \in Notices
        PROVE  Delivered(i)
    <2>1. \A w \in Workers : ~Holds(w, i) /\ ~InHand(w, i)
      BY <1>3, IdleIs DEF Holds, InHand, IdleFields
    <2>2. Shown(i) \in {0, 1} /\ Open(i) \in {0, 1}
      BY DEF Shown, Open
    <2>3. notice[i].status = "none" /\ notice[i].retries = 0 /\ accepted[i] = 0
      BY <1>1
    <2>4. accepted[i] <= notice[i].retries + Shown(i) + upset + Open(i)
      BY <1>1, <2>2, <2>3
    <2>5. Limit \in Nat
      BY NoticesAssumption
    <2>6. notice[i].retries <= Limit
      BY <2>3, <2>5
    <2>7. Counted(i)
      BY <2>3, <2>4, <2>6, Zenon DEF Counted
    <2> QED
      BY <2>1, <2>3, <2>7 DEF Delivered, HeldByOne, HeldAs, TakenOnce
  <1>8. Ahead
    <2>1. \A w \in Workers : task[w].bookings = {} /\ DOMAIN task[w].posts = {}
      BY <1>3, IdleIs DEF IdleFields
    <2> QED  BY <2>1 DEF Ahead, Workers
  <1>9. RemindedOnce
    BY <1>2 DEF RemindedOnce
  <1> QED
    BY <1>4, <1>5, <1>6, <1>7, <1>8, <1>9 DEF MailInv, MailTypes

\* A step that changes nothing.
LEMMA MailStutters ==
    ASSUME MailInv, UNCHANGED noticesVars
    PROVE  MailInv'
  <1>1. UNCHANGED <<notice, task, accepted, unclear, byHand, manual, crossed, upset>>
    BY DEF noticesVars
  <1>2. NoticesTypeOK' /\ TasksMatch' /\ InOrder'
    BY <1>1 DEF MailInv, MailTypes, NoticesTypeOK, TasksMatch, InOrder, Written,
       Workers, NoticeRows, TaskFor, Delivering
  <1>3. NoticesTypeOK /\ upset \in Nat
    BY MailTypesOK DEF MailInv, MailTypes
  <1>4. ASSUME NEW i \in Notices \ byHand'
        PROVE  Delivered(i)'
    <2>1. Delivered(i)
      BY <1>1 DEF MailInv
    <2>2. \A w \in Workers : /\ Holds(w, i)' <=> Holds(w, i)
                             /\ InHand(w, i)' <=> InHand(w, i)
      BY <1>1 DEF Holds, InHand, Current
    <2> QED  BY <1>1, <1>3, <2>1, <2>2, RowStays
  <1>5. MailTypes'
    BY <1>2 DEF MailTypes
  <1>6. Quietly
    BY <1>1, WrittenStays DEF Quietly
  <1> QED
    BY <1>4, <1>5, <1>6, QuietlyReminds DEF MailInv

LEMMA MailNext == MailInv /\ [NoticesNext]_noticesVars => MailInv'
  <1> SUFFICES ASSUME MailInv, [NoticesNext]_noticesVars
               PROVE  MailInv'
    OBVIOUS
  <1> DEFINE Stays == /\ MailTypes'
                      /\ \A i \in Notices \ byHand' : Delivered(i)'
                      /\ Ahead' /\ RemindedOnce'
  <1>1. Stays => MailInv'
    BY DEF MailInv
  <1>2. Retrier \in Workers /\ Reminder \in Workers
    BY DEF Workers
  <1>3. ASSUME NEW w \in Senders, Send(w)
        PROVE  Stays
    BY <1>3, BeginSteps, SendReminds
  <1>4. ASSUME NEW w \in Senders, Enqueue(w)
        PROVE  Stays
    BY <1>4, EnqueueStep, SendReminds
  <1>5. ASSUME NEW w \in Senders, NEW n \in Notices, ResendRead(w, n)
        PROVE  Stays
    BY <1>5, ResendStep, QuietlyReminds
  <1>6. ASSUME RetryRead
        PROVE  Stays
    BY <1>6, RetryReadStep, QuietlyReminds
  <1>7. ASSUME RemindRead \/ RemindNext
        PROVE  Stays
    BY <1>7, BeginSteps, BeginReminds
  <1>8. ASSUME NEW w \in Workers, Post(w)
        PROVE  Stays
    BY <1>8, PostStep, PostReminds
  <1>9. ASSUME NEW w \in Workers, FlushRead(w)
        PROVE  Stays
    BY <1>9, FlushStep, QuietlyReminds
  <1>10. ASSUME NEW w \in Workers, Deliver(w)
         PROVE  Stays
    <2>1. PICK status \in {"success", "failed", "skipped"} :
             Record(w, status) /\ Delivering(w) /\ task[w].answer = "none"
      BY <1>10 DEF Deliver
    <2> QED  BY <2>1, RecordStep, QuietlyReminds
  <1>11. ASSUME NEW w \in Workers, Hand(w)
         PROVE  Stays
    BY <1>11, HandStep, QuietlyReminds
  <1>12. ASSUME NEW w \in Workers, Answered(w)
         PROVE  Stays
    <2>1. task[w] \in TaskSet
      BY MailTypesOK DEF MailInv, MailTypes
    <2>2. task[w].answer \in {"success", "failed", "skipped"}
      BY <1>12, <2>1 DEF TaskSet, Answered
    <2> QED  BY <1>12, <2>2, RecordStep, QuietlyReminds DEF Answered
  <1>13. ASSUME NEW w \in Workers, Fails(w)
         PROVE  Stays
    BY <1>13, FailsStep, QuietlyReminds
  <1>14. ASSUME Restart
         PROVE  Stays
    BY <1>14, RestartStep, QuietlyReminds
  <1>15. CASE UNCHANGED noticesVars
    BY <1>15, MailStutters
  <1> HIDE DEF Stays
  <1> QED
    BY <1>1, <1>3, <1>4, <1>5, <1>6, <1>7, <1>8, <1>9, <1>10, <1>11, <1>12,
       <1>13, <1>14, <1>15 DEF NoticesNext, Serve

LEMMA MailCorrect == NoticesSpec => []MailInv
  <1>1. NoticesInit => MailInv
    BY MailInit
  <1>2. MailInv /\ [NoticesNext]_noticesVars => MailInv'
    BY MailNext
  <1> QED
    BY <1>1, <1>2, PTL DEF NoticesSpec

\* The rows of the notice log keep their types, and a worker has only written rows
\* in its hands: for any number of workers, rows and failures.
THEOREM NoticesTypeCorrect == NoticesSpec => []NoticesTypeOK
  <1>1. MailInv => NoticesTypeOK
    BY DEF MailInv, MailTypes
  <1> QED
    BY <1>1, MailCorrect, PTL

\* The provider takes the message of a row once, whoever delivers it, unless a clerk
\* sent it again or nobody could record that it was taken.  send, flushPending and the
\* retry job look for different statuses, and a row is in the hands of one of them.
THEOREM NoticesSentOnce == NoticesSpec => []SentOnce
  <1>1. MailInv => SentOnce
    <2> SUFFICES ASSUME MailInv, NEW i \in Notices \ (byHand \cup unclear)
                 PROVE  accepted[i] <= 1
      BY DEF SentOnce
    <2>1. accepted[i] = 0 \/ accepted[i] = 1
      BY DEF MailInv, Delivered, TakenOnce
    <2> QED  BY <2>1
  <1> QED
    BY <1>1, MailCorrect, PTL

\* The copies of a message are bounded by the retry limit, but for one more with each
\* failure of the database or restart: the retry count of the row counts how often the
\* provider was asked, and deliver() writes it with the status.  (The resends by hand
\* of other rows count among the failures; a row sent by hand has no such bound.)
THEOREM NoticesCopiesBounded == NoticesSpec => []CopiesBounded
  <1>1. MailInv => CopiesBounded
    <2> SUFFICES ASSUME MailInv, NEW i \in Notices \ byHand
                 PROVE  accepted[i] <= 1 + Limit + upset
      BY DEF CopiesBounded
    <2>1. Delivered(i) /\ NoticesTypeOK
      BY DEF MailInv, MailTypes
    <2>2. /\ notice[i].retries \in Nat /\ accepted[i] \in Nat /\ upset \in Nat /\ Limit \in Nat
          /\ Shown(i) \in {0, 1} /\ Open(i) \in {0, 1}
      BY <2>1, MailTypesOK DEF Shown, Open
    <2>3. /\ accepted[i] <= notice[i].retries + Shown(i) + upset + Open(i)
          /\ notice[i].retries <= Limit
      BY <2>1, Zenon DEF Delivered, Counted
    <2>4. notice[i].retries + Shown(i) + Open(i) <= 1 + Limit
      <3>1. CASE Open(i) = 0
        BY ONLY <2>2, <2>3, <3>1
      <3>2. CASE Open(i) = 1
        <4>1. PICK w \in Workers : InHand(w, i)
          BY <3>2 DEF Open
        <4>2. HeldAs(i) /\ Holds(w, i)
          BY <2>1, <4>1 DEF Delivered, InHand
        <4>3. CASE notice[i].status = "pending"
          <5>1. notice[i].status \in {"none", "pending"} => notice[i].retries = 0
            BY <2>1, Zenon DEF Delivered, Counted
          <5>2. Shown(i) = 0 /\ notice[i].retries = 0
            BY <4>3, <5>1 DEF Shown
          <5> QED  BY ONLY <2>2, <3>2, <5>2
        <4>4. CASE notice[i].retries < Limit
          BY ONLY <2>2, <3>2, <4>4
        <4> QED  BY <4>2, <4>3, <4>4 DEF HeldAs
      <3> QED  BY <2>2, <3>1, <3>2
    <2> QED  BY ONLY <2>2, <2>3, <2>4
  <1> QED
    BY <1>1, MailCorrect, PTL

\* However often the job of the day is started, fails half-way and is started again, it
\* adds no reminder of a booking and channel to one that is there: alreadySent asks for
\* a row of any status, and what a run has still to write is among the rows only when
\* a clerk wrote it after the run had looked.
THEOREM NoticesRemindedOnce == NoticesSpec => []RemindedOnce
  <1>1. MailInv => RemindedOnce
    BY DEF MailInv
  <1> QED
    BY <1>1, MailCorrect, PTL

=============================================================================
