----------------------------- MODULE Recurrences -----------------------------
(***************************************************************************)
(* One recurring-booking rule (operations/recurrences): the nightly job    *)
(* and the requests that generate its bookings date by date, the           *)
(* revocation of what was generated, the changes of the rule and what      *)
(* happens to the bookings meanwhile.                                      *)
(*                                                                         *)
(* A run reads the rule once, then looks at and inserts one date per       *)
(* transaction and at the end moves the cursor generated_until to the end  *)
(* of the window it began with.  A day of this module is a date of the     *)
(* rule's weekday; moving the rule to another weekday, its start date and  *)
(* its conflict policy stay as they are.  The locks generateOne takes are  *)
(* the subject of BookingSlots; here its look and its insert are two steps *)
(* that only the unique index (recurrence_id, start_at) ties together.     *)
(***************************************************************************)
EXTENDS Integers, Sequences

CONSTANTS
    Requests,    \* requests of the back office at the same time
    Job,         \* the job generateRecurringBookings
    LastDay,     \* bound of the exploration: the last day that comes
    Window,      \* the largest generate_days, in dates of the rule
    Times,       \* start times the rule may have
    Skip,        \* conflict_policy: TRUE for skip, FALSE for notify
    MaxDisturbed \* bound of the exploration: revocations, failures, changes of
                 \* the rule, and what happens to its bookings, together

ASSUME RecurrencesAssumption ==
    /\ Job \notin Requests
    /\ LastDay \in Nat \ {0} /\ Window \in Nat /\ Times # {}
    /\ Skip \in BOOLEAN
    /\ MaxDisturbed \in Nat

Runners == Requests \cup {Job}
Days == 1..LastDay
Statuses == {"active", "paused", "stopped"}

VARIABLES
    rule,     \* status, start time, end date, generate_days, generated_until,
              \* deleted or not
    rows,     \* the bookings made from the rule, by id
    today,
    call,     \* what a runner read and how far it has come
    skipped,  \* history: days left out for a conflict since the last revocation
    lost,     \* history: the cursor was moved by a run that a revocation
              \* overtook, or forward by a revocation
    late,     \* history: the bookings that money reached when they were deleted
    disturbed \* how much of the bound is used up

vars == <<rule, rows, today, call, skipped, lost, late, disturbed>>

Idle == [op |-> "idle"]
Earlier(a, b) == IF a <= b THEN a ELSE b
Later(a, b) == IF a >= b THEN a ELSE b

Ids == 1..Len(rows)
Disturb ==
    /\ disturbed < MaxDisturbed
    /\ disturbed' = disturbed + 1

Linked(day, time) ==
    \E i \in Ids : rows[i].linked /\ rows[i].day = day /\ rows[i].time = time
\* deleted_at is set, by hand or by revokeWindow
Deleted(i) == rows[i].state \in {"removed", "revoked"}
Live == {i \in Ids : ~Deleted(i)}

Init ==
    /\ rule = [status |-> "active", time |-> CHOOSE t \in Times : TRUE,
               end |-> LastDay, window |-> Window, until |-> 0, deleted |-> FALSE]
    /\ rows = <<>>
    /\ today = 1
    /\ call = [r \in Runners |-> Idle]
    /\ skipped = {}
    /\ lost = FALSE
    /\ late = {}
    /\ disturbed = 0

-----------------------------------------------------------------------------
(* Generating                                                              *)

\* generateRule: the window, from the rule read without a lock
WindowStart == Later(today, rule.until + 1)
WindowEnd == Earlier(today + rule.window, rule.end)

GenRead(r) ==
    /\ call[r] = Idle
    /\ rule.status = "active" /\ ~rule.deleted
    /\ WindowStart <= WindowEnd
    /\ call' = [call EXCEPT ![r] =
                  [op |-> "look", day |-> WindowStart, last |-> WindowEnd,
                   time |-> rule.time, overtaken |-> FALSE]]
    /\ UNCHANGED <<rule, rows, today, skipped, lost, late, disturbed>>

NextDay(r) == [call EXCEPT ![r].op = "look", ![r].day = @ + 1]

\* generateOne up to its insert: a booking of this start, whatever became of
\* it, ends the day; so does a conflict when the rule skips
GenLook(r) ==
    /\ call[r].op = "look" /\ call[r].day <= call[r].last
    /\ \/ /\ Linked(call[r].day, call[r].time)
          /\ call' = NextDay(r)
          /\ UNCHANGED skipped
       \/ /\ ~Linked(call[r].day, call[r].time) /\ Skip
          /\ call' = NextDay(r)
          /\ skipped' = skipped \cup {call[r].day}
       \/ /\ ~Linked(call[r].day, call[r].time)
          /\ call' = [call EXCEPT ![r].op = "insert"]
          /\ UNCHANGED skipped
    /\ UNCHANGED <<rule, rows, today, lost, late, disturbed>>

Booking(day, time) ==
    [day |-> day, time |-> time, linked |-> TRUE, state |-> "open", pay |-> "unpaid",
     asked |-> FALSE]

\* Mutant: the table without uq_booking_recurrence_start
GenInsertTwice(r) ==
    /\ call[r].op = "insert"
    /\ rows' = Append(rows, Booking(call[r].day, call[r].time))
    /\ call' = NextDay(r)
    /\ UNCHANGED <<rule, today, skipped, lost, late, disturbed>>

\* insertBooking; a duplicate key counts as a booking that is there
GenInsert(r) ==
    /\ call[r].op = "insert"
    /\ rows' = IF Linked(call[r].day, call[r].time) THEN rows
               ELSE Append(rows, Booking(call[r].day, call[r].time))
    /\ call' = NextDay(r)
    /\ UNCHANGED <<rule, today, skipped, lost, late, disturbed>>

\* Mutant: a run that fails has covered its window all the same
GenFailsCovered(r) ==
    /\ call[r].op \in {"look", "insert"}
    /\ Disturb
    /\ call' = [call EXCEPT ![r] = Idle]
    /\ rule' = [rule EXCEPT !.until = call[r].last]
    /\ UNCHANGED <<rows, today, skipped, lost, late>>

\* An error, a deadlock or a crash: generateDetailed goes on with the next
\* rule, what was inserted stays, the cursor does not move
GenFails(r) ==
    /\ call[r].op \in {"look", "insert"}
    /\ Disturb
    /\ call' = [call EXCEPT ![r] = Idle]
    /\ UNCHANGED <<rule, rows, today, skipped, lost, late>>

\* The cursor moves to the end of the window, wherever it is by now
GenFinish(r) ==
    /\ call[r].op = "look" /\ call[r].day > call[r].last
    /\ rule' = [rule EXCEPT !.until = call[r].last]
    /\ call' = [call EXCEPT ![r] = Idle]
    /\ lost' = (lost \/ call[r].overtaken)
    /\ UNCHANGED <<rows, today, skipped, late, disturbed>>

-----------------------------------------------------------------------------
(* Revoking                                                                *)

\* Bookings from today on that are neither paid for nor cancelled
Revocable ==
    {i \in Ids : /\ rows[i].linked /\ rows[i].state = "open"
                 /\ rows[i].pay = "unpaid" /\ rows[i].day >= today}

RevokeRead(r) ==
    /\ call[r] = Idle /\ r # Job
    /\ ~rule.deleted
    /\ Disturb
    /\ \E first \in Revocable :
          /\ \A i \in Revocable : rows[first].day <= rows[i].day
          /\ call' = [call EXCEPT ![r] = [op |-> "revoke", ids |-> Revocable,
                                          from |-> rows[first].day]]
    /\ UNCHANGED <<rule, rows, today, skipped, lost, late>>

\* Mutant: the UPDATE trusts the list
StillUnpaidTrusted(i) == rows[i].linked

\* The condition of the UPDATE; a booking put on credit has paid_amount 0 too
StillUnpaid(i) == rows[i].linked /\ rows[i].pay # "paid"

\* One transaction; the cursor goes to the eve of the first on the list, which may
\* be forward when an earlier revocation has put it further back
RevokeCommit(r) ==
    /\ call[r].op = "revoke"
    /\ rows' = [i \in Ids |-> IF i \in call[r].ids /\ StillUnpaid(i)
                    THEN [rows[i] EXCEPT !.state = "revoked", !.linked = FALSE]
                    ELSE rows[i]]
    /\ rule' = [rule EXCEPT !.until = call[r].from - 1]
    /\ skipped' = {d \in skipped : d < call[r].from}
    /\ lost' = (lost \/ call[r].from - 1 > rule.until)
    /\ call' = [q \in Runners |->
                  IF q = r THEN Idle
                  ELSE IF call[q].op \in {"look", "insert"}
                       THEN [call[q] EXCEPT !.overtaken = TRUE] ELSE call[q]]
    /\ UNCHANGED <<today, late, disturbed>>

-----------------------------------------------------------------------------
(* The rule                                                                *)

Changes ==
    [field : {"status"}, value : Statuses] \cup [field : {"time"}, value : Times]
        \cup [field : {"end"}, value : Days] \cup [field : {"window"}, value : 0..Window]

\* update, pause, resume and stop read the rule and refuse when it is stopped;
\* a change to what the rule has already changes nothing
ChangeRead(r) ==
    /\ call[r] = Idle /\ r # Job
    /\ ~rule.deleted /\ rule.status # "stopped"
    /\ Disturb
    /\ \E to \in Changes :
          /\ to.value # rule[to.field]
          /\ call' = [call EXCEPT ![r] = [op |-> "change", to |-> to]]
    /\ UNCHANGED <<rule, rows, today, skipped, lost, late>>

\* changeStatus writes to whatever the rule is by now; update only spares a
\* deleted one.  The cursor stays
ChangeWrite(r) ==
    /\ call[r].op = "change"
    /\ LET to == call[r].to
       IN  rule' = CASE to.field = "status" -> [rule EXCEPT !.status = to.value]
                     [] to.field = "time" /\ ~rule.deleted -> [rule EXCEPT !.time = to.value]
                     [] to.field = "end" /\ ~rule.deleted -> [rule EXCEPT !.end = to.value]
                     [] to.field = "window" /\ ~rule.deleted -> [rule EXCEPT !.window = to.value]
                     [] OTHER -> rule
    /\ call' = [call EXCEPT ![r] = Idle]
    /\ UNCHANGED <<rows, today, skipped, lost, late, disturbed>>

\* remove: one transaction
Remove ==
    /\ ~rule.deleted
    /\ Disturb
    /\ rows' = [i \in Ids |-> [rows[i] EXCEPT !.linked = FALSE]]
    /\ rule' = [rule EXCEPT !.status = "stopped", !.deleted = TRUE]
    /\ UNCHANGED <<today, call, skipped, lost, late>>

-----------------------------------------------------------------------------
(* What happens to the bookings, and time                                  *)

Becomes(i, booking) ==
    /\ rows' = [rows EXCEPT ![i] = booking]
    /\ UNCHANGED <<rule, today, skipped, lost>>

\* A code is shown to the customer, or a settlement at the counter reads the
\* booking.  Neither cancelling nor deleting it ends what was begun
Ask(i) ==
    /\ rows[i].state = "open" /\ rows[i].pay # "paid" /\ ~rows[i].asked
    /\ Disturb
    /\ Becomes(i, [rows[i] EXCEPT !.asked = TRUE])
    /\ UNCHANGED <<call, late>>

\* deliver and recalc, or the transaction of the settlement: nothing asks for
\* deleted_at or for the status of the booking any more
Land(i) ==
    /\ rows[i].asked
    /\ \E pay \in {"paid", "credit"} :
          Becomes(i, [rows[i] EXCEPT !.pay = pay, !.asked = FALSE])
    /\ late' = IF Deleted(i) THEN late \cup {i} ELSE late
    /\ UNCHANGED <<call, disturbed>>

\* The receivable is cancelled
TakeOff(i) ==
    /\ rows[i].pay = "credit"
    /\ Disturb
    /\ Becomes(i, [rows[i] EXCEPT !.pay = "unpaid"])
    /\ UNCHANGED <<call, late>>

Cancel(i) ==
    /\ rows[i].state = "open"
    /\ Disturb
    /\ Becomes(i, [rows[i] EXCEPT !.state = "cancelled"])
    /\ UNCHANGED <<call, late>>

\* remove of a booking reads the paid amount ...
DeleteRead(r, i) ==
    /\ call[r] = Idle /\ r # Job
    /\ ~Deleted(i) /\ rows[i].pay # "paid"
    /\ Disturb
    /\ call' = [call EXCEPT ![r] = [op |-> "delete", id |-> i]]
    /\ UNCHANGED <<rule, rows, today, skipped, lost, late>>

\* ... and its UPDATE asks for deleted_at only; recurrence_id stays
DeleteWrite(r) ==
    /\ call[r].op = "delete"
    /\ LET i == call[r].id
       IN  Becomes(i, IF Deleted(i) THEN rows[i] ELSE [rows[i] EXCEPT !.state = "removed"])
    /\ call' = [call EXCEPT ![r] = Idle]
    /\ UNCHANGED <<late, disturbed>>

Tomorrow ==
    /\ today < LastDay
    /\ today' = today + 1
    /\ UNCHANGED <<rule, rows, call, skipped, lost, late, disturbed>>

Generate(r) == GenRead(r) \/ GenLook(r) \/ GenInsert(r) \/ GenFinish(r)

Next ==
    \/ \E r \in Runners : Generate(r) \/ GenFails(r)
    \/ \E r \in Requests :
          \/ RevokeRead(r) \/ RevokeCommit(r)
          \/ ChangeRead(r) \/ ChangeWrite(r)
          \/ DeleteWrite(r) \/ \E i \in Ids : DeleteRead(r, i)
    \/ Remove \/ Tomorrow
    \/ \E i \in Ids : Ask(i) \/ Land(i) \/ TakeOff(i) \/ Cancel(i)

\* The job starts again and again and a run of it goes on
Spec == Init /\ [][Next]_vars /\ WF_vars(Generate(Job))

-----------------------------------------------------------------------------
Bookings == [day : Days, time : Times, linked : BOOLEAN,
             state : {"open", "cancelled", "removed", "revoked"},
             pay : {"unpaid", "credit", "paid"}, asked : BOOLEAN]

Calls ==
    [op : {"idle"}]
        \cup [op : {"look", "insert"}, day : Nat, last : Days, time : Times,
              overtaken : BOOLEAN]
        \cup [op : {"revoke"}, ids : SUBSET Nat, from : Days]
        \cup [op : {"change"}, to : Changes]
        \cup [op : {"delete"}, id : Nat]

TypeOK ==
    /\ rule \in [status : Statuses, time : Times, end : Days,
                 window : 0..Window, until : 0..LastDay, deleted : BOOLEAN]
    /\ rows \in Seq(Bookings)
    /\ today \in Days
    /\ call \in [Runners -> Calls]
    /\ skipped \subseteq Days /\ lost \in BOOLEAN /\ late \subseteq Nat
    /\ disturbed \in 0..MaxDisturbed

\* However runs overlap, however often they fail and start again and whatever
\* is revoked in between: a rule that is not deleted has at most one booking
\* of a start (generateOne's two guards).
NeverTwice ==
    ~rule.deleted =>
        \A i, j \in Live : i # j => <<rows[i].day, rows[i].time>> # <<rows[j].day, rows[j].time>>

\* revokeWindow takes no booking away that money has reached since it was
\* listed: one that is revoked and paid was asked for before and paid after.
\* A booking deleted by hand has no such promise (bookings.service.ts remove).
PaidIsKept ==
    \A i \in Ids : rows[i].state = "revoked" /\ rows[i].pay = "paid" => i \in late

Accounted(d) == d \in skipped \/ \E i \in Ids : rows[i].linked /\ rows[i].day = d

\* Up to the cursor no day to come is left out: it has a booking, or had a
\* conflict, unless the cursor was moved by a run that a revocation overtook or
\* forward by a revocation.
CursorAccounts ==
    ~rule.deleted /\ ~lost => \A d \in today..rule.until : Accounted(d)

\* The next run makes up for what failed and what was revoked: every day of
\* the window of an active rule is accounted for in the end, with the same
\* exceptions.
Due(d) ==
    /\ rule.status = "active" /\ ~rule.deleted /\ ~lost
    /\ today <= d /\ d <= WindowEnd

Regenerated == \A d \in Days : Due(d) ~> (Accounted(d) \/ ~Due(d))
=============================================================================
