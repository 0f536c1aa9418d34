---------------------------- MODULE BookingSlots ----------------------------
(***************************************************************************)
(* The time of the staff: bookings made at the counter or in the           *)
(* mini-program, generated from a recurrence, rescheduled and recounted at *)
(* the same time.                                                          *)
(*                                                                         *)
(* Creating and rescheduling lock the rows of the staff members concerned  *)
(* (staffLock) and look for conflicts with a locking read, generating goes *)
(* straight to that read.  InnoDB lets it hold the booking rows it scanned *)
(* (held) and the gaps between them: from its check until it ends, a       *)
(* transaction keeps every other from inserting into, or moving an index   *)
(* entry within, the bookings of that staff member.  Gap locks do not      *)
(* exclude each other, so two transactions may be past the check at once.  *)
(* A write and the commit after it are one step.                           *)
(***************************************************************************)
EXTENDS Integers

CONSTANTS
    Workers,      \* requests and jobs at work at the same time
    Staffs,       \* ids of staff members, locked in ascending order
    Bookings,     \* rows biz_booking can get
    Customer,     \* the customer of each booking
    Items,        \* what can be booked: a choice of one to three services
    Specs,        \* durations and buffers the catalogue may state for them
    Times,        \* starts on the grid and inside the shifts
    Forces,       \* whether a request may ignore the customer's own bookings
    Policies,     \* conflict policies of the recurrences
    MaxEdits,     \* bound on changes of the catalogue
    MaxRecounts,  \* bound on recounts
    Nobody,       \* the holder of a free lock
    NoPlan,       \* what an idle worker works on
    NoSlot        \* the slot of a row that does not exist so far

ASSUME SlotsAssumption ==
    /\ Staffs \subseteq Nat
    /\ Times \subseteq Nat
    /\ Specs \subseteq [dur : Nat, buf : Nat]
    /\ Forces \subseteq BOOLEAN
    /\ Policies \subseteq {"skip", "notify"}
    /\ Nobody \notin Workers

VARIABLES
    status,       \* biz_booking.status: "open" is pending or confirmed
    slot,         \* staff_id, start_at, duration_minutes, buffer_minutes, end_at
    item,         \* biz_booking_item
    spec,         \* the catalogue
    staffLock,    \* who holds the row lock of a staff member
    held,         \* the booking rows a transaction has locked
    pc, plan,     \* what a worker does, and what it computed before
    unchecked,    \* history: bookings whose slot no check has passed
    edits, recounts

rowVars == <<status, slot, item>>
lockVars == <<staffLock, held>>
workVars == <<pc, plan>>
boundVars == <<edits, recounts>>
vars == <<rowVars, spec, lockVars, workVars, unchecked, boundVars>>

\* ACTIVE_BOOKING_STATUS
Active == {"open", "arrived"}
Statuses == Active \cup {"none", "ended", "deleted"}

\* TRANSITIONS, remove and revokeWindow: completed, cancelled and no_show have ended.
Moves ==
    {<<"open", "arrived">>, <<"open", "ended">>, <<"arrived", "ended">>,
     <<"open", "deleted">>, <<"arrived", "deleted">>, <<"ended", "deleted">>}

Slots == [staff : Staffs, start : Nat, dur : Nat, buf : Nat, end : Nat]
Plans == [kind : {"create", "move", "generate", "recount"}, b : Bookings,
          slot : Slots, item : Items, need : SUBSET Staffs,
          policy : {"refuse", "skip", "notify"}, forced : BOOLEAN]

TypeOK ==
    /\ status \in [Bookings -> Statuses]
    /\ slot \in [Bookings -> Slots \cup {NoSlot}]
    /\ item \in [Bookings -> Items \cup {NoSlot}]
    /\ \A b \in Bookings : status[b] # "none" => slot[b] \in Slots /\ item[b] \in Items
    /\ spec \in [Items -> Specs]
    /\ staffLock \in [Staffs -> Workers \cup {Nobody}]
    /\ held \in [Workers -> SUBSET Bookings]
    /\ pc \in [Workers -> {"idle", "lock", "check", "write", "recount"}]
    /\ plan \in [Workers -> Plans \cup {NoPlan}]
    /\ \A w \in Workers : pc[w] # "idle" => plan[w] \in Plans
    /\ unchecked \subseteq Bookings
    /\ edits \in Nat /\ recounts \in Nat

Init ==
    /\ status = [b \in Bookings |-> "none"]
    /\ slot = [b \in Bookings |-> NoSlot]
    /\ item = [b \in Bookings |-> NoSlot]
    /\ spec \in [Items -> Specs]
    /\ staffLock = [s \in Staffs |-> Nobody]
    /\ held = [w \in Workers |-> {}]
    /\ pc = [w \in Workers |-> "idle"]
    /\ plan = [w \in Workers |-> NoPlan]
    /\ unchecked = {}
    /\ edits = 0 /\ recounts = 0

----------------------------------------------------------------------------
(* Conflicts. *)

Larger(m, n) == IF m >= n THEN m ELSE n

\* The symmetric criterion: the larger buffer, before and after.
Near(x, y) ==
    LET gap == Larger(x.buf, y.buf)
    IN /\ x.start < y.end + gap
       /\ y.start < x.end + gap

\* The rows of a staff member that the locking read scans.
Rows(s) == {c \in Bookings : status[c] # "none" /\ slot[c].staff = s}

\* Mutant: a customer who has arrived no longer takes up time.
ConflictsOpenOnly(b, x) ==
    {c \in Rows(x.staff) \ {b} : status[c] = "open" /\ Near(x, slot[c])}

\* findConflicts without the booking itself.
Conflicts(b, x) ==
    {c \in Rows(x.staff) \ {b} : status[c] \in Active /\ Near(x, slot[c])}

\* findCustomerOverlaps: a plain read, no buffers, no matter which staff.
CustomerOverlaps(b, x) ==
    {c \in Bookings \ {b} : /\ status[c] \in Active
                            /\ Customer[c] = Customer[b]
                            /\ slot[c].start < x.end
                            /\ x.start < slot[c].end}

\* The slot of item i as the catalogue states it now, and with another duration.
Lasting(s, t, d, i) ==
    [staff |-> s, start |-> t, dur |-> d, buf |-> spec[i].buf, end |-> t + d]
Served(s, t, i) == Lasting(s, t, spec[i].dur, i)

----------------------------------------------------------------------------
(* Locks. *)

RowFree(w, b) == \A v \in Workers \ {w} : b \notin held[v]

\* Mutant: findConflicts without FOR UPDATE holds no gaps.
GapFreePlainRead(w, s) == w \in Workers /\ s \in Staffs

\* Nobody else holds the gaps between the bookings of s: the insert intention.
GapFree(w, s) ==
    \A v \in Workers \ {w} : pc[v] = "write" => plan[v].slot.staff # s

Begin(w, l, p) ==
    /\ pc' = [pc EXCEPT ![w] = l]
    /\ plan' = [plan EXCEPT ![w] = p]

\* The transaction ends, one way or the other.
Done(w) ==
    /\ Begin(w, "idle", NoPlan)
    /\ staffLock' = [s \in Staffs |-> IF staffLock[s] = w THEN Nobody ELSE staffLock[s]]
    /\ held' = [held EXCEPT ![w] = {}]

\* The next auto-increment id: a row nobody has in hand.
New(b) ==
    /\ status[b] = "none"
    /\ \A w \in Workers : pc[w] # "idle" => plan[w].b # b

----------------------------------------------------------------------------
(* What is read before the transaction. *)

\* create and createForCustomer, the latter without force.
CreateRead(w, b, s, t, i, force) ==
    LET x == Served(s, t, i)
    IN /\ pc[w] = "idle" /\ New(b)
       /\ force \/ CustomerOverlaps(b, x) = {}
       /\ Begin(w, "lock", [kind |-> "create", b |-> b, slot |-> x, item |-> i,
                            need |-> {s}, policy |-> "refuse", forced |-> FALSE])
       /\ UNCHANGED <<rowVars, spec, lockVars, unchecked, boundVars>>

\* update: the status and the present staff member are read here and only here.
MoveRead(w, b, s, t, i, force) ==
    LET x == Served(s, t, i)
    IN /\ pc[w] = "idle"
       /\ status[b] = "open"
       /\ force \/ CustomerOverlaps(b, x) = {}
       /\ Begin(w, "lock", [kind |-> "move", b |-> b, slot |-> x, item |-> i,
                            need |-> {s, slot[b].staff}, policy |-> "refuse",
                            forced |-> FALSE])
       /\ UNCHANGED <<rowVars, spec, lockVars, unchecked, boundVars>>

\* generateRule: the duration is the rule's, the buffer the catalogue's.
GenerateRead(w, b, s, t, i, d, policy) ==
    /\ pc[w] = "idle" /\ New(b)
    /\ Begin(w, "check", [kind |-> "generate", b |-> b, slot |-> Lasting(s, t, d, i),
                          item |-> i, need |-> {}, policy |-> policy, forced |-> FALSE])
    /\ UNCHANGED <<rowVars, spec, lockVars, unchecked, boundVars>>

\* recount: the start is read, the durations come from the catalogue.
RecountRead(w, b) ==
    /\ pc[w] = "idle"
    /\ status[b] \notin {"none", "deleted"}
    /\ recounts < MaxRecounts
    /\ recounts' = recounts + 1
    /\ Begin(w, "recount", [kind |-> "recount", b |-> b, item |-> item[b],
                            slot |-> Served(slot[b].staff, slot[b].start, item[b]),
                            need |-> {}, policy |-> "refuse", forced |-> FALSE])
    /\ UNCHANGED <<rowVars, spec, lockVars, unchecked, edits>>

----------------------------------------------------------------------------
(* The transaction. *)

\* lockStaffRow, and the ordered FOR UPDATE of update: one row after the other.
Lock(w, s) ==
    /\ pc[w] = "lock"
    /\ s \in plan[w].need
    /\ \A r \in plan[w].need : s <= r
    /\ staffLock[s] = Nobody
    /\ staffLock' = [staffLock EXCEPT ![s] = w]
    /\ plan' = [plan EXCEPT ![w].need = @ \ {s}]
    /\ pc' = [pc EXCEPT ![w] = IF plan[w].need = {s} THEN "check" ELSE "lock"]
    /\ UNCHANGED <<rowVars, spec, held, unchecked, boundVars>>

\* The locking read waits for every row it scans.
CanScan(w) == \A c \in Rows(plan[w].slot.staff) : RowFree(w, c)

Holding(w, p) ==
    /\ held' = [held EXCEPT ![w] = Rows(p.slot.staff)]
    /\ Begin(w, "write", p)
    /\ UNCHANGED <<rowVars, spec, staffLock, unchecked, boundVars>>

CheckFree(w) ==
    /\ pc[w] = "check" /\ CanScan(w)
    /\ Conflicts(plan[w].b, plan[w].slot) = {}
    /\ Holding(w, plan[w])

\* assertNoConflict refuses, and a recurrence with policy skip leaves the date out.
CheckTaken(w) ==
    /\ pc[w] = "check" /\ CanScan(w)
    /\ Conflicts(plan[w].b, plan[w].slot) # {}
    /\ plan[w].policy # "notify"
    /\ Done(w)
    /\ UNCHANGED <<rowVars, spec, unchecked, boundVars>>

\* Policy notify books the date all the same and marks the booking.
CheckAnyway(w) ==
    /\ pc[w] = "check" /\ CanScan(w)
    /\ Conflicts(plan[w].b, plan[w].slot) # {}
    /\ plan[w].policy = "notify"
    /\ Holding(w, [plan[w] EXCEPT !.forced = TRUE])

\* The insert waits for the gaps and, by its foreign key, for the staff row.
Insert(w) ==
    LET p == plan[w]
    IN /\ pc[w] = "write" /\ p.kind \in {"create", "generate"}
       /\ GapFree(w, p.slot.staff)
       /\ staffLock[p.slot.staff] \in {w, Nobody}
       /\ status' = [status EXCEPT ![p.b] = "open"]
       /\ slot' = [slot EXCEPT ![p.b] = p.slot]
       /\ item' = [item EXCEPT ![p.b] = p.item]
       /\ unchecked' = IF p.forced THEN unchecked \cup {p.b} ELSE unchecked
       /\ Done(w)
       /\ UNCHANGED <<spec, boundVars>>

\* The update asks for a row that is not deleted, for no status.
Move(w) ==
    LET p == plan[w]
    IN /\ pc[w] = "write" /\ p.kind = "move"
       /\ RowFree(w, p.b)
       /\ GapFree(w, p.slot.staff)
       /\ item' = [item EXCEPT ![p.b] = p.item]
       /\ IF status[p.b] = "deleted"
          THEN UNCHANGED <<slot, unchecked>>
          ELSE /\ slot' = [slot EXCEPT ![p.b] = p.slot]
               /\ unchecked' = unchecked \ {p.b}
       /\ Done(w)
       /\ UNCHANGED <<status, spec, boundVars>>

\* No lock on the staff member and no check: duration, buffer and end are written.
Recount(w) ==
    LET p == plan[w]
    IN /\ pc[w] = "recount"
       /\ RowFree(w, p.b)
       /\ GapFree(w, slot[p.b].staff)
       /\ slot' = [slot EXCEPT ![p.b].dur = p.slot.dur,
                               ![p.b].buf = p.slot.buf,
                               ![p.b].end = p.slot.end]
       /\ unchecked' = unchecked \cup {p.b}
       /\ Done(w)
       /\ UNCHANGED <<status, item, spec, boundVars>>

\* A victim of deadlock detection, an error or a restart: nothing was written.
Rollback(w) ==
    /\ pc[w] # "idle"
    /\ Done(w)
    /\ UNCHANGED <<rowVars, spec, unchecked, boundVars>>

----------------------------------------------------------------------------
(* One conditional update of a status, and the catalogue. *)

StatusMove(b, m) ==
    /\ status[b] = m[1]
    /\ \A w \in Workers : b \notin held[w]
    /\ status' = [status EXCEPT ![b] = m[2]]
    /\ UNCHANGED <<slot, item, spec, lockVars, workVars, unchecked, boundVars>>

\* Duration and buffer of a service may change while bookings of it are open.
EditItem(i, x) ==
    /\ edits < MaxEdits
    /\ spec' = [spec EXCEPT ![i] = x]
    /\ edits' = edits + 1
    /\ UNCHANGED <<rowVars, lockVars, workVars, unchecked, recounts>>

Read(w, b) ==
    \/ \E s \in Staffs, t \in Times, i \in Items :
          \/ \E force \in Forces : \/ CreateRead(w, b, s, t, i, force)
                                   \/ MoveRead(w, b, s, t, i, force)
          \/ \E x \in Specs, policy \in Policies :
                GenerateRead(w, b, s, t, i, x.dur, policy)
    \/ RecountRead(w, b)

Transact(w) ==
    \/ \E s \in Staffs : Lock(w, s)
    \/ CheckFree(w) \/ CheckTaken(w) \/ CheckAnyway(w)
    \/ Insert(w) \/ Move(w) \/ Recount(w)
    \/ Rollback(w)

Next ==
    \/ \E w \in Workers : Transact(w) \/ \E b \in Bookings : Read(w, b)
    \/ \E b \in Bookings, m \in Moves : StatusMove(b, m)
    \/ \E i \in Items, x \in Specs : EditItem(i, x)

Spec == Init /\ [][Next]_vars

----------------------------------------------------------------------------

Booked == {b \in Bookings : status[b] \in Active}
Overlap(b, c) == slot[b].staff = slot[c].staff /\ Near(slot[b], slot[c])

\* Two bookings of one staff member are never in each other's way, unless a
\* recurrence with policy notify or a recount has put one of them there since
\* it last passed the check (assertNoConflict under the locks).
SlotsExclusive ==
    \A b, c \in Booked \ unchecked : b # c => ~Overlap(b, c)

\* What the calendar sees: the slots a check stands behind, and who gave theirs back.
InCalendar == Booked \ unchecked
Cal == [b \in InCalendar |-> slot[b]]
Gone == {b \in Bookings : status[b] \in {"ended", "deleted"}}

Calendar == INSTANCE SlotCalendar WITH cal <- Cal, gone <- Gone

\* Creating, rescheduling and generating are reservations in one step of the
\* calendar, and no request brings back a booking that ended or was deleted
\* after the request read it; a recount and a recurrence with policy notify
\* take their booking out of the calendar until it is rescheduled.
CalendarSpec == Calendar!Spec

\* No overbooking: two bookings of one staff member are never in each other's way.
NoOverbooking == \A b, c \in Booked : b # c => ~Overlap(b, c)
=============================================================================
