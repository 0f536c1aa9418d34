---------------------------- MODULE SlotCalendar ----------------------------
(***************************************************************************)
(* What the booking services promise about the time of the staff: a        *)
(* calendar in which an appointment takes a slot, or changes to another    *)
(* one, in a single step and only when no other appointment of that staff  *)
(* member is in the way, and in which a slot that was given back is never  *)
(* taken again by the same appointment.  The shop may give up the promise  *)
(* for one appointment, which then is booked without being in the calendar *)
(* until it takes a slot again.                                            *)
(***************************************************************************)
EXTENDS Integers

CONSTANTS
    Bookings,     \* appointments
    Slots         \* records with a staff, a start, an end and a buffer

VARIABLES
    cal,          \* the slot of each appointment that has one
    gone          \* the appointments that gave theirs back

calVars == <<cal, gone>>

\* Two slots of one staff member lie apart by the larger of their buffers.
Clash(x, y) ==
    LET gap == IF x.buf >= y.buf THEN x.buf ELSE y.buf
    IN /\ x.staff = y.staff
       /\ x.start < y.end + gap
       /\ y.start < x.end + gap

Init ==
    /\ cal = [b \in {} |-> 0]
    /\ gone = {}

Reserve(b) ==
    /\ b \notin gone
    /\ DOMAIN cal' = DOMAIN cal \cup {b}
    /\ cal'[b] \in Slots
    /\ \A c \in DOMAIN cal \ {b} : /\ ~Clash(cal'[b], cal[c])
                                   /\ cal'[c] = cal[c]
    /\ UNCHANGED gone

Release(b) ==
    /\ cal' = [c \in DOMAIN cal \ {b} |-> cal[c]]
    /\ gone' = gone \cup {b}

Waive(b) ==
    /\ cal' = [c \in DOMAIN cal \ {b} |-> cal[c]]
    /\ UNCHANGED gone

Next == \E b \in Bookings : Reserve(b) \/ Release(b) \/ Waive(b)

Spec == Init /\ [][Next]_calVars
=============================================================================
