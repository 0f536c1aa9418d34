------------------------------- MODULE Coupons -------------------------------
(***************************************************************************)
(* Coupons: one template, the coupons of it that customers hold, and the   *)
(* bookings they are redeemed for (membership/coupons, and the part of     *)
(* createForCustomer that redeems).                                        *)
(*                                                                         *)
(* Claiming locks the row of the template before it looks at what the      *)
(* customer holds.  Inserting a coupon needs that row too, for its foreign *)
(* key, and so do the updates of the template.  Issuing and changing a     *)
(* template rely on what they read before, redeeming relies on a           *)
(* conditional UPDATE in the transaction that creates the booking.         *)
(***************************************************************************)
EXTENDS Integers, FiniteSets

CONSTANTS
    Customers,
    Coupons,   \* ids of biz_customer_coupon
    Bookings,  \* bookings that customers create with a coupon
    Callers,   \* requests at work at the same time
    Terms,     \* face value and threshold a template may have
    Base       \* price of each booking after the discount of the level

\* assertTemplateInput
ASSUME TermsAssumption ==
    /\ Terms \subseteq [face : Nat \ {0}, threshold : Nat]
    /\ \A t \in Terms : t.threshold = 0 \/ t.face <= t.threshold

ASSUME CouponsAssumption == Base \in [Bookings -> Nat]

Nobody == "nobody"
NoBooking == "no booking"
ASSUME NobodyAssumption == Nobody \notin Callers /\ NoBooking \notin Bookings

VARIABLES
    template, \* biz_coupon_template
    lock,     \* the request that locks the template
    coupon,   \* biz_customer_coupon
    booking,  \* biz_booking
    call,     \* what a request read
    asked     \* history: the status a manager last asked for

vars == <<template, lock, coupon, booking, call, asked>>

\* No expire_at at all is one that is later and never passes
Expiries == {"later", "past"}
Switches == {"active", "disabled"}
None == [kind |-> "none"]
Idle == [op |-> "idle"]
NoCoupon == [status |-> "none"]

\* A coupon carries the terms of the template it was issued under
NewCoupon(who, terms, expiry, source) ==
    [status |-> "usable", owner |-> who, terms |-> terms, expiry |-> expiry,
     source |-> source, booking |-> NoBooking]

Init ==
    /\ \E terms \in Terms, status \in Switches, expiry \in Expiries :
          /\ template = [terms |-> terms, status |-> status, expiry |-> expiry,
                         deleted |-> FALSE]
          /\ asked = status
    /\ lock = Nobody
    /\ coupon = [k \in Coupons |-> NoCoupon]
    /\ booking = [b \in Bookings |-> None]
    /\ call = [c \in Callers |-> Idle]

On(t) == t.status = "active" /\ ~t.deleted
Held(who) == {k \in Coupons : coupon[k].status = "usable" /\ coupon[k].owner = who}
Fresh == {k \in Coupons : coupon[k].status = "none"}

\* InnoDB grants the row of the template when no claim holds it
TemplateFree == lock = Nobody

Then(c, next) == call' = [call EXCEPT ![c] = next]

-----------------------------------------------------------------------------
(* Claiming, issuing and the template                                      *)

\* Mutant: the template is read without FOR UPDATE
ClaimUnlocked(c, who) ==
    /\ call[c] = Idle /\ On(template)
    /\ Then(c, [op |-> "claim", who |-> who])
    /\ UNCHANGED <<template, lock, coupon, booking, asked>>

ClaimLock(c, who) ==
    /\ call[c] = Idle
    /\ TemplateFree /\ On(template)
    /\ lock' = c
    /\ Then(c, [op |-> "claim", who |-> who])
    /\ UNCHANGED <<template, coupon, booking, asked>>

\* 409: the look counts the rows that are usable, whatever their expire_at
ClaimRefused(c) ==
    /\ call[c].op = "claim" /\ Held(call[c].who) # {}
    /\ lock' = Nobody
    /\ Then(c, Idle)
    /\ UNCHANGED <<template, coupon, booking, asked>>

ClaimLook(c) ==
    /\ call[c].op = "claim" /\ Held(call[c].who) = {}
    /\ Then(c, [op |-> "insert", who |-> call[c].who])
    /\ UNCHANGED <<template, lock, coupon, booking, asked>>

ClaimCommit(c) ==
    /\ call[c].op = "insert"
    /\ \E k \in Fresh :
          coupon' = [coupon EXCEPT ![k] = NewCoupon(call[c].who, template.terms,
                                                    template.expiry, "claim")]
    /\ lock' = Nobody
    /\ Then(c, Idle)
    /\ UNCHANGED <<template, booking, asked>>

\* A manager may give any number of coupons
IssueRead(c, who) ==
    /\ call[c] = Idle /\ On(template)
    /\ Then(c, [op |-> "issue", who |-> who, terms |-> template.terms,
                expiry |-> template.expiry])
    /\ UNCHANGED <<template, lock, coupon, booking, asked>>

IssueCommit(c) ==
    /\ call[c].op = "issue" /\ TemplateFree
    /\ \E k \in Fresh :
          coupon' = [coupon EXCEPT ![k] = NewCoupon(call[c].who, call[c].terms,
                                                    call[c].expiry, "manual")]
    /\ Then(c, Idle)
    /\ UNCHANGED <<template, lock, booking, asked>>

\* The input is merged with the row that was read
UpdateRead(c) ==
    /\ call[c] = Idle /\ ~template.deleted
    /\ \E terms \in Terms, expiry \in Expiries, status \in Switches \cup {"unasked"} :
          Then(c, [op |-> "update", terms |-> terms, expiry |-> expiry, status |-> status])
    /\ UNCHANGED <<template, lock, coupon, booking, asked>>

\* merged has no status, so that the UPDATE leaves it alone
UpdateWrite(c) ==
    /\ call[c].op = "update" /\ TemplateFree
    /\ template' = [template EXCEPT !.terms = call[c].terms, !.expiry = call[c].expiry]
    /\ asked' = IF call[c].status = "unasked" THEN asked ELSE call[c].status
    /\ Then(c, Idle)
    /\ UNCHANGED <<lock, coupon, booking>>

RemoveTemplate ==
    /\ ~template.deleted /\ TemplateFree
    /\ template' = [template EXCEPT !.deleted = TRUE]
    /\ UNCHANGED <<lock, coupon, booking, call, asked>>

-----------------------------------------------------------------------------
(* Redeeming                                                               *)

\* loadUsable
Redeemable(k, who, base) ==
    /\ coupon[k].status = "usable" /\ coupon[k].owner = who
    /\ coupon[k].expiry # "past"
    /\ base >= coupon[k].terms.threshold

DiscountOf(k, base) ==
    IF coupon[k].terms.face <= base THEN coupon[k].terms.face ELSE base

\* The price is computed before the transaction
Preview(c, who, b, k) ==
    /\ call[c] = Idle /\ booking[b] = None
    /\ \A d \in Callers : call[d].op \in {"quoted", "redeem"} => call[d].booking # b
    /\ Redeemable(k, who, Base[b])
    /\ Then(c, [op |-> "quoted", who |-> who, booking |-> b, coupon |-> k,
                discount |-> DiscountOf(k, Base[b])])
    /\ UNCHANGED <<template, lock, coupon, booking, asked>>

\* redeemForBooking looks again in the snapshot of the transaction
RedeemRead(c) ==
    /\ call[c].op = "quoted"
    /\ Redeemable(call[c].coupon, call[c].who, Base[call[c].booking])
    /\ Then(c, [call[c] EXCEPT !.op = "redeem"])
    /\ UNCHANGED <<template, lock, coupon, booking, asked>>

\* Mutant: the UPDATE asks for the id only
UnusedAlways(k, who) == TRUE

\* The condition of the UPDATE
Unused(k, who) ==
    coupon[k].status = "usable" /\ coupon[k].owner = who /\ coupon[k].booking = NoBooking

RedeemCommit(c) ==
    LET k == call[c].coupon
        b == call[c].booking
    IN  /\ call[c].op = "redeem"
        /\ Unused(k, call[c].who)
        /\ coupon' = [coupon EXCEPT ![k].status = "used", ![k].booking = b]
        /\ booking' = [booking EXCEPT ![b] =
                          [kind |-> "open", customer |-> call[c].who, coupon |-> k,
                           discount |-> call[c].discount]]
        /\ Then(c, Idle)
        /\ UNCHANGED <<template, lock, asked>>

\* No cancellation gives a coupon back
Cancel(b) ==
    /\ booking[b].kind = "open"
    /\ booking' = [booking EXCEPT ![b].kind = "cancelled"]
    /\ UNCHANGED <<template, lock, coupon, call, asked>>

\* An error, a 409 or a lost connection: the transaction is rolled back
Fails(c) ==
    /\ call[c] # Idle
    /\ lock' = IF lock = c THEN Nobody ELSE lock
    /\ Then(c, Idle)
    /\ UNCHANGED <<template, coupon, booking, asked>>

\* expire_at passes.  Nothing calls expireDue, so the status stays
Lapse(k) ==
    /\ coupon[k].status # "none" /\ coupon[k].expiry = "later"
    /\ coupon' = [coupon EXCEPT ![k].expiry = "past"]
    /\ UNCHANGED <<template, lock, booking, call, asked>>

Next ==
    \/ \E c \in Callers, who \in Customers : ClaimLock(c, who) \/ IssueRead(c, who)
    \/ \E c \in Callers, who \in Customers, b \in Bookings, k \in Coupons : Preview(c, who, b, k)
    \/ \E c \in Callers :
          \/ ClaimRefused(c) \/ ClaimLook(c) \/ ClaimCommit(c)
          \/ IssueCommit(c) \/ UpdateRead(c) \/ UpdateWrite(c)
          \/ RedeemRead(c) \/ RedeemCommit(c) \/ Fails(c)
    \/ \E b \in Bookings : Cancel(b)
    \/ \E k \in Coupons : Lapse(k)
    \/ RemoveTemplate

Spec == Init /\ [][Next]_vars

-----------------------------------------------------------------------------
CouponTypeOK ==
    \A k \in Coupons :
        \/ coupon[k] = NoCoupon
        \/ coupon[k] \in [status : {"usable", "used"}, owner : Customers, terms : Terms,
                         expiry : Expiries, source : {"claim", "manual"},
                         booking : Bookings \cup {NoBooking}]

BookingTypeOK ==
    \A b \in Bookings :
        \/ booking[b] = None
        \/ booking[b] \in [kind : {"open", "cancelled"}, customer : Customers,
                          coupon : Coupons, discount : Nat]

CallTypeOK ==
    \A c \in Callers :
        \/ call[c] = Idle
        \/ call[c] \in [op : {"claim", "insert"}, who : Customers]
        \/ call[c] \in [op : {"issue"}, who : Customers, terms : Terms, expiry : Expiries]
        \/ call[c] \in [op : {"update"}, terms : Terms, expiry : Expiries,
                        status : Switches \cup {"unasked"}]
        \/ call[c] \in [op : {"quoted", "redeem"}, who : Customers, booking : Bookings,
                        coupon : Coupons, discount : Nat]

\* Template, lock, coupons, bookings and calls keep their types; only a claim
\* holds the template.
TypeOK ==
    /\ template \in [terms : Terms, status : Switches, expiry : Expiries, deleted : BOOLEAN]
    /\ lock \in Callers \cup {Nobody}
    /\ \A c \in Callers : lock = c <=> call[c].op \in {"claim", "insert"}
    /\ DOMAIN coupon = Coupons /\ CouponTypeOK
    /\ DOMAIN booking = Bookings /\ BookingTypeOK
    /\ DOMAIN call = Callers /\ CallTypeOK
    /\ asked \in Switches

\* However often and from however many devices a customer claims, and whatever
\* a manager issues at the same time: of what was claimed one is unused at most.
ClaimedOnce ==
    \A k, l \in Coupons :
        /\ coupon[k].status = "usable" /\ coupon[l].status = "usable"
        /\ coupon[k].owner = coupon[l].owner
        /\ coupon[k].source = "claim" /\ coupon[l].source = "claim"
        => k = l

\* Every discount that was granted is backed by a coupon of that customer, used
\* for that booking and no other, and is worth what the coupon's own terms say,
\* whatever became of the template since; and no coupon is used up for nothing.
DiscountBacked ==
    /\ \A b \in Bookings : booking[b] # None =>
          LET k == booking[b].coupon
          IN  /\ coupon[k].status = "used" /\ coupon[k].booking = b
              /\ coupon[k].owner = booking[b].customer
              /\ Base[b] >= coupon[k].terms.threshold
              /\ booking[b].discount = DiscountOf(k, Base[b])
    /\ \A k \in Coupons : coupon[k].status = "used" =>
          /\ coupon[k].booking \in Bookings
          /\ booking[coupon[k].booking] # None
          /\ booking[coupon[k].booking].coupon = k

\* No coupon is claimed of a template that is off at that moment: a template that
\* is removed waits for the claims that locked it.
NothingClaimedWhenOff ==
    [][\A k \in Coupons :
          k \in Fresh /\ coupon'[k].status # "none" /\ coupon'[k].source = "claim"
              => On(template)]_vars

\* What PATCH status=disabled promises: nothing is claimed once it was answered.
SwitchIsObeyed ==
    [][\A k \in Coupons :
          k \in Fresh /\ coupon'[k].status # "none" /\ coupon'[k].source = "claim"
              => asked = "active"]_vars

\* "You have claimed this one already" is said only to a customer who could use it.
RefusedCanUse ==
    [][\A c \in Callers : ClaimRefused(c) =>
          \E k \in Held(call[c].who) : coupon[k].expiry # "past"]_vars
=============================================================================
