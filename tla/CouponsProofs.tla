---------------------------- MODULE CouponsProofs ----------------------------
(***************************************************************************)
(* Theorems about one coupon template, for any number of customers,        *)
(* coupons, bookings and requests, any terms and any prices.               *)
(***************************************************************************)
EXTENDS Coupons, TLAPS

CouponRows == [status : {"usable", "used"}, owner : Customers, terms : Terms,
               expiry : Expiries, source : {"claim", "manual"},
               booking : Bookings \cup {NoBooking}]
BookingRows == [kind : {"open", "cancelled"}, customer : Customers, coupon : Coupons,
                discount : Nat]
Quotes == [op : {"quoted", "redeem"}, who : Customers, booking : Bookings,
           coupon : Coupons, discount : Nat]
Quoting(c) == call[c].op \in {"quoted", "redeem"}

\* The updates of a template wait for a claim, so it claims of an active one.
LockedIsOn == lock # Nobody => On(template)

\* Nothing is inserted between the look of a claim and its own insert.
InsertIsFirst ==
    \A c \in Callers : call[c].op = "insert" => Held(call[c].who) = {}

\* What a request was quoted still holds of its coupon, and its booking is
\* nobody else's.
QuotesSound ==
    /\ \A c \in Callers : Quoting(c) =>
          LET k == call[c].coupon
              b == call[c].booking
          IN  /\ booking[b] = None
              /\ coupon[k].status # "none"
              /\ Base[b] >= coupon[k].terms.threshold
              /\ call[c].discount = DiscountOf(k, Base[b])
    /\ \A c, d \in Callers :
          Quoting(c) /\ Quoting(d) /\ call[c].booking = call[d].booking => c = d

\* A booking's discount is backed by its coupon.
Backed(b) ==
    LET k == booking[b].coupon
    IN  /\ coupon[k].status = "used" /\ coupon[k].booking = b
        /\ coupon[k].owner = booking[b].customer
        /\ Base[b] >= coupon[k].terms.threshold
        /\ booking[b].discount = DiscountOf(k, Base[b])

IInv == TypeOK /\ LockedIsOn /\ InsertIsFirst /\ ClaimedOnce /\ QuotesSound /\ DiscountBacked

-----------------------------------------------------------------------------
LEMMA CouponTypes ==
    ASSUME TypeOK, NEW k \in Coupons
    PROVE  /\ coupon[k].status = "none" <=> coupon[k] = NoCoupon
           /\ coupon[k].status # "none" => coupon[k] \in CouponRows
  BY DEF TypeOK, CouponTypeOK, CouponRows, NoCoupon

LEMMA CallTypes ==
    ASSUME TypeOK, NEW c \in Callers
    PROVE  /\ call[c].op = "idle" <=> call[c] = Idle
           /\ call[c].op \in {"claim", "insert"} => call[c] \in [op : {"claim", "insert"}, who : Customers]
           /\ call[c].op = "issue" => call[c] \in [op : {"issue"}, who : Customers, terms : Terms, expiry : Expiries]
           /\ call[c].op = "update" => call[c] \in [op : {"update"}, terms : Terms, expiry : Expiries,
                                                    status : Switches \cup {"unasked"}]
           /\ Quoting(c) => call[c] \in Quotes
  BY DEF TypeOK, CallTypeOK, Quotes, Quoting, Idle

LEMMA InitInv == Init => IInv
  <1> SUFFICES ASSUME Init PROVE IInv
    OBVIOUS
  <1>1. TypeOK
    BY NobodyAssumption DEF Init, TypeOK, CouponTypeOK, BookingTypeOK, CallTypeOK, Idle, Switches
  <1>2. LockedIsOn /\ InsertIsFirst /\ QuotesSound
    BY DEF Init, LockedIsOn, InsertIsFirst, QuotesSound, Quoting, Idle
  <1>3. ClaimedOnce /\ DiscountBacked
    BY DEF Init, ClaimedOnce, DiscountBacked, NoCoupon, None
  <1> QED
    BY <1>1, <1>2, <1>3 DEF IInv

\* A request that looks, is refused or ends: the tables stay.
LEMMA CallInv ==
    ASSUME IInv, NEW c \in Callers, NEW next,
           call' = [call EXCEPT ![c] = next],
           UNCHANGED <<template, coupon, booking>>,
           lock' = IF next.op \in {"claim", "insert"} THEN c
                   ELSE IF lock = c THEN Nobody ELSE lock,
           next.op \in {"claim", "insert"} => lock \in {c, Nobody} /\ On(template),
           next.op = "insert" => Held(next.who) = {},
           \/ next = Idle
           \/ next \in [op : {"claim", "insert"}, who : Customers]
           \/ next \in [op : {"issue"}, who : Customers, terms : Terms, expiry : Expiries]
           \/ next \in [op : {"update"}, terms : Terms, expiry : Expiries,
                        status : Switches \cup {"unasked"}]
           \/ next \in Quotes,
           next.op \in {"quoted", "redeem"} =>
              /\ booking[next.booking] = None
              /\ coupon[next.coupon].status # "none"
              /\ Base[next.booking] >= coupon[next.coupon].terms.threshold
              /\ next.discount = DiscountOf(next.coupon, Base[next.booking])
              /\ \A d \in Callers \ {c} : Quoting(d) => call[d].booking # next.booking,
           asked' \in Switches
    PROVE  IInv'
  <1>1. DOMAIN call = Callers /\ call'[c] = next /\ \A d \in Callers \ {c} : call'[d] = call[d]
    BY DEF IInv, TypeOK
  <1>2. Nobody \notin Callers
    BY NobodyAssumption
  <1>3. CallTypeOK' /\ DOMAIN call' = Callers
    BY <1>1 DEF IInv, TypeOK, CallTypeOK, Quotes
  <1>4. /\ lock' \in Callers \cup {Nobody}
        /\ \A d \in Callers : lock' = d <=> call'[d].op \in {"claim", "insert"}
    BY <1>1, <1>2 DEF IInv, TypeOK, Idle
  <1>5. TypeOK'
    BY <1>3, <1>4 DEF IInv, TypeOK, CouponTypeOK, BookingTypeOK
  <1>6. LockedIsOn'
    BY DEF IInv, LockedIsOn, On
  <1>7. InsertIsFirst'
    BY <1>1 DEF IInv, InsertIsFirst, Held
  <1>8. QuotesSound'
    BY <1>1 DEF IInv, QuotesSound, Quoting, DiscountOf
  <1>9. ClaimedOnce' /\ DiscountBacked'
    BY DEF IInv, ClaimedOnce, DiscountBacked, DiscountOf
  <1> QED
    BY <1>5, <1>6, <1>7, <1>8, <1>9 DEF IInv

LEMMA ClaimCallsInv ==
    ASSUME IInv, NEW c \in Callers,
           (\E who \in Customers : ClaimLock(c, who)) \/ ClaimRefused(c) \/ ClaimLook(c) \/ Fails(c)
    PROVE  IInv'
  <1> USE NobodyAssumption
  <1>1. ASSUME NEW who \in Customers, ClaimLock(c, who)
        PROVE  IInv'
    BY <1>1, CallInv DEF ClaimLock, Then, TemplateFree, IInv, TypeOK
  <1>2. CASE ClaimRefused(c)
    <2>1. lock = c
      BY <1>2 DEF ClaimRefused, IInv, TypeOK
    <2> QED
      BY <1>2, <2>1, CallInv DEF ClaimRefused, Then, Idle, IInv, TypeOK
  <1>3. CASE ClaimLook(c)
    <2>1. lock = c /\ On(template) /\ call[c].who \in Customers
      BY <1>3, CallTypes DEF ClaimLook, IInv, TypeOK, LockedIsOn
    <2> QED
      BY <1>3, <2>1, CallInv DEF ClaimLook, Then, IInv, TypeOK
  <1>4. CASE Fails(c)
    BY <1>4, CallInv DEF Fails, Then, Idle, IInv, TypeOK
  <1> QED
    BY <1>1, <1>2, <1>3, <1>4

LEMMA ReadsInv ==
    ASSUME IInv, NEW c \in Callers,
           (\E who \in Customers : IssueRead(c, who)) \/ UpdateRead(c)
    PROVE  IInv'
  <1>1. lock # c
    <2>1. call[c] = Idle
      BY DEF IssueRead, UpdateRead
    <2> QED
      BY <2>1 DEF Idle, IInv, TypeOK
  <1>2. ASSUME NEW who \in Customers, IssueRead(c, who)
        PROVE  IInv'
    BY <1>1, <1>2, CallInv DEF IssueRead, Then, IInv, TypeOK
  <1>3. CASE UpdateRead(c)
    BY <1>1, <1>3, CallInv DEF UpdateRead, Then, IInv, TypeOK
  <1> QED
    BY <1>2, <1>3

LEMMA BaseIsNatural == \A b \in Bookings : Base[b] \in Nat
  BY CouponsAssumption

LEMMA DiscountIsNatural ==
    ASSUME TypeOK, NEW k \in Coupons, coupon[k].status # "none", NEW b \in Bookings
    PROVE  DiscountOf(k, Base[b]) \in Nat
  <1>1. coupon[k].terms \in Terms
    BY CouponTypes DEF CouponRows
  <1>2. coupon[k].terms.face \in Nat
    BY <1>1, TermsAssumption
  <1> QED
    BY <1>2, BaseIsNatural DEF DiscountOf

LEMMA QuoteCallsInv ==
    ASSUME IInv, NEW c \in Callers,
           \/ \E who \in Customers, b \in Bookings, k \in Coupons : Preview(c, who, b, k)
           \/ RedeemRead(c)
    PROVE  IInv'
  <1>1. lock = c => call[c].op \in {"claim", "insert"}
    BY DEF IInv, TypeOK
  <1>2. ASSUME NEW who \in Customers, NEW b \in Bookings, NEW k \in Coupons, Preview(c, who, b, k)
        PROVE  IInv'
    <2> DEFINE next == [op |-> "quoted", who |-> who, booking |-> b, coupon |-> k,
                        discount |-> DiscountOf(k, Base[b])]
    <2>1. coupon[k].status # "none"
      BY <1>2 DEF Preview, Redeemable
    <2>2. next \in Quotes
      BY <2>1, DiscountIsNatural DEF IInv, Quotes
    <2>3. \A d \in Callers \ {c} : Quoting(d) => call[d].booking # b
      BY <1>2 DEF Preview, Quoting
    <2>4. booking[b] = None /\ Base[b] >= coupon[k].terms.threshold
      BY <1>2 DEF Preview, Redeemable
    <2>5. lock # c
      BY <1>1, <1>2 DEF Preview, Idle
    <2> QED
      BY <1>2, <2>1, <2>2, <2>3, <2>4, <2>5, CallInv DEF Preview, Then, IInv, TypeOK
  <1>3. CASE RedeemRead(c)
    <2> DEFINE next == [call[c] EXCEPT !.op = "redeem"]
    <2>1. call[c] \in Quotes /\ Quoting(c)
      BY <1>3, CallTypes DEF RedeemRead, Quoting, IInv
    <2>2. /\ next \in Quotes /\ next.op = "redeem" /\ next.booking = call[c].booking
          /\ next.coupon = call[c].coupon /\ next.discount = call[c].discount
      BY <2>1 DEF Quotes
    <2>3. /\ booking[next.booking] = None
          /\ coupon[next.coupon].status # "none"
          /\ Base[next.booking] >= coupon[next.coupon].terms.threshold
          /\ next.discount = DiscountOf(next.coupon, Base[next.booking])
          /\ \A d \in Callers \ {c} : Quoting(d) => call[d].booking # next.booking
      BY <2>1, <2>2 DEF IInv, QuotesSound
    <2>4. lock # c
      BY <1>1, <1>3 DEF RedeemRead
    <2> QED
      BY <1>3, <2>2, <2>3, <2>4, CallInv DEF RedeemRead, Then, IInv, TypeOK
  <1> QED
    BY <1>2, <1>3

-----------------------------------------------------------------------------
\* A coupon is inserted: no claim is between its look and its insert but this one.
LEMMA InsertInv ==
    ASSUME IInv, NEW c \in Callers, NEW k \in Fresh, NEW who \in Customers,
           NEW terms \in Terms, NEW expiry \in Expiries, NEW source \in {"claim", "manual"},
           coupon' = [coupon EXCEPT ![k] = NewCoupon(who, terms, expiry, source)],
           call' = [call EXCEPT ![c] = Idle],
           lock \in {c, Nobody}, lock' = Nobody,
           UNCHANGED <<template, booking, asked>>,
           source = "claim" => Held(who) = {}
    PROVE  IInv'
  <1> DEFINE row == NewCoupon(who, terms, expiry, source)
  <1>1. k \in Coupons /\ coupon[k].status = "none"
    BY DEF Fresh
  <1>2. /\ DOMAIN coupon = Coupons /\ coupon'[k] = row
        /\ \A l \in Coupons \ {k} : coupon'[l] = coupon[l]
    BY <1>1 DEF IInv, TypeOK
  <1>3. row \in CouponRows /\ row.status = "usable" /\ row.owner = who /\ row.source = source
    BY DEF NewCoupon, CouponRows
  <1>4. /\ DOMAIN call = Callers /\ call'[c] = Idle
        /\ \A d \in Callers \ {c} : call'[d] = call[d]
    BY DEF IInv, TypeOK
  <1>5. \A d \in Callers : call'[d].op \notin {"claim", "insert"}
    BY <1>4, NobodyAssumption DEF IInv, TypeOK, Idle
  <1>6. TypeOK'
    <2>1. CouponTypeOK' /\ DOMAIN coupon' = Coupons
      BY <1>2, <1>3 DEF IInv, TypeOK, CouponTypeOK, CouponRows
    <2>2. CallTypeOK' /\ DOMAIN call' = Callers
      BY <1>4 DEF IInv, TypeOK, CallTypeOK
    <2>3. lock' \in Callers \cup {Nobody} /\ \A d \in Callers : lock' = d <=> call'[d].op \in {"claim", "insert"}
      BY <1>5, NobodyAssumption
    <2> QED
      BY <2>1, <2>2, <2>3 DEF IInv, TypeOK, BookingTypeOK
  <1>7. LockedIsOn' /\ InsertIsFirst'
    BY <1>5 DEF LockedIsOn, InsertIsFirst
  <1>8. ClaimedOnce'
    <2>1. source = "claim" => \A l \in Coupons : ~(coupon[l].status = "usable" /\ coupon[l].owner = who)
      BY DEF Held
    <2> QED
      BY <1>1, <1>2, <1>3, <2>1 DEF IInv, ClaimedOnce
  <1>9. QuotesSound'
    <2>1. \A d \in Callers : Quoting(d)' => d # c /\ Quoting(d) /\ call'[d] = call[d]
      BY <1>4 DEF Quoting, Idle
    <2>2. \A d \in Callers : Quoting(d) => call[d].coupon \in Coupons /\ call[d].booking \in Bookings
      BY CallTypes DEF IInv, Quotes
    <2> QED
      BY <1>1, <1>2, <2>1, <2>2 DEF IInv, QuotesSound, DiscountOf
  <1>10. DiscountBacked'
    <2>1. \A b \in Bookings : booking[b] # None => booking[b].coupon \in Coupons
      BY DEF IInv, TypeOK, BookingTypeOK
    <2> QED
      BY <1>1, <1>2, <1>3, <2>1 DEF IInv, DiscountBacked, DiscountOf
  <1> QED
    BY <1>6, <1>7, <1>8, <1>9, <1>10 DEF IInv

LEMMA InsertsInv ==
    ASSUME IInv, NEW c \in Callers, ClaimCommit(c) \/ IssueCommit(c)
    PROVE  IInv'
  <1>1. CASE ClaimCommit(c)
    <2>1. call[c].who \in Customers /\ lock = c /\ Held(call[c].who) = {}
      BY <1>1, CallTypes DEF ClaimCommit, IInv, TypeOK, InsertIsFirst
    <2>2. template.terms \in Terms /\ template.expiry \in Expiries
      BY DEF IInv, TypeOK
    <2> QED
      BY <1>1, <2>1, <2>2, InsertInv DEF ClaimCommit, Then
  <1>2. CASE IssueCommit(c)
    <2>1. call[c].who \in Customers /\ call[c].terms \in Terms /\ call[c].expiry \in Expiries
      BY <1>2, CallTypes DEF IssueCommit, IInv
    <2>2. PICK k \in Fresh : coupon' = [coupon EXCEPT ![k] = NewCoupon(call[c].who, call[c].terms,
                                                                        call[c].expiry, "manual")]
      BY <1>2 DEF IssueCommit
    <2>3. lock = Nobody /\ lock' = Nobody /\ call' = [call EXCEPT ![c] = Idle]
      BY <1>2 DEF IssueCommit, Then, TemplateFree
    <2>4. UNCHANGED <<template, booking, asked>>
      BY <1>2 DEF IssueCommit
    <2> QED
      BY <2>1, <2>2, <2>3, <2>4, InsertInv
  <1> QED
    BY <1>1, <1>2

LEMMA TemplateInv ==
    ASSUME IInv, (\E c \in Callers : UpdateWrite(c)) \/ RemoveTemplate
    PROVE  IInv'
  <1>1. ASSUME NEW c \in Callers, UpdateWrite(c)
        PROVE  IInv'
    <2>1. /\ DOMAIN call = Callers /\ call'[c] = Idle
          /\ \A d \in Callers \ {c} : call'[d] = call[d]
      BY <1>1 DEF UpdateWrite, Then, IInv, TypeOK
    <2>2. call[c].terms \in Terms /\ call[c].expiry \in Expiries /\ call[c].status \in Switches \cup {"unasked"}
      BY <1>1, CallTypes DEF UpdateWrite, IInv
    <2>3. template' \in [terms : Terms, status : Switches, expiry : Expiries, deleted : BOOLEAN]
      BY <1>1, <2>2 DEF UpdateWrite, IInv, TypeOK
    <2>4. CallTypeOK' /\ DOMAIN call' = Callers
      BY <1>1, <2>1 DEF UpdateWrite, Then, IInv, TypeOK, CallTypeOK
    <2>5. \A d \in Callers : lock' = d <=> call'[d].op \in {"claim", "insert"}
      <3>1. lock = Nobody /\ lock' = Nobody
        BY <1>1 DEF UpdateWrite, TemplateFree
      <3>2. \A d \in Callers : call[d].op \notin {"claim", "insert"}
        BY <3>1, NobodyAssumption DEF IInv, TypeOK
      <3> QED
        BY <2>1, <3>1, <3>2, NobodyAssumption DEF Idle
    <2>6. TypeOK'
      BY <1>1, <2>2, <2>3, <2>4, <2>5 DEF UpdateWrite, IInv, TypeOK, CouponTypeOK, BookingTypeOK
    <2>7. LockedIsOn' /\ InsertIsFirst'
      BY <1>1, <2>1, <2>5, NobodyAssumption DEF UpdateWrite, TemplateFree, LockedIsOn, InsertIsFirst
    <2>8. QuotesSound'
      <3>1. \A d \in Callers : Quoting(d)' => d # c /\ Quoting(d) /\ call'[d] = call[d]
        BY <2>1 DEF Quoting, Idle
      <3>2. UNCHANGED <<coupon, booking>>
        BY <1>1 DEF UpdateWrite
      <3> QED
        BY <3>1, <3>2 DEF IInv, QuotesSound, DiscountOf
    <2>9. ClaimedOnce' /\ DiscountBacked'
      BY <1>1 DEF UpdateWrite, IInv, ClaimedOnce, DiscountBacked, DiscountOf
    <2> QED
      BY <2>6, <2>7, <2>8, <2>9 DEF IInv
  <1>2. CASE RemoveTemplate
    <2>1. TypeOK'
      BY <1>2 DEF RemoveTemplate, IInv, TypeOK, CouponTypeOK, BookingTypeOK, CallTypeOK
    <2>2. LockedIsOn' /\ InsertIsFirst'
      BY <1>2 DEF RemoveTemplate, TemplateFree, IInv, LockedIsOn, InsertIsFirst, Held
    <2>3. QuotesSound' /\ ClaimedOnce' /\ DiscountBacked'
      BY <1>2 DEF RemoveTemplate, IInv, QuotesSound, Quoting, ClaimedOnce, DiscountBacked, DiscountOf
    <2> QED
      BY <2>1, <2>2, <2>3 DEF IInv
  <1> QED
    BY <1>1, <1>2

-----------------------------------------------------------------------------
LEMMA RedeemInv ==
    ASSUME IInv, NEW c \in Callers, RedeemCommit(c)
    PROVE  IInv'
  <1> DEFINE k == call[c].coupon
             b == call[c].booking
             made == [kind |-> "open", customer |-> call[c].who, coupon |-> k,
                      discount |-> call[c].discount]
  <1>1. /\ Quoting(c) /\ call[c] \in Quotes /\ k \in Coupons /\ b \in Bookings
        /\ booking[b] = None /\ made \in BookingRows
    BY CallTypes DEF RedeemCommit, IInv, QuotesSound, Quoting, Quotes, BookingRows
  <1>2. /\ coupon[k] \in CouponRows /\ coupon[k].status = "usable"
        /\ coupon[k].owner = call[c].who /\ coupon[k].booking = NoBooking
    BY <1>1, CouponTypes DEF RedeemCommit, Unused, IInv
  <1>3. /\ DOMAIN coupon = Coupons
        /\ coupon'[k] = [coupon[k] EXCEPT !.status = "used", !.booking = b]
        /\ \A l \in Coupons \ {k} : coupon'[l] = coupon[l]
    BY <1>1 DEF RedeemCommit, IInv, TypeOK
  <1>4. /\ coupon'[k] \in CouponRows /\ coupon'[k].status = "used" /\ coupon'[k].booking = b
        /\ coupon'[k].owner = coupon[k].owner /\ coupon'[k].terms = coupon[k].terms
        /\ coupon'[k].source = coupon[k].source
    BY <1>1, <1>2, <1>3 DEF CouponRows
  <1>5. /\ DOMAIN booking = Bookings /\ booking'[b] = made
        /\ \A a \in Bookings \ {b} : booking'[a] = booking[a]
    BY <1>1 DEF RedeemCommit, IInv, TypeOK
  <1>6. /\ DOMAIN call = Callers /\ call'[c] = Idle
        /\ \A d \in Callers \ {c} : call'[d] = call[d]
    BY DEF RedeemCommit, Then, IInv, TypeOK
  <1>7. UNCHANGED <<template, lock, asked>>
    BY DEF RedeemCommit
  <1>8. TypeOK'
    <2>1. CouponTypeOK' /\ DOMAIN coupon' = Coupons
      BY <1>3, <1>4 DEF RedeemCommit, IInv, TypeOK, CouponTypeOK, CouponRows
    <2>2. BookingTypeOK' /\ DOMAIN booking' = Bookings
      BY <1>1, <1>5 DEF RedeemCommit, IInv, TypeOK, BookingTypeOK, BookingRows
    <2>3. CallTypeOK' /\ DOMAIN call' = Callers
      BY <1>6 DEF RedeemCommit, Then, IInv, TypeOK, CallTypeOK
    <2>4. \A d \in Callers : lock' = d <=> call'[d].op \in {"claim", "insert"}
      BY <1>1, <1>6, <1>7 DEF IInv, TypeOK, Quoting, Idle
    <2> QED
      BY <1>7, <2>1, <2>2, <2>3, <2>4 DEF IInv, TypeOK
  <1>9. LockedIsOn'
    BY <1>7 DEF IInv, LockedIsOn, On
  <1>10. InsertIsFirst'
    <2>1. \A who : Held(who) = {} => Held(who)' = {}
      BY <1>3, <1>4 DEF Held
    <2>2. \A d \in Callers : call'[d].op = "insert" => call'[d] = call[d]
      BY <1>6 DEF Idle
    <2> QED
      BY <2>1, <2>2 DEF IInv, InsertIsFirst, Held
  <1>11. ClaimedOnce'
    <2>1. \A l \in Coupons : coupon'[l].status = "usable" => coupon'[l] = coupon[l]
      BY <1>3, <1>4
    <2> QED
      BY <2>1 DEF IInv, ClaimedOnce
  <1>12. \A l \in Coupons : coupon[l].status # "none" =>
            coupon'[l].status # "none" /\ coupon'[l].terms = coupon[l].terms
    BY <1>3, <1>4
  <1>13. QuotesSound'
    <2>1. \A d \in Callers : Quoting(d)' => /\ d # c /\ Quoting(d) /\ call'[d] = call[d]
                                           /\ call[d].booking # b
      BY <1>1, <1>6 DEF IInv, QuotesSound, Quoting, Idle
    <2>2. \A d \in Callers : Quoting(d) => call[d].coupon \in Coupons /\ call[d].booking \in Bookings
      BY CallTypes DEF IInv, Quotes
    <2> QED
      BY <1>5, <1>12, <2>1, <2>2 DEF IInv, QuotesSound, DiscountOf
  <1>14. DiscountBacked'
    <2>1. \A a \in Bookings : booking[a] # None => booking[a].coupon \in Coupons \ {k}
      BY <1>2, CouponTypes DEF IInv, TypeOK, BookingTypeOK, DiscountBacked
    <2>2. /\ Base[b] >= coupon[k].terms.threshold
          /\ call[c].discount = DiscountOf(k, Base[b])
      BY <1>1 DEF IInv, QuotesSound
    <2>3. made # None /\ made.coupon = k /\ made.customer = call[c].who /\ made.discount = call[c].discount
      BY DEF None
    <2>4. ASSUME NEW a \in Bookings, booking'[a] # None
          PROVE  Backed(a)'
      <3>1. CASE a = b
        BY <1>2, <1>4, <1>5, <2>2, <2>3, <3>1 DEF Backed, DiscountOf
      <3>2. CASE a # b
        BY <1>3, <1>5, <2>1, <2>4, <3>2 DEF IInv, DiscountBacked, Backed, DiscountOf
      <3> QED
        BY <3>1, <3>2
    <2>5. ASSUME NEW l \in Coupons, coupon'[l].status = "used"
          PROVE  /\ coupon'[l].booking \in Bookings
                 /\ booking'[coupon'[l].booking] # None
                 /\ booking'[coupon'[l].booking].coupon = l
      <3>1. CASE l = k
        BY <1>1, <1>4, <1>5, <2>3, <3>1
      <3>2. CASE l # k
        BY <1>1, <1>3, <1>5, <2>5, <3>2 DEF IInv, DiscountBacked
      <3> QED
        BY <3>1, <3>2
    <2> QED
      BY <2>4, <2>5 DEF DiscountBacked, Backed
  <1> QED
    BY <1>8, <1>9, <1>10, <1>11, <1>13, <1>14 DEF IInv

LEMMA CancelInv ==
    ASSUME IInv, NEW b \in Bookings, Cancel(b)
    PROVE  IInv'
  <1>1. booking[b] # None /\ booking[b] \in BookingRows
    BY DEF Cancel, None, IInv, TypeOK, BookingTypeOK, BookingRows
  <1>2. /\ DOMAIN booking = Bookings /\ booking'[b] = [booking[b] EXCEPT !.kind = "cancelled"]
        /\ \A a \in Bookings \ {b} : booking'[a] = booking[a]
    BY DEF Cancel, IInv, TypeOK
  <1>3. /\ booking'[b] \in BookingRows /\ booking'[b] # None /\ booking'[b].coupon = booking[b].coupon
        /\ booking'[b].customer = booking[b].customer /\ booking'[b].discount = booking[b].discount
    BY <1>1, <1>2 DEF BookingRows, None
  <1>4. UNCHANGED <<template, lock, coupon, call, asked>>
    BY DEF Cancel
  <1>5. BookingTypeOK' /\ DOMAIN booking' = Bookings
    BY <1>2, <1>3 DEF Cancel, IInv, TypeOK, BookingTypeOK, BookingRows
  <1>6. TypeOK'
    BY <1>4, <1>5 DEF IInv, TypeOK, CouponTypeOK, CallTypeOK
  <1>7. LockedIsOn' /\ InsertIsFirst' /\ ClaimedOnce'
    BY <1>4 DEF IInv, LockedIsOn, On, InsertIsFirst, Held, ClaimedOnce
  <1>8. QuotesSound'
    <2>1. \A c \in Callers : Quoting(c) => call[c].booking \in Bookings \ {b}
      BY <1>1, CallTypes DEF IInv, QuotesSound, Quotes
    <2> QED
      BY <1>2, <1>4, <2>1 DEF IInv, QuotesSound, Quoting, DiscountOf
  <1>9. DiscountBacked'
    <2>1. \A a \in Bookings :
             /\ booking'[a] # None <=> booking[a] # None
             /\ booking[a] # None =>
                   /\ booking'[a].coupon = booking[a].coupon
                   /\ booking'[a].customer = booking[a].customer
                   /\ booking'[a].discount = booking[a].discount
      BY <1>1, <1>2, <1>3
    <2> QED
      BY <1>4, <2>1 DEF IInv, DiscountBacked, DiscountOf
  <1> QED
    BY <1>6, <1>7, <1>8, <1>9 DEF IInv

LEMMA LapseInv ==
    ASSUME IInv, NEW k \in Coupons, Lapse(k)
    PROVE  IInv'
  <1>1. coupon[k] \in CouponRows
    BY CouponTypes DEF Lapse, IInv
  <1>2. /\ DOMAIN coupon = Coupons /\ coupon'[k] = [coupon[k] EXCEPT !.expiry = "past"]
        /\ \A l \in Coupons \ {k} : coupon'[l] = coupon[l]
    BY DEF Lapse, IInv, TypeOK
  <1>3. coupon'[k] \in CouponRows
    BY <1>1, <1>2 DEF CouponRows, Expiries
  <1>4. \A l \in Coupons :
           /\ coupon'[l].status = coupon[l].status
           /\ coupon[l].status # "none" =>
                 /\ coupon'[l].owner = coupon[l].owner /\ coupon'[l].terms = coupon[l].terms
                 /\ coupon'[l].source = coupon[l].source /\ coupon'[l].booking = coupon[l].booking
    BY <1>1, <1>2 DEF CouponRows
  <1>5. UNCHANGED <<template, lock, booking, call, asked>>
    BY DEF Lapse
  <1>6. CouponTypeOK' /\ DOMAIN coupon' = Coupons
    BY <1>2, <1>3 DEF Lapse, IInv, TypeOK, CouponTypeOK, CouponRows
  <1>7. TypeOK'
    BY <1>5, <1>6 DEF IInv, TypeOK, BookingTypeOK, CallTypeOK
  <1>8. LockedIsOn' /\ InsertIsFirst' /\ ClaimedOnce'
    BY <1>4, <1>5 DEF IInv, LockedIsOn, On, InsertIsFirst, Held, ClaimedOnce
  <1>9. QuotesSound'
    <2>1. \A c \in Callers : Quoting(c) => call[c].coupon \in Coupons
      BY CallTypes DEF IInv, Quotes
    <2> QED
      BY <1>4, <1>5, <2>1 DEF IInv, QuotesSound, Quoting, DiscountOf
  <1>10. DiscountBacked'
    <2>1. \A b \in Bookings : booking[b] # None => booking[b].coupon \in Coupons
      BY DEF IInv, TypeOK, BookingTypeOK
    <2> QED
      BY <1>4, <1>5, <2>1 DEF IInv, DiscountBacked, DiscountOf
  <1> QED
    BY <1>7, <1>8, <1>9, <1>10 DEF IInv

LEMMA NextInv == IInv /\ [Next]_vars => IInv'
  <1> SUFFICES ASSUME IInv, [Next]_vars PROVE IInv'
    OBVIOUS
  <1>1. CASE UNCHANGED vars
    BY <1>1 DEF vars, IInv, TypeOK, CouponTypeOK, BookingTypeOK, CallTypeOK, LockedIsOn, On,
                InsertIsFirst, Held, ClaimedOnce, QuotesSound, Quoting, DiscountBacked, DiscountOf
  <1>2. ASSUME NEW c \in Callers, NEW who \in Customers, ClaimLock(c, who) \/ IssueRead(c, who)
        PROVE  IInv'
    BY <1>2, ClaimCallsInv, ReadsInv
  <1>3. ASSUME NEW c \in Callers, NEW who \in Customers, NEW b \in Bookings, NEW k \in Coupons,
               Preview(c, who, b, k)
        PROVE  IInv'
    BY <1>3, QuoteCallsInv
  <1>4. ASSUME NEW c \in Callers,
               \/ ClaimRefused(c) \/ ClaimLook(c) \/ ClaimCommit(c)
               \/ IssueCommit(c) \/ UpdateRead(c) \/ UpdateWrite(c)
               \/ RedeemRead(c) \/ RedeemCommit(c) \/ Fails(c)
        PROVE  IInv'
    BY <1>4, ClaimCallsInv, ReadsInv, InsertsInv, TemplateInv, QuoteCallsInv, RedeemInv
  <1> QED
    BY <1>1, <1>2, <1>3, <1>4, CancelInv, LapseInv, TemplateInv DEF Next

-----------------------------------------------------------------------------
LEMMA InvHolds == Spec => []IInv
  BY InitInv, NextInv, PTL DEF Spec

\* Tables, lock and requests keep their types, and only a claim holds the
\* template.
THEOREM CouponsTypeOK == Spec => []TypeOK
  BY InvHolds, PTL DEF IInv

\* claim: of the coupons a customer claimed one is unused at most.
THEOREM CouponsClaimedOnce == Spec => []ClaimedOnce
  BY InvHolds, PTL DEF IInv

\* redeemForBooking: each discount has a used coupon of its own, of that
\* customer and worth that discount; none is used up for nothing.
THEOREM CouponsDiscountBacked == Spec => []DiscountBacked
  BY InvHolds, PTL DEF IInv

\* claim: nothing is claimed of a template that is off or removed.
THEOREM CouponsNothingClaimedWhenOff == Spec => NothingClaimedWhenOff
  <1> DEFINE Claims == \A k \in Coupons :
                 k \in Fresh /\ coupon'[k].status # "none" /\ coupon'[k].source = "claim"
                     => On(template)
  <1>1. IInv /\ [Next]_vars => [Claims]_vars
    <2> SUFFICES ASSUME IInv, Next, NEW k \in Coupons, coupon[k].status = "none",
                        coupon'[k].status # "none", coupon'[k].source = "claim"
                 PROVE  On(template)
      BY DEF Fresh
    <2>1. DOMAIN coupon = Coupons /\ coupon' # coupon
      BY DEF IInv, TypeOK
    <2>2. ASSUME NEW c \in Callers, ClaimCommit(c)
          PROVE  On(template)
      BY <2>2, NobodyAssumption DEF ClaimCommit, IInv, TypeOK, LockedIsOn
    <2>3. ASSUME NEW c \in Callers, IssueCommit(c)
          PROVE  FALSE
      BY <2>1, <2>3 DEF IssueCommit, NewCoupon
    <2>4. ASSUME NEW c \in Callers, RedeemCommit(c)
          PROVE  FALSE
      BY <2>1, <2>4 DEF RedeemCommit, Unused
    <2>5. ASSUME NEW l \in Coupons, Lapse(l)
          PROVE  FALSE
      BY <2>1, <2>5 DEF Lapse
    <2> QED
      BY <2>1, <2>2, <2>3, <2>4, <2>5
         DEF Next, ClaimLock, IssueRead, Preview, ClaimRefused, ClaimLook, UpdateRead, UpdateWrite,
             RedeemRead, Fails, Cancel, RemoveTemplate
  <1> QED
    BY <1>1, InvHolds, PTL DEF Spec, NothingClaimedWhenOff
=============================================================================
