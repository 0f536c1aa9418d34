------------------------- MODULE BookingSlotsProofs -------------------------
(***************************************************************************)
(* What BookingSlots keeps for any number of workers, staff members,       *)
(* bookings and recurrences, with recounts and changes of the catalogue.   *)
(*                                                                         *)
(* The exclusion rests on ClearPlan: between its check and its end, a      *)
(* transaction's slot stays clear of all others, because whoever would put *)
(* a booking in its way has to wait for the gaps it holds.                 *)
(***************************************************************************)
EXTENDS BookingSlots, TLAPS

\* What a request has in hand fits where it stands.
PlanOK ==
    \A w \in Workers :
        /\ pc[w] # "idle" /\ plan[w].kind = "move"
               => ~plan[w].forced /\ plan[w].policy = "refuse"
        /\ pc[w] = "recount" => status[plan[w].b] # "none"

ClearPlan ==
    \A w \in Workers :
        pc[w] = "write" /\ ~plan[w].forced
            => \A c \in Booked \ {plan[w].b} :
                   slot[c].staff = plan[w].slot.staff => ~Near(plan[w].slot, slot[c])

IInv == TypeOK /\ PlanOK /\ ClearPlan /\ SlotsExclusive

\* Neither booking of two has to give way: the criterion is symmetric.
LEMMA NearSymmetric ==
    ASSUME NEW x \in Slots, NEW y \in Slots, Near(x, y)
    PROVE  Near(y, x)
  <1>1. /\ x.start \in Nat /\ x.end \in Nat /\ x.buf \in Nat
        /\ y.start \in Nat /\ y.end \in Nat /\ y.buf \in Nat
    BY DEF Slots
  <1>2. Larger(x.buf, y.buf) = Larger(y.buf, x.buf)
    BY <1>1 DEF Larger
  <1> QED  BY <1>1, <1>2 DEF Near, Larger

\* A slot computed from the catalogue is a slot.
LEMMA LastingIsSlot ==
    ASSUME TypeOK, NEW s \in Staffs, NEW t \in Nat, NEW d \in Nat, NEW i \in Items
    PROVE  Lasting(s, t, d, i) \in Slots
  <1>1. spec[i] \in Specs
    BY DEF TypeOK
  <1>2. spec[i].buf \in Nat
    BY <1>1, SlotsAssumption
  <1> QED  BY <1>2 DEF Lasting, Slots

LEMMA ServedIsSlot ==
    ASSUME TypeOK, NEW s \in Staffs, NEW t \in Nat, NEW i \in Items
    PROVE  Served(s, t, i) \in Slots
  <1>1. spec[i] \in Specs
    BY DEF TypeOK
  <1>2. spec[i].dur \in Nat
    BY <1>1, SlotsAssumption
  <1> QED  BY <1>2, LastingIsSlot DEF Served

\* What the end of a transaction leaves behind.
LEMMA DoneType ==
    ASSUME TypeOK, NEW w \in Workers, Done(w)
    PROVE  /\ staffLock' \in [Staffs -> Workers \cup {Nobody}]
           /\ held' \in [Workers -> SUBSET Bookings]
           /\ pc' \in [Workers -> {"idle", "lock", "check", "write", "recount"}]
           /\ plan' \in [Workers -> Plans \cup {NoPlan}]
           /\ pc'[w] = "idle"
           /\ \A v \in Workers \ {w} : pc'[v] = pc[v] /\ plan'[v] = plan[v]
           /\ \A v \in Workers : pc'[v] # "idle" => plan'[v] \in Plans
  BY DEF Done, Begin, TypeOK

\* The same for a worker that goes on with plan p.
LEMMA BeginType ==
    ASSUME TypeOK, NEW w \in Workers, NEW l \in {"lock", "check", "write", "recount"},
           NEW p \in Plans, Begin(w, l, p)
    PROVE  /\ pc' \in [Workers -> {"idle", "lock", "check", "write", "recount"}]
           /\ plan' \in [Workers -> Plans \cup {NoPlan}]
           /\ pc'[w] = l /\ plan'[w] = p
           /\ \A v \in Workers \ {w} : pc'[v] = pc[v] /\ plan'[v] = plan[v]
           /\ \A v \in Workers : pc'[v] # "idle" => plan'[v] \in Plans
  BY DEF Begin, TypeOK

----------------------------------------------------------------------------
(* Types. *)

LEMMA SlotsInit == Init => IInv
  <1> SUFFICES ASSUME Init PROVE IInv
    OBVIOUS
  <1>1. TypeOK
    BY DEF Init, TypeOK, Statuses, Active
  <1>2. Booked = {}
    BY DEF Init, Booked, Active
  <1> QED
    BY <1>1, <1>2 DEF IInv, PlanOK, ClearPlan, SlotsExclusive, Init

\* A step of a worker before it writes changes its plan, or the locks.
LEMMA ReadType ==
    ASSUME TypeOK, NEW w \in Workers, NEW b \in Bookings, Read(w, b)
    PROVE  TypeOK'
  <1> USE SlotsAssumption
  <1>1. ASSUME NEW s \in Staffs, NEW t \in Times, NEW i \in Items, NEW force \in Forces,
               CreateRead(w, b, s, t, i, force)
        PROVE  TypeOK'
    <2>1. Served(s, t, i) \in Slots
      BY ServedIsSlot
    <2>2. PICK p \in Plans : Begin(w, "lock", p)
      BY <1>1, <2>1 DEF CreateRead, Plans
    <2> QED
      BY <1>1, <2>2, BeginType DEF CreateRead, rowVars, lockVars, boundVars, TypeOK
  <1>2. ASSUME NEW s \in Staffs, NEW t \in Times, NEW i \in Items, NEW force \in Forces,
               MoveRead(w, b, s, t, i, force)
        PROVE  TypeOK'
    <2>1. Served(s, t, i) \in Slots
      BY ServedIsSlot
    <2>2. slot[b].staff \in Staffs
      BY <1>2 DEF MoveRead, TypeOK, Slots
    <2>3. PICK p \in Plans : Begin(w, "lock", p)
      BY <1>2, <2>1, <2>2 DEF MoveRead, Plans
    <2> QED
      BY <1>2, <2>3, BeginType DEF MoveRead, rowVars, lockVars, boundVars, TypeOK
  <1>3. ASSUME NEW s \in Staffs, NEW t \in Times, NEW i \in Items, NEW x \in Specs,
               NEW policy \in Policies, GenerateRead(w, b, s, t, i, x.dur, policy)
        PROVE  TypeOK'
    <2>1. x.dur \in Nat
      OBVIOUS
    <2>2. Lasting(s, t, x.dur, i) \in Slots
      BY <2>1, LastingIsSlot
    <2>3. PICK p \in Plans : Begin(w, "check", p)
      BY <1>3, <2>2 DEF GenerateRead, Plans
    <2> QED
      BY <1>3, <2>3, BeginType DEF GenerateRead, rowVars, lockVars, boundVars, TypeOK
  <1>4. CASE RecountRead(w, b)
    <2>1. slot[b] \in Slots /\ item[b] \in Items
      BY <1>4 DEF RecountRead, TypeOK
    <2>2. Served(slot[b].staff, slot[b].start, item[b]) \in Slots
      BY <2>1, ServedIsSlot DEF Slots
    <2>3. PICK p \in Plans : Begin(w, "recount", p)
      BY <1>4, <2>1, <2>2 DEF RecountRead, Plans
    <2>4. recounts' \in Nat
      BY <1>4 DEF RecountRead, TypeOK
    <2>5. UNCHANGED <<rowVars, spec, lockVars, unchecked, edits>>
      BY <1>4 DEF RecountRead
    <2> QED
      BY <2>3, <2>4, <2>5, BeginType DEF rowVars, lockVars, TypeOK
  <1> QED
    BY <1>1, <1>2, <1>3, <1>4 DEF Read

LEMMA TransactType ==
    ASSUME TypeOK, PlanOK, NEW w \in Workers, Transact(w)
    PROVE  TypeOK'
  <1> DEFINE p == plan[w]
  <1>0. pc[w] # "idle" /\ p \in Plans
    BY DEF Transact, Lock, CheckFree, CheckTaken, CheckAnyway, Insert, Move, Recount,
           Rollback, TypeOK
  <1>1. p.b \in Bookings /\ p.slot \in Slots /\ p.item \in Items
    BY <1>0 DEF Plans
  <1>2. ASSUME NEW s \in Staffs, Lock(w, s)
        PROVE  TypeOK'
    <2>1. [p EXCEPT !.need = @ \ {s}] \in Plans
      BY <1>0 DEF Plans
    <2>2. staffLock' \in [Staffs -> Workers \cup {Nobody}]
      BY <1>2 DEF Lock, TypeOK
    <2>3. plan' = [plan EXCEPT ![w] = [p EXCEPT !.need = @ \ {s}]]
      BY <1>2 DEF Lock
    <2> QED
      BY <1>2, <2>1, <2>2, <2>3 DEF Lock, rowVars, boundVars, TypeOK
  <1>3. ASSUME NEW q \in Plans, Holding(w, q)
        PROVE  TypeOK'
    <2>1. held' \in [Workers -> SUBSET Bookings]
      BY <1>3 DEF Holding, Rows, TypeOK
    <2>2. Begin(w, "write", q)
      BY <1>3 DEF Holding
    <2> QED
      BY <1>3, <2>1, <2>2, BeginType DEF Holding, rowVars, boundVars, TypeOK
  <1>4. CASE CheckFree(w)
    BY <1>4, <1>0, <1>3 DEF CheckFree
  <1>5. CASE CheckAnyway(w)
    <2>1. [p EXCEPT !.forced = TRUE] \in Plans
      BY <1>0 DEF Plans
    <2> QED
      BY <1>5, <2>1, <1>3 DEF CheckAnyway
  <1>6. CASE CheckTaken(w)
    BY <1>6, DoneType DEF CheckTaken, rowVars, boundVars, TypeOK
  <1>7. CASE Rollback(w)
    BY <1>7, DoneType DEF Rollback, rowVars, boundVars, TypeOK
  <1>8. CASE Insert(w)
    <2>1. Done(w)
      BY <1>8 DEF Insert
    <2>2. status' = [status EXCEPT ![p.b] = "open"] /\ status' \in [Bookings -> Statuses]
      BY <1>8, <1>1 DEF Insert, TypeOK, Statuses, Active
    <2>3. slot' = [slot EXCEPT ![p.b] = p.slot] /\ item' = [item EXCEPT ![p.b] = p.item]
      BY <1>8 DEF Insert
    <2>4. unchecked' \subseteq Bookings
      BY <1>8, <1>1 DEF Insert, TypeOK
    <2>5. UNCHANGED <<spec, edits, recounts>>
      BY <1>8 DEF Insert, boundVars
    <2> HIDE DEF p
    <2> QED
      BY <2>1, <2>2, <2>3, <2>4, <2>5, <1>1, DoneType DEF TypeOK
  <1>9. CASE Move(w)
    <2>1. Done(w)
      BY <1>9 DEF Move
    <2>2. slot' = slot \/ slot' = [slot EXCEPT ![p.b] = p.slot]
      BY <1>9 DEF Move
    <2>3. item' = [item EXCEPT ![p.b] = p.item]
      BY <1>9 DEF Move
    <2>4. unchecked' \subseteq Bookings
      BY <1>9 DEF Move, TypeOK
    <2>5. UNCHANGED <<status, spec, edits, recounts>>
      BY <1>9 DEF Move, boundVars
    <2> HIDE DEF p
    <2> QED
      BY <2>1, <2>2, <2>3, <2>4, <2>5, <1>1, DoneType DEF TypeOK
  <1>10. CASE Recount(w)
    <2> DEFINE x == [slot[p.b] EXCEPT !.dur = p.slot.dur, !.buf = p.slot.buf, !.end = p.slot.end]
    <2>1. Done(w)
      BY <1>10 DEF Recount
    <2>2. slot[p.b] \in Slots
      BY <1>10, <1>1 DEF Recount, PlanOK, TypeOK
    <2>3. slot' = [slot EXCEPT ![p.b] = x]
      BY <1>10, <1>1, <2>2 DEF Recount, TypeOK
    <2>4. x \in Slots
      BY <2>2, <1>1 DEF Slots
    <2>5. unchecked' \subseteq Bookings
      BY <1>10, <1>1 DEF Recount, TypeOK
    <2>6. UNCHANGED <<status, item, spec, edits, recounts>>
      BY <1>10 DEF Recount, boundVars
    <2> HIDE DEF p, x
    <2> QED
      BY <2>1, <2>3, <2>4, <2>5, <2>6, <1>1, DoneType DEF TypeOK
  <1> QED
    BY <1>2, <1>4, <1>5, <1>6, <1>7, <1>8, <1>9, <1>10 DEF Transact

LEMMA OtherType ==
    ASSUME TypeOK,
           \/ \E b \in Bookings, m \in Moves : StatusMove(b, m)
           \/ \E i \in Items, x \in Specs : EditItem(i, x)
    PROVE  TypeOK'
  <1>1. ASSUME NEW b \in Bookings, NEW m \in Moves, StatusMove(b, m)
        PROVE  TypeOK'
    <2>1. status' = [status EXCEPT ![b] = m[2]] /\ status[b] # "none" /\ m[2] \in Statuses
      BY <1>1 DEF StatusMove, Moves, Statuses, Active
    <2> QED
      BY <1>1, <2>1 DEF StatusMove, lockVars, workVars, boundVars, TypeOK
  <1>2. ASSUME NEW i \in Items, NEW x \in Specs, EditItem(i, x)
        PROVE  TypeOK'
    BY <1>2 DEF EditItem, rowVars, lockVars, workVars, TypeOK
  <1> QED  BY <1>1, <1>2

----------------------------------------------------------------------------
(* Exclusion. *)

\* What the workers' plans promise holds after a step that leaves the rows alone
\* and gives a worker w at most a new plan that keeps the promise.
LEMMA KeptByPlans ==
    ASSUME IInv, NEW w \in Workers, UNCHANGED <<status, slot, unchecked>>,
           \A v \in Workers \ {w} : pc'[v] = pc[v] /\ plan'[v] = plan[v],
           pc'[w] # "idle" /\ plan'[w].kind = "move"
               => ~plan'[w].forced /\ plan'[w].policy = "refuse",
           pc'[w] = "recount" => status[plan'[w].b] # "none",
           pc'[w] = "write" /\ ~plan'[w].forced
               => \A c \in Booked \ {plan'[w].b} :
                      slot[c].staff = plan'[w].slot.staff => ~Near(plan'[w].slot, slot[c])
    PROVE  PlanOK' /\ ClearPlan' /\ SlotsExclusive'
  <1>1. Booked' = Booked
    BY DEF Booked
  <1>2. PlanOK'
    BY DEF IInv, PlanOK
  <1>3. ClearPlan'
    BY <1>1 DEF IInv, ClearPlan, Near
  <1>4. SlotsExclusive'
    BY <1>1 DEF IInv, SlotsExclusive, Overlap, Near
  <1> QED  BY <1>2, <1>3, <1>4

LEMMA ReadKeeps ==
    ASSUME IInv, NEW w \in Workers, NEW b \in Bookings, Read(w, b)
    PROVE  PlanOK' /\ ClearPlan' /\ SlotsExclusive'
  <1>1. /\ UNCHANGED <<status, slot, unchecked>>
        /\ pc' \in [Workers -> {"idle", "lock", "check", "write", "recount"}]
        /\ \E l \in {"lock", "check", "recount"} : pc' = [pc EXCEPT ![w] = l]
        /\ \A v \in Workers \ {w} : pc'[v] = pc[v] /\ plan'[v] = plan[v]
        /\ plan'[w].kind = "move" => ~plan'[w].forced /\ plan'[w].policy = "refuse"
        /\ pc'[w] = "recount" => status[plan'[w].b] # "none"
    BY DEF Read, CreateRead, MoveRead, GenerateRead, RecountRead, Begin, rowVars, IInv, TypeOK
  <1>2. pc'[w] # "write"
    BY <1>1 DEF IInv, TypeOK
  <1> QED
    BY <1>1, <1>2, KeptByPlans

\* A worker that holds the gaps keeps every other from writing in its way.
LEMMA GapsHold ==
    ASSUME NEW w \in Workers, NEW s, GapFree(w, s),
           NEW v \in Workers \ {w}, pc[v] = "write"
    PROVE  plan[v].slot.staff # s
  BY DEF GapFree

\* One row gets a slot that is clear of the others, on gaps that nobody else holds.
LEMMA WriteKeeps ==
    ASSUME IInv, NEW w \in Workers, pc[w] = "write", Done(w),
           NEW b \in Bookings, b = plan[w].b, GapFree(w, plan[w].slot.staff),
           slot' = [slot EXCEPT ![b] = plan[w].slot],
           Booked \subseteq Booked', Booked' \subseteq Booked \cup {b},
           \A c \in Bookings : status[c] # "none" => status'[c] # "none",
           unchecked \ {b} \subseteq unchecked', plan[w].forced => b \in unchecked'
    PROVE  PlanOK' /\ ClearPlan' /\ SlotsExclusive'
  <1> DEFINE x == plan[w].slot
  <1>1. /\ pc'[w] = "idle"
        /\ \A v \in Workers \ {w} : pc'[v] = pc[v] /\ plan'[v] = plan[v]
    BY DoneType DEF IInv
  <1>2. /\ \A c \in Bookings \ {b} : slot'[c] = slot[c]
        /\ slot'[b] = x
    BY DEF IInv, TypeOK
  <1>3. Booked' \subseteq Bookings
    BY DEF Booked
  <1>4. PlanOK'
    <2>1. \A v \in Workers : pc[v] # "idle" => plan[v].b \in Bookings
      BY DEF IInv, TypeOK, Plans
    <2> QED
      BY <1>1, <2>1 DEF IInv, PlanOK
  <1>5. ClearPlan'
    <2> SUFFICES ASSUME NEW v \in Workers, pc'[v] = "write", ~plan'[v].forced,
                        NEW c \in Booked', c # plan'[v].b,
                        slot'[c].staff = plan'[v].slot.staff
                 PROVE  ~Near(plan'[v].slot, slot'[c])
      BY DEF ClearPlan, Near
    <2>1. v # w /\ pc[v] = "write" /\ plan'[v] = plan[v]
      BY <1>1
    <2>2. c # b
      BY <2>1, <1>2, GapsHold
    <2>3. c \in Booked /\ slot'[c] = slot[c]
      BY <2>2, <1>2, <1>3
    <2> QED
      BY <2>1, <2>3 DEF IInv, ClearPlan
  <1>6. SlotsExclusive'
    <2> SUFFICES ASSUME NEW c \in Booked', c \notin unchecked',
                        NEW d \in Booked', d \notin unchecked', c # d,
                        slot'[c].staff = slot'[d].staff
                 PROVE  ~Near(slot'[c], slot'[d])
      BY DEF SlotsExclusive, Overlap, Near
    <2>1. CASE c # b /\ d # b
      <3>1. c \in Booked \ unchecked /\ d \in Booked \ unchecked
        BY <2>1
      <3>2. slot'[c] = slot[c] /\ slot'[d] = slot[d]
        BY <2>1, <1>2, <1>3
      <3> QED
        BY <3>1, <3>2 DEF IInv, SlotsExclusive, Overlap
    <2>2. CASE c = b
      <3>1. d \in Booked \ {b} /\ slot'[d] = slot[d] /\ slot'[c] = x
        BY <2>2, <1>2, <1>3
      <3>2. ~plan[w].forced
        BY <2>2
      <3> QED
        BY <3>1, <3>2 DEF IInv, ClearPlan
    <2>3. CASE d = b
      <3>1. c \in Booked \ {b} /\ slot'[c] = slot[c] /\ slot'[d] = x
        BY <2>3, <1>2, <1>3
      <3>2. ~plan[w].forced
        BY <2>3
      <3>3. ~Near(x, slot[c])
        BY <3>1, <3>2 DEF IInv, ClearPlan
      <3>4. x \in Slots /\ slot[c] \in Slots
        BY <3>1 DEF IInv, TypeOK, Plans, Booked, Active
      <3> QED
        BY <3>1, <3>3, <3>4, NearSymmetric
    <2> QED
      BY <2>1, <2>2, <2>3
  <1> QED  BY <1>4, <1>5, <1>6

LEMMA RecountKeeps ==
    ASSUME IInv, NEW w \in Workers, Recount(w)
    PROVE  PlanOK' /\ ClearPlan' /\ SlotsExclusive'
  <1> DEFINE b == plan[w].b
  <1>0. b \in Bookings /\ slot[b] \in Slots
    BY DEF Recount, IInv, TypeOK, PlanOK, Plans
  <1>1. /\ pc'[w] = "idle"
        /\ \A v \in Workers \ {w} : pc'[v] = pc[v] /\ plan'[v] = plan[v]
    BY DoneType DEF IInv, Recount
  <1>2. /\ \A c \in Bookings \ {b} : slot'[c] = slot[c]
        /\ slot'[b].staff = slot[b].staff
    BY <1>0 DEF Recount, IInv, TypeOK, Slots
  <1>3. Booked' = Booked /\ Booked \subseteq Bookings
    BY DEF Booked, Recount
  <1>4. PlanOK'
    BY <1>1 DEF IInv, PlanOK, Recount
  <1>5. ClearPlan'
    <2> SUFFICES ASSUME NEW v \in Workers, pc'[v] = "write", ~plan'[v].forced,
                        NEW c \in Booked', c # plan'[v].b,
                        slot'[c].staff = plan'[v].slot.staff
                 PROVE  ~Near(plan'[v].slot, slot'[c])
      BY DEF ClearPlan, Near
    <2>1. v # w /\ pc[v] = "write" /\ plan'[v] = plan[v]
      BY <1>1
    <2>2. c # b
      <3>1. GapFree(w, slot[b].staff)
        BY DEF Recount
      <3> QED
        BY <2>1, <1>2, <3>1, GapsHold
    <2>3. c \in Booked /\ slot'[c] = slot[c]
      BY <2>2, <1>2, <1>3
    <2> QED
      BY <2>1, <2>3 DEF IInv, ClearPlan
  <1>6. SlotsExclusive'
    <2>1. unchecked' = unchecked \cup {b}
      BY DEF Recount
    <2>2. \A c \in Booked' \ unchecked' : c \in Booked \ unchecked /\ slot'[c] = slot[c]
      BY <2>1, <1>2, <1>3
    <2> QED
      BY <2>2 DEF IInv, SlotsExclusive, Overlap, Near
  <1> QED  BY <1>4, <1>5, <1>6

LEMMA TransactKeeps ==
    ASSUME IInv, NEW w \in Workers, Transact(w)
    PROVE  PlanOK' /\ ClearPlan' /\ SlotsExclusive'
  <1> DEFINE p == plan[w]
  <1>0. pc[w] # "idle" /\ p \in Plans
    BY DEF Transact, Lock, CheckFree, CheckTaken, CheckAnyway, Insert, Move, Recount,
           Rollback, IInv, TypeOK
  <1>1. p.b \in Bookings /\ p.slot \in Slots
    BY <1>0 DEF Plans
  <1>2. ASSUME NEW s \in Staffs, Lock(w, s)
        PROVE  PlanOK' /\ ClearPlan' /\ SlotsExclusive'
    <2>1. /\ pc'[w] \in {"check", "lock"}
          /\ plan'[w] = [p EXCEPT !.need = @ \ {s}]
          /\ \A v \in Workers \ {w} : pc'[v] = pc[v] /\ plan'[v] = plan[v]
      BY <1>2 DEF Lock, IInv, TypeOK
    <2>2. /\ plan'[w].kind = p.kind
          /\ plan'[w].forced = p.forced
          /\ plan'[w].policy = p.policy
      BY <2>1, <1>0 DEF Plans
    <2>3. UNCHANGED <<status, slot, unchecked>>
      BY <1>2 DEF Lock, rowVars
    <2>4. p.kind = "move" => ~p.forced /\ p.policy = "refuse"
      BY <1>0 DEF IInv, PlanOK
    <2> HIDE DEF p
    <2> QED
      BY <2>1, <2>2, <2>3, <2>4, KeptByPlans
  <1>3. ASSUME NEW q \in Plans, Holding(w, q)
        PROVE  /\ UNCHANGED <<status, slot, unchecked>>
               /\ \A v \in Workers \ {w} : pc'[v] = pc[v] /\ plan'[v] = plan[v]
               /\ pc'[w] = "write" /\ plan'[w] = q
    BY <1>3 DEF Holding, Begin, rowVars, IInv, TypeOK
  <1>4. CASE CheckFree(w)
    <2>1. \A c \in Booked \ {p.b} : slot[c].staff = p.slot.staff => ~Near(p.slot, slot[c])
      BY <1>4 DEF CheckFree, Conflicts, Rows, Booked, Active
    <2>2. Holding(w, p)
      BY <1>4 DEF CheckFree
    <2>3. p.kind = "move" => ~p.forced /\ p.policy = "refuse"
      BY <1>0 DEF IInv, PlanOK
    <2> HIDE DEF p
    <2>4. pc'[w] # "recount" /\ plan'[w] = p
      BY <2>2, <1>0, <1>3
    <2> QED
      BY <2>1, <2>2, <2>3, <2>4, <1>0, <1>3, KeptByPlans
  <1>5. CASE CheckAnyway(w)
    <2> DEFINE q == [p EXCEPT !.forced = TRUE]
    <2>1. q \in Plans /\ q.forced /\ q.kind = p.kind
      BY <1>0 DEF Plans
    <2>2. Holding(w, q)
      BY <1>5 DEF CheckAnyway
    <2>3. p.kind # "move"
      BY <1>0, <1>5 DEF CheckAnyway, IInv, PlanOK
    <2> HIDE DEF p, q
    <2> QED
      BY <2>1, <2>2, <2>3, <1>3, KeptByPlans
  <1>6. CASE CheckTaken(w) \/ Rollback(w)
    <2>1. Done(w) /\ UNCHANGED <<status, slot, unchecked>>
      BY <1>6 DEF CheckTaken, Rollback, rowVars
    <2>2. pc'[w] = "idle" /\ \A v \in Workers \ {w} : pc'[v] = pc[v] /\ plan'[v] = plan[v]
      BY <2>1, DoneType DEF IInv
    <2> QED
      BY <2>1, <2>2, KeptByPlans
  <1>7. CASE Insert(w)
    <2>1. status' = [status EXCEPT ![p.b] = "open"]
      BY <1>7 DEF Insert
    <2>2. Booked' = Booked \cup {p.b}
      BY <2>1, <1>1 DEF Booked, Active, IInv, TypeOK
    <2>3. \A c \in Bookings : status[c] # "none" => status'[c] # "none"
      BY <2>1 DEF IInv, TypeOK
    <2> QED
      BY <1>1, <1>7, <2>2, <2>3, WriteKeeps DEF Insert
  <1>8. CASE Move(w)
    <2>1. Booked' = Booked
      BY <1>8 DEF Move, Booked
    <2>2. CASE status[p.b] = "deleted"
      <3>1. pc'[w] = "idle" /\ \A v \in Workers \ {w} : pc'[v] = pc[v] /\ plan'[v] = plan[v]
        BY <1>8, DoneType DEF IInv, Move
      <3> QED
        BY <1>8, <2>2, <3>1, KeptByPlans DEF Move
    <2>3. CASE status[p.b] # "deleted"
      <3>1. ~p.forced
        BY <1>0, <1>8 DEF Move, IInv, PlanOK
      <3>2. unchecked' = unchecked \ {p.b} /\ slot' = [slot EXCEPT ![p.b] = p.slot]
        BY <1>8, <2>3 DEF Move
      <3>3. Done(w) /\ GapFree(w, p.slot.staff) /\ pc[w] = "write" /\ status' = status
        BY <1>8 DEF Move
      <3> QED
        BY <1>1, <2>1, <3>1, <3>2, <3>3, WriteKeeps
    <2> QED  BY <2>2, <2>3
  <1>9. CASE Recount(w)
    BY <1>9, RecountKeeps
  <1> QED
    BY <1>2, <1>4, <1>5, <1>6, <1>7, <1>8, <1>9 DEF Transact

\* A status only leaves the active ones, and the catalogue is not a row.
LEMMA OtherKeeps ==
    ASSUME IInv,
           \/ \E b \in Bookings, m \in Moves : StatusMove(b, m)
           \/ \E i \in Items, x \in Specs : EditItem(i, x)
    PROVE  PlanOK' /\ ClearPlan' /\ SlotsExclusive'
  <1>1. UNCHANGED <<slot, pc, plan, unchecked>>
    BY DEF StatusMove, EditItem, rowVars, workVars
  <1>2. Booked' \subseteq Booked
    BY DEF StatusMove, EditItem, rowVars, Moves, Booked, Active, IInv, TypeOK
  <1>3. \A c \in Bookings : status[c] # "none" => status'[c] # "none"
    BY DEF StatusMove, EditItem, rowVars, Moves, IInv, TypeOK
  <1>4. PlanOK'
    BY <1>1, <1>3 DEF IInv, PlanOK, TypeOK, Plans
  <1>5. ClearPlan'
    BY <1>1, <1>2 DEF IInv, ClearPlan, Near
  <1>6. SlotsExclusive'
    BY <1>1, <1>2 DEF IInv, SlotsExclusive, Overlap, Near
  <1> QED  BY <1>4, <1>5, <1>6

LEMMA SlotsStep == IInv /\ [Next]_vars => IInv'
  <1> SUFFICES ASSUME IInv, [Next]_vars PROVE IInv'
    OBVIOUS
  <1>1. ASSUME NEW w \in Workers, Transact(w)
        PROVE  IInv'
    BY <1>1, TransactType, TransactKeeps DEF IInv
  <1>2. ASSUME NEW w \in Workers, NEW b \in Bookings, Read(w, b)
        PROVE  IInv'
    BY <1>2, ReadType, ReadKeeps DEF IInv
  <1>3. CASE \/ \E b \in Bookings, m \in Moves : StatusMove(b, m)
             \/ \E i \in Items, x \in Specs : EditItem(i, x)
    BY <1>3, OtherType, OtherKeeps DEF IInv
  <1>4. CASE UNCHANGED vars
    <2>1. UNCHANGED <<status, slot, item, spec, staffLock, held, pc, plan, unchecked,
                      edits, recounts>>
      BY <1>4 DEF vars, rowVars, lockVars, workVars, boundVars
    <2>2. TypeOK'
      BY <2>1 DEF IInv, TypeOK
    <2>3. Booked' = Booked
      BY <2>1 DEF Booked
    <2> QED
      BY <2>1, <2>2, <2>3 DEF IInv, PlanOK, ClearPlan, SlotsExclusive, Overlap, Near
  <1> QED
    BY <1>1, <1>2, <1>3, <1>4 DEF Next

----------------------------------------------------------------------------

\* IInv holds in every state of every instance.
THEOREM SlotsInvariant == Spec => []IInv
  BY SlotsInit, SlotsStep, PTL DEF Spec

\* The rows, the locks and the plans of the workers keep their types.
THEOREM SlotsTypeOK == Spec => []TypeOK
  <1>1. IInv => TypeOK
    BY DEF IInv
  <1> QED
    BY <1>1, SlotsInvariant, PTL

\* Whoever books, reschedules and generates at the same time, two bookings of
\* one staff member are in each other's way only if a recurrence was told to
\* book all the same, or a recount wrote without a check.
THEOREM SlotsAreExclusive == Spec => []SlotsExclusive
  <1>1. IInv => SlotsExclusive
    BY DEF IInv
  <1> QED
    BY <1>1, SlotsInvariant, PTL

----------------------------------------------------------------------------
(* The calendar.  A reservation is the one statement that writes the row:   *)
(* the check that stands behind it was made earlier, and ClearPlan carries  *)
(* it from there to here.  That an insert does not bring back an            *)
(* appointment that is gone needs PlanNew.                                  *)

\* The id a booking is being created under belongs to no row and to no other
\* request.
PlanNew ==
    \A w \in Workers :
        pc[w] # "idle" /\ plan[w].kind \in {"create", "generate"}
            => /\ status[plan[w].b] = "none"
               /\ \A v \in Workers \ {w} : pc[v] # "idle" => plan[v].b # plan[w].b

\* A move and a recount work on a row.
PlanOld ==
    \A w \in Workers :
        pc[w] # "idle" /\ plan[w].kind \in {"move", "recount"}
            => status[plan[w].b] # "none"

\* A worker that gives up its plan, or goes on with one for the same booking,
\* while the rows that exist stay and no row comes into being.
LEMMA NewKept ==
    ASSUME PlanNew, PlanOld, NEW w \in Workers,
           \A b \in Bookings : status[b] = "none" <=> status'[b] = "none",
           \A v \in Workers : pc[v] # "idle" => plan[v].b \in Bookings,
           \A v \in Workers \ {w} : pc'[v] = pc[v] /\ plan'[v] = plan[v],
           pc'[w] # "idle" => /\ pc[w] # "idle"
                              /\ plan'[w].b = plan[w].b /\ plan'[w].kind = plan[w].kind
    PROVE  PlanNew' /\ PlanOld'
  <1>1. \A v \in Workers : pc'[v] # "idle"
                             => /\ pc[v] # "idle"
                                /\ plan'[v].b = plan[v].b /\ plan'[v].kind = plan[v].kind
    OBVIOUS
  <1>2. PlanNew'
    BY <1>1 DEF PlanNew
  <1>3. PlanOld'
    BY <1>1 DEF PlanOld
  <1> QED  BY <1>2, <1>3

LEMMA NewStep ==
    ASSUME IInv, PlanNew, PlanOld, [Next]_vars
    PROVE  PlanNew' /\ PlanOld'
  <1>0. /\ TypeOK
        /\ \A v \in Workers : pc[v] # "idle" => plan[v] \in Plans /\ plan[v].b \in Bookings
    BY DEF IInv, TypeOK, Plans
  <1>1. ASSUME NEW w \in Workers, NEW b \in Bookings, Read(w, b)
        PROVE  PlanNew' /\ PlanOld'
    <2>1. /\ status' = status /\ plan'[w].b = b
          /\ \A v \in Workers \ {w} : pc'[v] = pc[v] /\ plan'[v] = plan[v]
      BY <1>0, <1>1 DEF Read, CreateRead, MoveRead, GenerateRead, RecountRead, Begin,
          rowVars, TypeOK
    <2>2. \/ plan'[w].kind \in {"create", "generate"} /\ New(b)
          \/ plan'[w].kind \in {"move", "recount"} /\ status[b] # "none"
      BY <1>0, <1>1 DEF Read, CreateRead, MoveRead, GenerateRead, RecountRead, Begin,
          TypeOK
    <2>3. PlanNew'
      BY <2>1, <2>2 DEF PlanNew, New
    <2>4. PlanOld'
      BY <2>1, <2>2 DEF PlanOld
    <2> QED  BY <2>3, <2>4
  <1>2. ASSUME NEW w \in Workers, NEW s \in Staffs, Lock(w, s)
        PROVE  PlanNew' /\ PlanOld'
    <2>1. /\ status' = status /\ pc[w] # "idle"
          /\ plan'[w] = [plan[w] EXCEPT !.need = @ \ {s}]
          /\ \A v \in Workers \ {w} : pc'[v] = pc[v] /\ plan'[v] = plan[v]
      BY <1>0, <1>2 DEF Lock, rowVars, TypeOK
    <2>2. plan'[w].b = plan[w].b /\ plan'[w].kind = plan[w].kind
      BY <1>0, <2>1 DEF Plans
    <2> QED
      BY <1>0, <2>1, <2>2, NewKept
  <1>3. ASSUME NEW w \in Workers, CheckFree(w) \/ CheckAnyway(w)
        PROVE  PlanNew' /\ PlanOld'
    <2>1. /\ status' = status /\ pc[w] # "idle"
          /\ plan'[w] \in {plan[w], [plan[w] EXCEPT !.forced = TRUE]}
          /\ \A v \in Workers \ {w} : pc'[v] = pc[v] /\ plan'[v] = plan[v]
      BY <1>0, <1>3 DEF CheckFree, CheckAnyway, Holding, Begin, rowVars, TypeOK
    <2>2. plan'[w].b = plan[w].b /\ plan'[w].kind = plan[w].kind
      BY <1>0, <2>1 DEF Plans
    <2> QED
      BY <1>0, <2>1, <2>2, NewKept
  <1>4. ASSUME NEW w \in Workers, \/ CheckTaken(w) \/ Rollback(w)
                                  \/ Move(w) \/ Recount(w)
        PROVE  PlanNew' /\ PlanOld'
    <2>1. status' = status /\ Done(w)
      BY <1>4 DEF CheckTaken, Rollback, Move, Recount, rowVars
    <2>2. pc'[w] = "idle" /\ \A v \in Workers \ {w} : pc'[v] = pc[v] /\ plan'[v] = plan[v]
      BY <1>0, <2>1, DoneType
    <2> QED
      BY <1>0, <2>1, <2>2, NewKept
  <1>5. ASSUME NEW w \in Workers, Insert(w)
        PROVE  PlanNew' /\ PlanOld'
    <2>1. pc'[w] = "idle" /\ \A v \in Workers \ {w} : pc'[v] = pc[v] /\ plan'[v] = plan[v]
      BY <1>0, <1>5, DoneType DEF Insert
    <2>2. \A b \in Bookings :
             status'[b] = IF b = plan[w].b THEN "open" ELSE status[b]
      BY <1>0, <1>5 DEF Insert, TypeOK
    <2>3. \A v \in Workers \ {w} : pc[v] # "idle" => plan[v].b # plan[w].b
      BY <1>5 DEF Insert, PlanNew
    <2>4. PlanNew'
      BY <1>0, <2>1, <2>2, <2>3 DEF PlanNew
    <2>5. PlanOld'
      BY <1>0, <2>1, <2>2, <2>3 DEF PlanOld
    <2> QED  BY <2>4, <2>5
  <1>6. CASE \/ \E b \in Bookings, m \in Moves : StatusMove(b, m)
             \/ \E i \in Items, x \in Specs : EditItem(i, x)
    <2>1. UNCHANGED <<pc, plan>>
      BY <1>6 DEF StatusMove, EditItem, workVars
    <2>2. \A b \in Bookings : status[b] = "none" <=> status'[b] = "none"
      BY <1>0, <1>6 DEF StatusMove, EditItem, Moves, rowVars, TypeOK
    <2>3. PlanNew'
      BY <1>0, <2>1, <2>2 DEF PlanNew
    <2>4. PlanOld'
      BY <1>0, <2>1, <2>2 DEF PlanOld
    <2> QED  BY <2>3, <2>4
  <1>7. CASE UNCHANGED vars
    BY <1>7 DEF vars, rowVars, workVars, PlanNew, PlanOld
  <1> QED
    BY <1>1, <1>2, <1>3, <1>4, <1>5, <1>6, <1>7 DEF Next, Transact

\* The calendar's criterion and the query's are the same.
LEMMA ClashIsNear ==
    ASSUME NEW x, NEW y
    PROVE  Calendar!Clash(x, y) <=> x.staff = y.staff /\ Near(x, y)
  BY DEF Calendar!Clash, Near, Larger

\* One row takes a slot that is clear of all others in the calendar.
LEMMA WriteReserves ==
    ASSUME NEW b \in Bookings, NEW x \in Slots, status[b] \notin {"ended", "deleted"},
           \A c \in Booked \ {b} : slot[c].staff = x.staff => ~Near(x, slot[c]),
           InCalendar' = InCalendar \cup {b}, Gone' = Gone,
           slot'[b] = x, \A c \in InCalendar \ {b} : slot'[c] = slot[c]
    PROVE  Calendar!Next
  <1>1. b \notin Gone
    BY DEF Gone
  <1>2. /\ DOMAIN Cal = InCalendar /\ DOMAIN Cal' = InCalendar'
        /\ \A c \in InCalendar : Cal[c] = slot[c]
        /\ \A c \in InCalendar' : Cal'[c] = slot'[c]
    BY DEF Cal
  <1>3. InCalendar \subseteq Booked
    BY DEF InCalendar
  <1>4. ASSUME NEW c \in DOMAIN Cal \ {b}
        PROVE  ~Calendar!Clash(Cal'[b], Cal[c]) /\ Cal'[c] = Cal[c]
    BY <1>2, <1>3, ClashIsNear
  <1>5. Calendar!Reserve(b)
    BY <1>1, <1>2, <1>4 DEF Calendar!Reserve
  <1> QED
    BY <1>5 DEF Calendar!Next

\* A step that changes neither the slots in the calendar nor who is gone.
LEMMA CalendarStands ==
    ASSUME InCalendar' = InCalendar, Gone' = Gone,
           \A c \in InCalendar : slot'[c] = slot[c]
    PROVE  UNCHANGED Calendar!calVars
  <1>1. Cal' = Cal
    BY DEF Cal
  <1> QED
    BY <1>1 DEF Calendar!calVars

LEMMA CalendarStep ==
    ASSUME IInv, PlanNew, [Next]_vars
    PROVE  [Calendar!Next]_(Calendar!calVars)
  <1>0. TypeOK /\ ClearPlan
    BY DEF IInv
  <1>1. ASSUME NEW w \in Workers, Insert(w)
        PROVE  [Calendar!Next]_(Calendar!calVars)
    <2>1. PICK b \in Bookings, x \in Slots : b = plan[w].b /\ x = plan[w].slot
      BY <1>0, <1>1 DEF Insert, TypeOK, Plans
    <2>2. status[b] = "none"
      BY <1>1, <2>1 DEF Insert, PlanNew
    <2>3. status' = [status EXCEPT ![b] = "open"] /\ slot' = [slot EXCEPT ![b] = x]
      BY <1>1, <2>1 DEF Insert
    <2>4. Booked' = Booked \cup {b} /\ b \notin Booked /\ Gone' = Gone
      BY <1>0, <2>2, <2>3 DEF Booked, Gone, Active, TypeOK
    <2>5. slot'[b] = x /\ \A c \in Bookings \ {b} : slot'[c] = slot[c]
      BY <1>0, <2>3 DEF TypeOK
    <2>6. InCalendar \subseteq Bookings
      BY DEF InCalendar, Booked
    <2>7. CASE plan[w].forced \/ b \in unchecked
      <3>1. InCalendar' = InCalendar /\ b \notin InCalendar
        BY <1>1, <2>1, <2>4, <2>7 DEF Insert, InCalendar
      <3> QED
        BY <2>4, <2>5, <2>6, <3>1, CalendarStands
    <2>8. CASE ~plan[w].forced /\ b \notin unchecked
      <3>1. InCalendar' = InCalendar \cup {b}
        BY <1>1, <2>1, <2>4, <2>8 DEF Insert, InCalendar
      <3>2. \A c \in Booked \ {b} : slot[c].staff = x.staff => ~Near(x, slot[c])
        BY <1>0, <1>1, <2>1, <2>8 DEF Insert, ClearPlan
      <3> QED
        BY <2>2, <2>4, <2>5, <2>6, <3>1, <3>2, WriteReserves
    <2> QED  BY <2>7, <2>8
  <1>2. ASSUME NEW w \in Workers, Move(w)
        PROVE  [Calendar!Next]_(Calendar!calVars)
    <2>1. PICK b \in Bookings, x \in Slots : b = plan[w].b /\ x = plan[w].slot
      BY <1>0, <1>2 DEF Move, TypeOK, Plans
    <2>2. Booked' = Booked /\ Gone' = Gone /\ InCalendar \subseteq Bookings
      BY <1>2 DEF Move, Booked, Gone, InCalendar
    <2>3. CASE status[b] = "deleted"
      <3>1. InCalendar' = InCalendar /\ slot' = slot
        BY <1>2, <2>1, <2>2, <2>3 DEF Move, InCalendar
      <3> QED
        BY <2>2, <3>1, CalendarStands
    <2>4. CASE status[b] # "deleted"
      <3>1. /\ unchecked' = unchecked \ {b}
            /\ slot'[b] = x /\ \A c \in Bookings \ {b} : slot'[c] = slot[c]
        BY <1>0, <1>2, <2>1, <2>4 DEF Move, TypeOK
      <3>2. CASE b \in Booked
        <4>1. InCalendar' = InCalendar \cup {b}
          BY <2>2, <3>1, <3>2 DEF InCalendar
        <4>2. status[b] \notin {"ended", "deleted"}
          BY <3>2 DEF Booked, Active
        <4>3. ~plan[w].forced
          BY <1>2 DEF Move, IInv, PlanOK
        <4>4. \A c \in Booked \ {b} : slot[c].staff = x.staff => ~Near(x, slot[c])
          BY <1>0, <1>2, <2>1, <4>3 DEF Move, ClearPlan
        <4> QED
          BY <2>2, <3>1, <4>1, <4>2, <4>4, WriteReserves
      <3>3. CASE b \notin Booked
        <4>1. InCalendar' = InCalendar /\ b \notin InCalendar
          BY <2>2, <3>1, <3>3 DEF InCalendar
        <4> QED
          BY <2>2, <3>1, <4>1, CalendarStands
      <3> QED  BY <3>2, <3>3
    <2> QED  BY <2>3, <2>4
  <1>3. ASSUME NEW w \in Workers, Recount(w)
        PROVE  [Calendar!Next]_(Calendar!calVars)
    <2>1. PICK b \in Bookings : b = plan[w].b
      BY <1>0, <1>3 DEF Recount, TypeOK, Plans
    <2>2. /\ Booked' = Booked /\ Gone' = Gone
          /\ unchecked' = unchecked \cup {b}
          /\ \A c \in Bookings \ {b} : slot'[c] = slot[c]
      BY <1>0, <1>3, <2>1 DEF Recount, Booked, Gone, TypeOK
    <2>3. InCalendar' = InCalendar \ {b} /\ InCalendar \subseteq Bookings
      BY <2>2 DEF InCalendar, Booked
    <2>4. Cal' = [c \in DOMAIN Cal \ {b} |-> Cal[c]]
      BY <2>2, <2>3 DEF Cal
    <2> QED
      BY <2>2, <2>4 DEF Calendar!Next, Calendar!Waive
  <1>4. ASSUME NEW b \in Bookings, NEW m \in Moves, StatusMove(b, m)
        PROVE  [Calendar!Next]_(Calendar!calVars)
    <2>1. /\ status[b] = m[1] /\ status' = [status EXCEPT ![b] = m[2]]
          /\ slot' = slot /\ unchecked' = unchecked
      BY <1>4 DEF StatusMove
    <2>2. CASE m[2] = "arrived"
      <3>1. Booked' = Booked /\ Gone' = Gone
        BY <1>0, <2>1, <2>2 DEF Moves, Booked, Gone, Active, TypeOK
      <3> QED
        BY <2>1, <3>1, CalendarStands DEF InCalendar
    <2>3. CASE m[2] # "arrived"
      <3>1. Booked' = Booked \ {b} /\ Gone' = Gone \cup {b}
        BY <1>0, <2>1, <2>3 DEF Moves, Booked, Gone, Active, TypeOK
      <3>2. InCalendar' = InCalendar \ {b}
        BY <2>1, <3>1 DEF InCalendar
      <3>3. Cal' = [c \in DOMAIN Cal \ {b} |-> Cal[c]]
        BY <2>1, <3>2 DEF Cal
      <3> QED
        BY <3>1, <3>3 DEF Calendar!Next, Calendar!Release
    <2> QED  BY <2>2, <2>3
  <1>5. CASE UNCHANGED <<status, slot, unchecked>>
    <2>1. InCalendar' = InCalendar /\ Gone' = Gone
      BY <1>5 DEF InCalendar, Booked, Gone
    <2> QED
      BY <1>5, <2>1, CalendarStands
  <1>6. ASSUME NEW w \in Workers, NEW b \in Bookings, Read(w, b)
        PROVE  UNCHANGED <<status, slot, unchecked>>
    BY <1>6 DEF Read, CreateRead, MoveRead, GenerateRead, RecountRead, rowVars
  <1>7. ASSUME NEW w \in Workers,
               \/ \E s \in Staffs : Lock(w, s)
               \/ CheckFree(w) \/ CheckTaken(w) \/ CheckAnyway(w) \/ Rollback(w)
        PROVE  UNCHANGED <<status, slot, unchecked>>
    BY <1>7 DEF Lock, CheckFree, CheckTaken, CheckAnyway, Holding, Rollback, rowVars
  <1>8. ASSUME NEW i \in Items, NEW x \in Specs, EditItem(i, x)
        PROVE  UNCHANGED <<status, slot, unchecked>>
    BY <1>8 DEF EditItem, rowVars
  <1>9. CASE UNCHANGED vars
    BY <1>5, <1>9 DEF vars, rowVars
  <1> QED
    BY <1>1, <1>2, <1>3, <1>4, <1>5, <1>6, <1>7, <1>8, <1>9 DEF Next, Transact

\* Creating, rescheduling, generating, recounting and moving the status of
\* bookings implement the calendar: each step is one reservation, release or
\* waiver, or changes nothing the calendar sees.
THEOREM SlotsImplementCalendar == Spec => CalendarSpec
  <1>1. Init => Calendar!Init
    <2> SUFFICES ASSUME Init PROVE Calendar!Init
      OBVIOUS
    <2>1. InCalendar = {} /\ Gone = {}
      BY DEF Init, InCalendar, Booked, Gone, Active
    <2>2. Cal = [b \in {} |-> 0]
      BY <2>1 DEF Cal
    <2> QED
      BY <2>1, <2>2 DEF Calendar!Init
  <1>2. Init => PlanNew /\ PlanOld
    BY DEF Init, PlanNew, PlanOld
  <1>3. IInv /\ PlanNew /\ PlanOld /\ [Next]_vars => PlanNew' /\ PlanOld'
    BY NewStep
  <1>4. IInv /\ PlanNew /\ [Next]_vars => [Calendar!Next]_(Calendar!calVars)
    BY CalendarStep
  <1> QED
    BY <1>1, <1>2, <1>3, <1>4, SlotsInvariant, PTL DEF Spec, CalendarSpec, Calendar!Spec
=============================================================================
