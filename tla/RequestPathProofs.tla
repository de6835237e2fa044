-------------------------- MODULE RequestPathProofs --------------------------
(***************************************************************************)
(* SlotsFollowRequests, UsesFixedPools and TypeOK for any requests, routes,*)
(* providers, limits and attempts.  What a request owns is told by its     *)
(* stage and by its deferred functions together, so the invariant          *)
(* describes both, one request at a time; requests meet only where a slot  *)
(* is handed over.                                                         *)
(***************************************************************************)
EXTENDS RequestPath, SequenceTheorems, FiniteSetTheorems, TLAPS

Distinct(s) == \A i, j \in 1 .. Len(s) : s[i] = s[j] => i = j

\* The counters of attempts and calls have an invariant of their own, below.
Types ==
    /\ pc \in [Requests -> Stages]
    /\ first \in [Requests -> Providers \union {Nobody}]
    /\ at \in [Requests -> Providers \union {Nobody}]
    /\ untried \in [Requests -> SUBSET Providers]
    /\ open \in [Requests -> SUBSET Bodies]
    /\ deferred \in [Requests -> Seq(Resources)]
    /\ holders \in [Providers -> SUBSET Requests]
    /\ line \in [Providers -> SUBSET Requests]

Things(p) == {Slot(p), Body(p), Rectified(p)}

\* Where r may be, and with which candidates left.
PlaceFits(r) ==
    /\ pc[r] # "idle" => first[r] \in Providers /\ at[r] \in Providers
    /\ first[r] \notin untried[r]
    /\ pc[r] \in {"idle", "streaming", "returning"} => untried[r] = {}
    /\ pc[r] \in {"rectifying", "failing"} => OnFirst(r)

\* What r has deferred by the stage it is in.
DeferredFits(r) ==
    /\ Distinct(deferred[r])
    /\ pc[r] = "idle" => deferred[r] = <<>>
    /\ OnFirst(r) /\ pc[r] \in {"entering", "queued"} => deferred[r] = <<>>
    /\ OnFirst(r) /\ pc[r] \in {"calling", "backoff"} =>
          WillGiveBack(r) \subseteq {Slot(first[r])}
    /\ pc[r] = "rectifying" => Rectified(first[r]) \notin WillGiveBack(r)
    /\ pc[r] \notin {"streaming", "returning"} =>
          WillGiveBack(r) \subseteq Things(first[r])
    /\ WillGiveBack(r) \subseteq Things(first[r]) \union Things(at[r])
    /\ open[r] \subseteq WillGiveBack(r)

\* What r owns, or waits for, of each provider.
SlotsFit(r) ==
    \A p \in Providers :
        /\ r \in line[p] => /\ Limited(p) /\ r \notin holders[p]
                            /\ pc[r] = "queued" /\ at[r] = p
        /\ r \in holders[p] =>
              /\ Limited(p)
              /\ \/ Slot(p) \in WillGiveBack(r)
                 \/ at[r] = p /\ pc[r] = "queued"
                 \/ at[r] = p /\ ~ OnFirst(r) /\ pc[r] \in {"calling", "backoff"}
        /\ Slot(p) \in WillGiveBack(r) => r \in holders[p]
        /\ Limited(p) /\ UsesUpstream(r, p) => r \in holders[p]

Fits(r) == PlaceFits(r) /\ DeferredFits(r) /\ SlotsFit(r)

PoolsBounded ==
    \A p \in Providers : Limited(p) => Cardinality(holders[p]) <= Limit[p]

IInv ==
    /\ Types
    /\ PoolsBounded
    /\ \A r \in Requests : Fits(r)

-------------------------------------------------------------------------------
\* The functions deferred last run first, and nothing is lost of the others.
LEMMA Joined ==
    ASSUME NEW S, NEW s \in Seq(S), NEW t \in Seq(S)
    PROVE  /\ s \o t \in Seq(S)
           /\ ToSet(s \o t) = ToSet(s) \union ToSet(t)
           /\ Distinct(s) /\ Distinct(t) /\ ToSet(s) \intersect ToSet(t) = {} =>
                 Distinct(s \o t)
<1>1. /\ s \o t \in Seq(S)
      /\ Len(s \o t) = Len(s) + Len(t)
      /\ \A i \in 1 .. Len(s) + Len(t) :
            (s \o t)[i] = IF i <= Len(s) THEN s[i] ELSE t[i - Len(s)]
  BY ConcatProperties
<1>2. /\ Len(s) \in Nat /\ DOMAIN s = 1 .. Len(s)
      /\ Len(t) \in Nat /\ DOMAIN t = 1 .. Len(t)
      /\ DOMAIN (s \o t) = 1 .. Len(s) + Len(t)
  BY <1>1, LenProperties
<1>3. ToSet(s \o t) \subseteq ToSet(s) \union ToSet(t)
  <2> SUFFICES ASSUME NEW i \in 1 .. Len(s) + Len(t)
               PROVE  (s \o t)[i] \in ToSet(s) \union ToSet(t)
    BY <1>2 DEF ToSet
  <2>1. CASE i <= Len(s)
    BY <2>1, <1>1, <1>2 DEF ToSet
  <2>2. CASE i > Len(s)
    <3>1. i - Len(s) \in 1 .. Len(t)
      BY <2>2, <1>2
    <3> QED
      BY <2>2, <3>1, <1>1, <1>2 DEF ToSet
  <2> QED
    BY <2>1, <2>2, <1>2
<1>4. ToSet(s) \subseteq ToSet(s \o t)
  <2> SUFFICES ASSUME NEW i \in 1 .. Len(s) PROVE s[i] \in ToSet(s \o t)
    BY <1>2 DEF ToSet
  <2>1. i \in 1 .. Len(s) + Len(t) /\ (s \o t)[i] = s[i]
    BY <1>1, <1>2
  <2> QED
    BY <2>1, <1>2 DEF ToSet
<1>5. ToSet(t) \subseteq ToSet(s \o t)
  <2> SUFFICES ASSUME NEW i \in 1 .. Len(t) PROVE t[i] \in ToSet(s \o t)
    BY <1>2 DEF ToSet
  <2>1. Len(s) + i \in 1 .. Len(s) + Len(t) /\ (s \o t)[Len(s) + i] = t[i]
    BY <1>1, <1>2
  <2> QED
    BY <2>1, <1>2 DEF ToSet
<1>6. ASSUME Distinct(s), Distinct(t), ToSet(s) \intersect ToSet(t) = {},
             NEW i \in 1 .. Len(s) + Len(t), NEW j \in 1 .. Len(s) + Len(t),
             (s \o t)[i] = (s \o t)[j]
      PROVE  i = j
  <2>1. \A k \in 1 .. Len(s), l \in 1 .. Len(t) : s[k] # t[l]
    BY <1>6, <1>2 DEF ToSet
  <2>2. \A k \in 1 .. Len(s) + Len(t) : k > Len(s) => k - Len(s) \in 1 .. Len(t)
    BY <1>2
  <2>3. CASE i <= Len(s) /\ j <= Len(s)
    BY <2>3, <1>1, <1>2, <1>6 DEF Distinct
  <2>4. CASE i > Len(s) /\ j > Len(s)
    <3>1. t[i - Len(s)] = t[j - Len(s)]
      BY <2>4, <1>1, <1>2, <1>6
    <3>2. i - Len(s) = j - Len(s)
      BY <3>1, <2>2, <2>4, <1>6 DEF Distinct
    <3> QED
      BY <3>2, <1>2
  <2>5. ~ (i <= Len(s) /\ j > Len(s)) /\ ~ (i > Len(s) /\ j <= Len(s))
    BY <2>1, <2>2, <1>1, <1>2, <1>6
  <2> QED
    BY <2>3, <2>4, <2>5, <1>2
<1> QED
  BY <1>1, <1>3, <1>4, <1>5, <1>6 DEF Distinct

LEMMA OneThing ==
    ASSUME NEW S, NEW x \in S
    PROVE  <<x>> \in Seq(S) /\ ToSet(<<x>>) = {x} /\ Distinct(<<x>>)
BY DEF ToSet, Distinct

LEMMA NoThing ==
    ASSUME NEW S
    PROVE  <<>> \in Seq(S) /\ ToSet(<<>>) = {} /\ Distinct(<<>>)
BY DEF ToSet, Distinct

LEMMA EmptyBySet ==
    ASSUME NEW S, NEW s \in Seq(S), ToSet(s) = {}
    PROVE  s = <<>>
<1>1. DOMAIN s = 1 .. Len(s) /\ (s # <<>> => Len(s) \in Nat \ {0})
  BY LenProperties, EmptySeq
<1>2. DOMAIN s = {}
  BY DEF ToSet
<1>3. SUFFICES ASSUME s # <<>> PROVE FALSE
  OBVIOUS
<1>4. 1 \in DOMAIN s
  BY <1>1, <1>3
<1> QED
  BY <1>2, <1>4

\* One function is put on top of the others.
LEMMA Pushed ==
    ASSUME NEW S, NEW x \in S, NEW t \in Seq(S)
    PROVE  /\ <<x>> \o t \in Seq(S)
           /\ ToSet(<<x>> \o t) = {x} \union ToSet(t)
           /\ Distinct(t) /\ x \notin ToSet(t) => Distinct(<<x>> \o t)
<1>1. <<x>> \in Seq(S) /\ ToSet(<<x>>) = {x} /\ Distinct(<<x>>)
  BY OneThing
<1>2. /\ <<x>> \o t \in Seq(S)
      /\ ToSet(<<x>> \o t) = ToSet(<<x>>) \union ToSet(t)
      /\ Distinct(<<x>>) /\ Distinct(t) /\ ToSet(<<x>>) \intersect ToSet(t) = {} =>
            Distinct(<<x>> \o t)
  BY <1>1, Joined
<1> QED
  BY <1>1, <1>2

\* A function that has run is not among those left.
LEMMA Popped ==
    ASSUME NEW S, NEW s \in Seq(S), s # <<>>, Distinct(s)
    PROVE  /\ Head(s) \in S /\ Tail(s) \in Seq(S) /\ Distinct(Tail(s))
           /\ ToSet(s) = {Head(s)} \union ToSet(Tail(s))
           /\ Head(s) \notin ToSet(Tail(s))
<1>1. /\ Head(s) \in S /\ Tail(s) \in Seq(S)
      /\ Len(Tail(s)) = Len(s) - 1
      /\ \A i \in 1 .. Len(Tail(s)) : Tail(s)[i] = s[i + 1]
  BY HeadTailProperties
<1>2. /\ Len(s) \in Nat \ {0} /\ DOMAIN s = 1 .. Len(s) /\ Head(s) = s[1]
      /\ DOMAIN Tail(s) = 1 .. Len(s) - 1
  BY <1>1, LenProperties, EmptySeq
<1>3. Distinct(Tail(s))
  <2> SUFFICES ASSUME NEW i \in 1 .. Len(Tail(s)), NEW j \in 1 .. Len(Tail(s)),
                      Tail(s)[i] = Tail(s)[j]
               PROVE  i = j
    BY DEF Distinct
  <2>1. i + 1 \in 1 .. Len(s) /\ j + 1 \in 1 .. Len(s) /\ s[i + 1] = s[j + 1]
    BY <1>1, <1>2
  <2>2. i + 1 = j + 1
    BY <2>1 DEF Distinct
  <2> QED
    BY <2>2, <1>1, <1>2
<1>4. \A i \in 1 .. Len(s) - 1 : Tail(s)[i] = s[i + 1] /\ i + 1 \in 1 .. Len(s)
  BY <1>1, <1>2
<1>5. \A i \in 2 .. Len(s) : i - 1 \in 1 .. Len(s) - 1 /\ Tail(s)[i - 1] = s[i]
  BY <1>1, <1>2
<1>6. ToSet(s) \subseteq {Head(s)} \union ToSet(Tail(s))
  <2> SUFFICES ASSUME NEW i \in 1 .. Len(s)
               PROVE  s[i] \in {Head(s)} \union ToSet(Tail(s))
    BY <1>2 DEF ToSet
  <2>1. CASE i = 1
    BY <2>1, <1>2
  <2>2. CASE i \in 2 .. Len(s)
    BY <2>2, <1>5, <1>2 DEF ToSet
  <2> QED
    BY <2>1, <2>2, <1>2
<1>7. {Head(s)} \union ToSet(Tail(s)) \subseteq ToSet(s)
  BY <1>2, <1>4 DEF ToSet
<1>8. Head(s) \notin ToSet(Tail(s))
  <2> SUFFICES ASSUME NEW i \in 1 .. Len(s) - 1, Tail(s)[i] = s[1]
               PROVE  FALSE
    BY <1>2 DEF ToSet
  <2>1. i + 1 = 1
    BY <1>2, <1>4 DEF Distinct
  <2> QED
    BY <2>1, <1>2
<1> QED
  BY <1>1, <1>3, <1>6, <1>7, <1>8
-------------------------------------------------------------------------------
\* What deferred functions give back, told apart.
LEMMA ThingsDiffer ==
    /\ \A p, q : /\ Slot(p) # Body(q) /\ Slot(p) # Rectified(q) /\ Body(p) # Rectified(q)
                 /\ Slot(p) = Slot(q) => p = q
                 /\ Body(p) = Body(q) => p = q
                 /\ Rectified(p) = Rectified(q) => p = q
    /\ \A p \in Providers : /\ Slot(p) \in Resources /\ Slot(p) \notin Bodies
                            /\ Body(p) \in Bodies /\ Rectified(p) \in Bodies
    /\ Bodies \subseteq Resources
    /\ \A d \in Resources :
          IF d[1] = "slot" THEN d[2] \in Providers /\ d = Slot(d[2]) ELSE d \in Bodies
BY DEF Slot, Body, Rectified, Resources, Bodies

\* The record of q stays as it is.
Undisturbed(q) ==
    /\ pc'[q] = pc[q] /\ first'[q] = first[q] /\ at'[q] = at[q]
    /\ untried'[q] = untried[q] /\ open'[q] = open[q] /\ deferred'[q] = deferred[q]

LEMMA InitIInv == Init => IInv
<1> SUFFICES ASSUME Init PROVE IInv
  OBVIOUS
<1>1. Types
  BY EmptySeq DEF Init, Types, Stages
<1>2. PoolsBounded
  BY FS_EmptySet, RequestPathAssumption DEF Init, PoolsBounded, Limited
<1>3. ASSUME NEW r \in Requests PROVE Fits(r)
  <2>1. WillGiveBack(r) = {} /\ Distinct(deferred[r])
    BY NoThing DEF Init, WillGiveBack
  <2>2. PlaceFits(r)
    BY RequestPathAssumption DEF Init, PlaceFits
  <2>3. DeferredFits(r)
    BY <2>1 DEF Init, DeferredFits
  <2>4. SlotsFit(r)
    BY <2>1 DEF Init, SlotsFit, UsesUpstream
  <2> QED
    BY <2>2, <2>3, <2>4 DEF Fits
<1> QED
  BY <1>1, <1>2, <1>3 DEF IInv

\* A request keeps its invariant while neither its record nor its place in a
\* pool changes.
LEMMA OthersKeep ==
    ASSUME IInv, NEW q \in Requests, Undisturbed(q),
           \A p \in Providers : /\ q \in holders'[p] <=> q \in holders[p]
                                /\ q \in line'[p] <=> q \in line[p]
    PROVE  Fits(q)'
<1>1. WillGiveBack(q)' = WillGiveBack(q) /\ (Distinct(deferred[q]) => Distinct(deferred'[q]))
  BY DEF Undisturbed, WillGiveBack
<1>2. PlaceFits(q)'
  BY DEF IInv, Fits, PlaceFits, Undisturbed, OnFirst
<1>3. DeferredFits(q)'
  BY <1>1 DEF IInv, Fits, DeferredFits, Undisturbed, OnFirst
<1>4. SlotsFit(q)'
  BY <1>1 DEF IInv, Fits, SlotsFit, Undisturbed, OnFirst, UsesUpstream, Limited
<1> QED
  BY <1>2, <1>3, <1>4 DEF Fits

\* Steps of r that leave the pools alone.
LEMMA PoolsUntouched ==
    ASSUME IInv, NEW r \in Requests, UNCHANGED pools, Types',
           \A q \in Requests \ {r} : Undisturbed(q), Fits(r)'
    PROVE  IInv'
<1>1. PoolsBounded'
  BY DEF IInv, PoolsBounded, pools, Limited
<1>2. \A q \in Requests \ {r} : Fits(q)'
  BY OthersKeep DEF pools
<1> QED
  BY <1>1, <1>2 DEF IInv

-------------------------------------------------------------------------------
\* Steps that leave the pools, the bodies and the deferred functions alone.

LEMMA ArriveKeeps ==
    ASSUME IInv, NEW r \in Requests, Arrive(r)
    PROVE  IInv'
<1>p. PICK p \in Providers : /\ first' = [first EXCEPT ![r] = p]
                             /\ at' = [at EXCEPT ![r] = p]
  BY RequestPathAssumption DEF Arrive
<1>1. /\ Types'
      /\ UNCHANGED <<open, deferred, pools>>
      /\ \A q \in Requests \ {r} : Undisturbed(q)
  BY <1>p DEF Arrive, Move, IInv, Types, Stages, Undisturbed, pools
<1>2. /\ pc[r] = "idle" /\ pc'[r] = "entering"
      /\ first'[r] \in Providers /\ at'[r] = first'[r]
      /\ untried'[r] = untried[r]
  BY <1>p DEF Arrive, Move, IInv, Types
<1>3. WillGiveBack(r)' = WillGiveBack(r) /\ (deferred[r] = <<>> => WillGiveBack(r) = {})
  BY <1>1, NoThing DEF WillGiveBack
<1>4. Fits(r) /\ first[r] \in Providers \union {Nobody} /\ Nobody \notin Providers
  BY RequestPathAssumption DEF IInv, Types
<1>5. PlaceFits(r)'
  BY <1>2, <1>4 DEF Fits, PlaceFits, OnFirst
<1>6. DeferredFits(r)'
  BY <1>1, <1>2, <1>3, <1>4 DEF Fits, PlaceFits, DeferredFits, OnFirst
<1>7. SlotsFit(r)'
  BY <1>1, <1>2, <1>3, <1>4 DEF Fits, PlaceFits, DeferredFits, SlotsFit, UsesUpstream, OnFirst, pools, Limited
<1> QED
  BY <1>1, <1>5, <1>6, <1>7, PoolsUntouched DEF Fits

LEMMA ClientLeavesKeeps ==
    ASSUME IInv, NEW r \in Requests, ClientLeaves(r)
    PROVE  IInv'
<1>1. /\ Types'
      /\ UNCHANGED <<open, deferred, pools>>
      /\ \A q \in Requests \ {r} : Undisturbed(q)
  BY RequestPathAssumption DEF ClientLeaves, IInv, Types, Stages, Undisturbed, pools
<1>2. /\ TRUE
      /\ pc'[r] = pc[r]
      /\ first'[r] = first[r]
      /\ at'[r] = at[r]
      /\ untried'[r] = untried[r]
  BY RequestPathAssumption DEF ClientLeaves, IInv, Types
<1>3. WillGiveBack(r)' = WillGiveBack(r) /\ (deferred[r] = <<>> => WillGiveBack(r) = {})
  BY <1>1, NoThing DEF WillGiveBack
<1>4. Fits(r) /\ first[r] \in Providers \union {Nobody} /\ Nobody \notin Providers
  BY RequestPathAssumption DEF IInv, Types
<1>5. PlaceFits(r)'
  BY <1>2, <1>4 DEF Fits, PlaceFits, OnFirst
<1>6. DeferredFits(r)'
  BY <1>1, <1>2, <1>3, <1>4 DEF Fits, PlaceFits, DeferredFits, OnFirst
<1>7. SlotsFit(r)'
  BY <1>1, <1>2, <1>3, <1>4 DEF Fits, PlaceFits, DeferredFits, SlotsFit, UsesUpstream, OnFirst, pools, Limited
<1> QED
  BY <1>1, <1>5, <1>6, <1>7, PoolsUntouched DEF Fits

LEMMA TransformFailsKeeps ==
    ASSUME IInv, NEW r \in Requests, TransformFails(r)
    PROVE  IInv'
<1>1. /\ Types'
      /\ UNCHANGED <<open, deferred, pools>>
      /\ \A q \in Requests \ {r} : Undisturbed(q)
  BY RequestPathAssumption DEF TransformFails, Refused, Move, Done, OnFirst, IInv, Types, Stages, Undisturbed, pools
<1>2. /\ pc[r] = "entering"
      /\ IF OnFirst(r) THEN pc'[r] = "returning" /\ untried'[r] = {}
                       ELSE pc'[r] = "choosing" /\ untried'[r] = untried[r]
      /\ first'[r] = first[r]
      /\ at'[r] = at[r]
  BY RequestPathAssumption DEF TransformFails, Refused, Move, Done, OnFirst, IInv, Types
<1>3. WillGiveBack(r)' = WillGiveBack(r) /\ (deferred[r] = <<>> => WillGiveBack(r) = {})
  BY <1>1, NoThing DEF WillGiveBack
<1>4. Fits(r) /\ first[r] \in Providers \union {Nobody} /\ Nobody \notin Providers
  BY RequestPathAssumption DEF IInv, Types
<1>5. PlaceFits(r)'
  BY <1>2, <1>4 DEF Fits, PlaceFits, OnFirst
<1>6. DeferredFits(r)'
  BY <1>1, <1>2, <1>3, <1>4 DEF Fits, PlaceFits, DeferredFits, OnFirst
<1>7. SlotsFit(r)'
  BY <1>1, <1>2, <1>3, <1>4 DEF Fits, PlaceFits, DeferredFits, SlotsFit, UsesUpstream, OnFirst, pools, Limited
<1> QED
  BY <1>1, <1>5, <1>6, <1>7, PoolsUntouched DEF Fits

LEMMA RefusedAtOnceKeeps ==
    ASSUME IInv, NEW r \in Requests, RefusedAtOnce(r)
    PROVE  IInv'
<1>1. /\ Types'
      /\ UNCHANGED <<open, deferred, pools>>
      /\ \A q \in Requests \ {r} : Undisturbed(q)
  BY RequestPathAssumption DEF RefusedAtOnce, Refused, Move, Done, OnFirst, IInv, Types, Stages, Undisturbed, pools
<1>2. /\ pc[r] = "entering"
      /\ IF OnFirst(r) THEN pc'[r] = "returning" /\ untried'[r] = {}
                       ELSE pc'[r] = "choosing" /\ untried'[r] = untried[r]
      /\ first'[r] = first[r]
      /\ at'[r] = at[r]
  BY RequestPathAssumption DEF RefusedAtOnce, Refused, Move, Done, OnFirst, IInv, Types
<1>3. WillGiveBack(r)' = WillGiveBack(r) /\ (deferred[r] = <<>> => WillGiveBack(r) = {})
  BY <1>1, NoThing DEF WillGiveBack
<1>4. Fits(r) /\ first[r] \in Providers \union {Nobody} /\ Nobody \notin Providers
  BY RequestPathAssumption DEF IInv, Types
<1>5. PlaceFits(r)'
  BY <1>2, <1>4 DEF Fits, PlaceFits, OnFirst
<1>6. DeferredFits(r)'
  BY <1>1, <1>2, <1>3, <1>4 DEF Fits, PlaceFits, DeferredFits, OnFirst
<1>7. SlotsFit(r)'
  BY <1>1, <1>2, <1>3, <1>4 DEF Fits, PlaceFits, DeferredFits, SlotsFit, UsesUpstream, OnFirst, pools, Limited
<1> QED
  BY <1>1, <1>5, <1>6, <1>7, PoolsUntouched DEF Fits

LEMMA EnterUnlimitedKeeps ==
    ASSUME IInv, NEW r \in Requests, EnterUnlimited(r)
    PROVE  IInv'
<1>1. /\ Types'
      /\ UNCHANGED <<open, deferred, pools>>
      /\ \A q \in Requests \ {r} : Undisturbed(q)
  BY RequestPathAssumption DEF EnterUnlimited, Move, IInv, Types, Stages, Undisturbed, pools
<1>2. /\ pc[r] = "entering" /\ pc'[r] = "calling" /\ ~ Limited(at[r])
      /\ first'[r] = first[r]
      /\ at'[r] = at[r]
      /\ untried'[r] = untried[r]
  BY RequestPathAssumption DEF EnterUnlimited, Move, IInv, Types
<1>3. WillGiveBack(r)' = WillGiveBack(r) /\ (deferred[r] = <<>> => WillGiveBack(r) = {})
  BY <1>1, NoThing DEF WillGiveBack
<1>4. Fits(r) /\ first[r] \in Providers \union {Nobody} /\ Nobody \notin Providers
  BY RequestPathAssumption DEF IInv, Types
<1>5. PlaceFits(r)'
  BY <1>2, <1>4 DEF Fits, PlaceFits, OnFirst
<1>6. DeferredFits(r)'
  BY <1>1, <1>2, <1>3, <1>4 DEF Fits, PlaceFits, DeferredFits, OnFirst
<1>7. SlotsFit(r)'
  BY <1>1, <1>2, <1>3, <1>4 DEF Fits, PlaceFits, DeferredFits, SlotsFit, UsesUpstream, OnFirst, pools, Limited
<1> QED
  BY <1>1, <1>5, <1>6, <1>7, PoolsUntouched DEF Fits

LEMMA TooManyRequestsKeeps ==
    ASSUME IInv, NEW r \in Requests, TooManyRequests(r)
    PROVE  IInv'
<1>1. /\ Types'
      /\ UNCHANGED <<open, deferred, pools>>
      /\ \A q \in Requests \ {r} : Undisturbed(q)
  BY RequestPathAssumption DEF TooManyRequests, Move, IInv, Types, Stages, Undisturbed, pools
<1>2. /\ pc[r] = "calling" /\ pc'[r] = "backoff"
      /\ first'[r] = first[r]
      /\ at'[r] = at[r]
      /\ untried'[r] = untried[r]
  BY RequestPathAssumption DEF TooManyRequests, Move, IInv, Types
<1>3. WillGiveBack(r)' = WillGiveBack(r) /\ (deferred[r] = <<>> => WillGiveBack(r) = {})
  BY <1>1, NoThing DEF WillGiveBack
<1>4. Fits(r) /\ first[r] \in Providers \union {Nobody} /\ Nobody \notin Providers
  BY RequestPathAssumption DEF IInv, Types
<1>5. PlaceFits(r)'
  BY <1>2, <1>4 DEF Fits, PlaceFits, OnFirst
<1>6. DeferredFits(r)'
  BY <1>1, <1>2, <1>3, <1>4 DEF Fits, PlaceFits, DeferredFits, OnFirst
<1>7. SlotsFit(r)'
  BY <1>1, <1>2, <1>3, <1>4 DEF Fits, PlaceFits, DeferredFits, SlotsFit, UsesUpstream, OnFirst, pools, Limited
<1> QED
  BY <1>1, <1>5, <1>6, <1>7, PoolsUntouched DEF Fits

LEMMA RetryAfterPauseKeeps ==
    ASSUME IInv, NEW r \in Requests, RetryAfterPause(r)
    PROVE  IInv'
<1>1. /\ Types'
      /\ UNCHANGED <<open, deferred, pools>>
      /\ \A q \in Requests \ {r} : Undisturbed(q)
  BY RequestPathAssumption DEF RetryAfterPause, Move, IInv, Types, Stages, Undisturbed, pools
<1>2. /\ pc[r] = "backoff" /\ pc'[r] = "calling"
      /\ first'[r] = first[r]
      /\ at'[r] = at[r]
      /\ untried'[r] = untried[r]
  BY RequestPathAssumption DEF RetryAfterPause, Move, IInv, Types
<1>3. WillGiveBack(r)' = WillGiveBack(r) /\ (deferred[r] = <<>> => WillGiveBack(r) = {})
  BY <1>1, NoThing DEF WillGiveBack
<1>4. Fits(r) /\ first[r] \in Providers \union {Nobody} /\ Nobody \notin Providers
  BY RequestPathAssumption DEF IInv, Types
<1>5. PlaceFits(r)'
  BY <1>2, <1>4 DEF Fits, PlaceFits, OnFirst
<1>6. DeferredFits(r)'
  BY <1>1, <1>2, <1>3, <1>4 DEF Fits, PlaceFits, DeferredFits, OnFirst
<1>7. SlotsFit(r)'
  BY <1>1, <1>2, <1>3, <1>4 DEF Fits, PlaceFits, DeferredFits, SlotsFit, UsesUpstream, OnFirst, pools, Limited
<1> QED
  BY <1>1, <1>5, <1>6, <1>7, PoolsUntouched DEF Fits

LEMMA FailOverKeeps ==
    ASSUME IInv, NEW r \in Requests, FailOver(r)
    PROVE  IInv'
<1>1. /\ Types'
      /\ UNCHANGED <<open, deferred, pools>>
      /\ \A q \in Requests \ {r} : Undisturbed(q)
  BY RequestPathAssumption DEF FailOver, Move, IInv, Types, Stages, Undisturbed, pools
<1>2. /\ pc[r] = "failing" /\ pc'[r] = "choosing"
      /\ untried'[r] \subseteq Providers \ {first[r]}
      /\ first'[r] = first[r]
      /\ at'[r] = at[r]
  BY RequestPathAssumption DEF FailOver, Move, IInv, Types
<1>3. WillGiveBack(r)' = WillGiveBack(r) /\ (deferred[r] = <<>> => WillGiveBack(r) = {})
  BY <1>1, NoThing DEF WillGiveBack
<1>4. Fits(r) /\ first[r] \in Providers \union {Nobody} /\ Nobody \notin Providers
  BY RequestPathAssumption DEF IInv, Types
<1>5. PlaceFits(r)'
  BY <1>2, <1>4 DEF Fits, PlaceFits, OnFirst
<1>6. DeferredFits(r)'
  BY <1>1, <1>2, <1>3, <1>4 DEF Fits, PlaceFits, DeferredFits, OnFirst
<1>7. SlotsFit(r)'
  BY <1>1, <1>2, <1>3, <1>4 DEF Fits, PlaceFits, DeferredFits, SlotsFit, UsesUpstream, OnFirst, pools, Limited
<1> QED
  BY <1>1, <1>5, <1>6, <1>7, PoolsUntouched DEF Fits

LEMMA TryCandidateKeeps ==
    ASSUME IInv, NEW r \in Requests, TryCandidate(r)
    PROVE  IInv'
<1>1. /\ Types'
      /\ UNCHANGED <<open, deferred, pools>>
      /\ \A q \in Requests \ {r} : Undisturbed(q)
  BY RequestPathAssumption DEF TryCandidate, Move, IInv, Types, Stages, Undisturbed, pools
<1>2. /\ pc[r] = "choosing" /\ pc'[r] = "entering"
      /\ at'[r] \in untried[r] /\ at'[r] \in Providers /\ untried'[r] \subseteq untried[r]
      /\ first'[r] = first[r]
  BY RequestPathAssumption DEF TryCandidate, Move, IInv, Types
<1>3. WillGiveBack(r)' = WillGiveBack(r) /\ (deferred[r] = <<>> => WillGiveBack(r) = {})
  BY <1>1, NoThing DEF WillGiveBack
<1>4. Fits(r) /\ first[r] \in Providers \union {Nobody} /\ Nobody \notin Providers
  BY RequestPathAssumption DEF IInv, Types
<1>5. PlaceFits(r)'
  BY <1>2, <1>4 DEF Fits, PlaceFits, OnFirst
<1>6. DeferredFits(r)'
  BY <1>1, <1>2, <1>3, <1>4 DEF Fits, PlaceFits, DeferredFits, OnFirst
<1>7. SlotsFit(r)'
  BY <1>1, <1>2, <1>3, <1>4 DEF Fits, PlaceFits, DeferredFits, SlotsFit, UsesUpstream, OnFirst, pools, Limited
<1> QED
  BY <1>1, <1>5, <1>6, <1>7, PoolsUntouched DEF Fits

LEMMA PassFailureOnKeeps ==
    ASSUME IInv, NEW r \in Requests, PassFailureOn(r)
    PROVE  IInv'
<1>1. /\ Types'
      /\ UNCHANGED <<open, deferred, pools>>
      /\ \A q \in Requests \ {r} : Undisturbed(q)
  BY RequestPathAssumption DEF PassFailureOn, Move, Done, IInv, Types, Stages, Undisturbed, pools
<1>2. /\ pc[r] \in {"failing", "choosing"} /\ at'[r] = first[r] /\ untried'[r] = {}
      /\ pc'[r] = IF open[r] = {} THEN "returning" ELSE "streaming"
      /\ first'[r] = first[r]
  BY RequestPathAssumption DEF PassFailureOn, Move, Done, IInv, Types
<1>3. WillGiveBack(r)' = WillGiveBack(r) /\ (deferred[r] = <<>> => WillGiveBack(r) = {})
  BY <1>1, NoThing DEF WillGiveBack
<1>4. Fits(r) /\ first[r] \in Providers \union {Nobody} /\ Nobody \notin Providers
  BY RequestPathAssumption DEF IInv, Types
<1>5. PlaceFits(r)'
  BY <1>2, <1>4 DEF Fits, PlaceFits, OnFirst
<1>6. DeferredFits(r)'
  BY <1>1, <1>2, <1>3, <1>4 DEF Fits, PlaceFits, DeferredFits, OnFirst
<1>7. SlotsFit(r)'
  BY <1>1, <1>2, <1>3, <1>4 DEF Fits, PlaceFits, DeferredFits, SlotsFit, UsesUpstream, OnFirst, pools, Limited
<1> QED
  BY <1>1, <1>5, <1>6, <1>7, PoolsUntouched DEF Fits

LEMMA StreamEndsKeeps ==
    ASSUME IInv, NEW r \in Requests, StreamEnds(r)
    PROVE  IInv'
<1>1. /\ Types'
      /\ UNCHANGED <<open, deferred, pools>>
      /\ \A q \in Requests \ {r} : Undisturbed(q)
  BY RequestPathAssumption DEF StreamEnds, Move, IInv, Types, Stages, Undisturbed, pools
<1>2. /\ pc[r] = "streaming" /\ pc'[r] = "returning"
      /\ first'[r] = first[r]
      /\ at'[r] = at[r]
      /\ untried'[r] = untried[r]
  BY RequestPathAssumption DEF StreamEnds, Move, IInv, Types
<1>3. WillGiveBack(r)' = WillGiveBack(r) /\ (deferred[r] = <<>> => WillGiveBack(r) = {})
  BY <1>1, NoThing DEF WillGiveBack
<1>4. Fits(r) /\ first[r] \in Providers \union {Nobody} /\ Nobody \notin Providers
  BY RequestPathAssumption DEF IInv, Types
<1>5. PlaceFits(r)'
  BY <1>2, <1>4 DEF Fits, PlaceFits, OnFirst
<1>6. DeferredFits(r)'
  BY <1>1, <1>2, <1>3, <1>4 DEF Fits, PlaceFits, DeferredFits, OnFirst
<1>7. SlotsFit(r)'
  BY <1>1, <1>2, <1>3, <1>4 DEF Fits, PlaceFits, DeferredFits, SlotsFit, UsesUpstream, OnFirst, pools, Limited
<1> QED
  BY <1>1, <1>5, <1>6, <1>7, PoolsUntouched DEF Fits

LEMMA ReturnKeeps ==
    ASSUME IInv, NEW r \in Requests, Return(r)
    PROVE  IInv'
<1>1. /\ Types'
      /\ UNCHANGED <<open, deferred, pools>>
      /\ \A q \in Requests \ {r} : Undisturbed(q)
  BY RequestPathAssumption DEF Return, Move, IInv, Types, Stages, Undisturbed, pools
<1>2. /\ pc[r] = "returning" /\ pc'[r] = "idle" /\ deferred[r] = <<>>
      /\ first'[r] = Nobody /\ at'[r] = Nobody
      /\ untried'[r] = untried[r]
  BY RequestPathAssumption DEF Return, Move, IInv, Types
<1>3. WillGiveBack(r)' = WillGiveBack(r) /\ (deferred[r] = <<>> => WillGiveBack(r) = {})
  BY <1>1, NoThing DEF WillGiveBack
<1>4. Fits(r) /\ first[r] \in Providers \union {Nobody} /\ Nobody \notin Providers
  BY RequestPathAssumption DEF IInv, Types
<1>5. PlaceFits(r)'
  BY <1>2, <1>4 DEF Fits, PlaceFits, OnFirst
<1>6. DeferredFits(r)'
  BY <1>1, <1>2, <1>3, <1>4 DEF Fits, PlaceFits, DeferredFits, OnFirst
<1>7. SlotsFit(r)'
  BY <1>1, <1>2, <1>3, <1>4 DEF Fits, PlaceFits, DeferredFits, SlotsFit, UsesUpstream, OnFirst, pools, Limited
<1> QED
  BY <1>1, <1>5, <1>6, <1>7, PoolsUntouched DEF Fits

\* The call of the first provider fails; that of a candidate is DropCandidate.
LEMMA FirstCallFails ==
    ASSUME IInv, NEW r \in Requests, CallFails(r), OnFirst(r)
    PROVE  IInv'
<1>1. /\ Types'
      /\ UNCHANGED <<open, deferred, pools>>
      /\ \A q \in Requests \ {r} : Undisturbed(q)
  BY DEF CallFails, Leave429, Move, OnFirst, IInv, Types, Stages, Undisturbed, pools
<1>2. /\ pc[r] \in {"calling", "backoff"} /\ pc'[r] = "failing"
      /\ first'[r] = first[r]
      /\ at'[r] = at[r]
      /\ untried'[r] = untried[r]
  BY DEF CallFails, Leave429, Move, OnFirst, IInv, Types
<1>3. WillGiveBack(r)' = WillGiveBack(r)
  BY <1>1 DEF WillGiveBack
<1>4. Fits(r)
  BY DEF IInv
<1>5. PlaceFits(r)'
  BY <1>2, <1>4 DEF Fits, PlaceFits, OnFirst
<1>6. DeferredFits(r)'
  BY <1>1, <1>2, <1>3, <1>4 DEF Fits, PlaceFits, DeferredFits, OnFirst, Things
<1>7. SlotsFit(r)'
  BY <1>1, <1>2, <1>3, <1>4 DEF Fits, PlaceFits, DeferredFits, SlotsFit, UsesUpstream, OnFirst, pools, Limited
<1> QED
  BY <1>1, <1>5, <1>6, <1>7, PoolsUntouched DEF Fits

-------------------------------------------------------------------------------
\* Steps that put a deferred function on the others and leave the pools alone.
LEMMA GrantedKeeps ==
    ASSUME IInv, NEW r \in Requests, Granted(r)
    PROVE  IInv'
<1>1. /\ Fits(r) /\ deferred[r] \in Seq(Resources)
      /\ pc[r] = "queued" /\ r \in holders[at[r]]
      /\ first[r] \in Providers /\ at[r] \in Providers /\ Slot(at[r]) \in Resources
  BY ThingsDiffer DEF Granted, IInv, Types, Fits, PlaceFits
<1>2. /\ <<Slot(at[r])>> \o deferred[r] \in Seq(Resources)
      /\ ToSet(<<Slot(at[r])>> \o deferred[r]) = {Slot(at[r])} \union ToSet(deferred[r])
      /\ deferred[r] = <<>> => Distinct(<<Slot(at[r])>> \o deferred[r])
                               /\ ToSet(deferred[r]) = {}
  BY <1>1, Pushed, NoThing
<1>3. /\ Types'
      /\ UNCHANGED <<open, pools>>
      /\ \A q \in Requests \ {r} : Undisturbed(q)
  <2>1. deferred' \in [Requests -> Seq(Resources)]
    BY <1>2 DEF Granted, KeepSlot, Defer, IInv, Types
  <2>2. \A q \in Requests \ {r} : deferred'[q] = deferred[q]
    BY DEF Granted, KeepSlot, Defer, IInv, Types
  <2> QED
    BY <2>1, <2>2 DEF Granted, Move, IInv, Types, Stages, Undisturbed, pools
<1>4. /\ pc'[r] = "calling"
      /\ first'[r] = first[r]
      /\ at'[r] = at[r]
      /\ untried'[r] = untried[r]
      /\ deferred'[r] = IF OnFirst(r) THEN <<Slot(at[r])>> \o deferred[r] ELSE deferred[r]
  BY DEF Granted, KeepSlot, Defer, Move, IInv, Types
<1>5. PlaceFits(r)'
  BY <1>1, <1>4 DEF Fits, PlaceFits, OnFirst
<1>6. ASSUME OnFirst(r) PROVE DeferredFits(r)' /\ SlotsFit(r)'
  <2>1. WillGiveBack(r) = {} /\ WillGiveBack(r)' = {Slot(first[r])} /\ Distinct(deferred'[r])
    BY <1>1, <1>2, <1>4, <1>6 DEF WillGiveBack, Fits, DeferredFits, OnFirst
  <2>2. DeferredFits(r)'
    BY <1>1, <1>3, <1>4, <1>6, <2>1 DEF Fits, DeferredFits, OnFirst, Things
  <2>3. SlotsFit(r)'
    BY <1>1, <1>3, <1>4, <1>6, <2>1, <2>2, ThingsDiffer
    DEF Fits, DeferredFits, SlotsFit, UsesUpstream, OnFirst, pools, Limited
  <2> QED
    BY <2>2, <2>3
<1>7. ASSUME ~ OnFirst(r) PROVE DeferredFits(r)' /\ SlotsFit(r)'
  <2>1. WillGiveBack(r)' = WillGiveBack(r) /\ deferred'[r] = deferred[r]
    BY <1>4, <1>7 DEF WillGiveBack
  <2>2. DeferredFits(r)'
    BY <1>1, <1>3, <1>4, <1>7, <2>1 DEF Fits, DeferredFits, OnFirst, Things
  <2>3. SlotsFit(r)'
    BY <1>1, <1>3, <1>4, <1>7, <2>1
    DEF Fits, DeferredFits, SlotsFit, UsesUpstream, OnFirst, pools, Limited
  <2> QED
    BY <2>2, <2>3
<1> QED
  BY <1>3, <1>5, <1>6, <1>7, PoolsUntouched DEF Fits

\* r, at its first provider, reads a new body whose Close it has deferred.
LEMMA BodyDeferred ==
    ASSUME IInv, NEW r \in Requests, NEW b \in {Body(first[r]), Rectified(first[r])},
           OnFirst(r), pc[r] \in {"calling", "rectifying"}, b \notin WillGiveBack(r),
           Defer(r, <<b>>), UNCHANGED <<first, at, pools>>,
           open' = [open EXCEPT ![r] = {b}] \/ open' = [open EXCEPT ![r] = @ \union {b}],
           pc' = [pc EXCEPT ![r] = pc'[r]],
           pc'[r] \in {"rectifying", "failing", "streaming"},
           pc'[r] = "rectifying" => b = Body(first[r]) /\ pc[r] = "calling",
           untried' = untried \/ untried' = [untried EXCEPT ![r] = {}],
           pc'[r] = "streaming" => untried'[r] = {}
    PROVE  IInv'
<1>1. /\ Fits(r) /\ deferred[r] \in Seq(Resources)
      /\ first[r] \in Providers /\ at[r] = first[r] /\ b \in Resources /\ b \in Bodies
  BY ThingsDiffer DEF IInv, Types, Fits, PlaceFits, OnFirst
<1>2. /\ <<b>> \o deferred[r] \in Seq(Resources)
      /\ ToSet(<<b>> \o deferred[r]) = {b} \union ToSet(deferred[r])
      /\ Distinct(<<b>> \o deferred[r])
  BY <1>1, Pushed DEF WillGiveBack, Fits, DeferredFits
<1>3. /\ Types'
      /\ \A q \in Requests \ {r} : Undisturbed(q)
  <2>1. /\ deferred' \in [Requests -> Seq(Resources)]
        /\ \A q \in Requests \ {r} : deferred'[q] = deferred[q]
    BY <1>2 DEF Defer, IInv, Types
  <2>2. /\ open' \in [Requests -> SUBSET Bodies]
        /\ \A q \in Requests \ {r} : open'[q] = open[q]
    <3>1. CASE open' = [open EXCEPT ![r] = {b}]
      BY <1>1, <3>1 DEF IInv, Types
    <3>2. CASE open' = [open EXCEPT ![r] = @ \union {b}]
      BY <1>1, <3>2 DEF IInv, Types
    <3> QED
      BY <3>1, <3>2
  <2>3. /\ pc' \in [Requests -> Stages]
        /\ \A q \in Requests \ {r} : pc'[q] = pc[q]
    <3>1. pc'[r] \in Stages
      BY DEF Stages
    <3> QED
      BY <3>1 DEF IInv, Types
  <2>4. /\ untried' \in [Requests -> SUBSET Providers]
        /\ \A q \in Requests \ {r} : untried'[q] = untried[q]
    BY DEF IInv, Types
  <2> QED
    BY <2>1, <2>2, <2>3, <2>4 DEF IInv, Types, Undisturbed, pools
<1>4. /\ first'[r] = first[r]
      /\ at'[r] = at[r]
      /\ untried'[r] \subseteq untried[r]
      /\ deferred'[r] = <<b>> \o deferred[r]
      /\ open'[r] \subseteq open[r] \union {b}
  BY DEF Defer, IInv, Types
<1>5. WillGiveBack(r)' = {b} \union WillGiveBack(r)
  BY <1>2, <1>4 DEF WillGiveBack
<1>6. PlaceFits(r)'
  BY <1>1, <1>4 DEF Fits, PlaceFits, OnFirst
<1>7. DeferredFits(r)'
  BY <1>1, <1>2, <1>4, <1>5, ThingsDiffer DEF Fits, DeferredFits, OnFirst, Things
<1>8. SlotsFit(r)'
  BY <1>1, <1>4, <1>5, ThingsDiffer
  DEF Fits, SlotsFit, UsesUpstream, OnFirst, pools, Limited
<1> QED
  BY <1>3, <1>6, <1>7, <1>8, PoolsUntouched DEF Fits

LEMMA FirstRejectsKeeps ==
    ASSUME IInv, NEW r \in Requests, FirstRejects(r)
    PROVE  IInv'
<1>1. /\ OnFirst(r) /\ pc[r] = "calling" /\ Fits(r)
      /\ Body(first[r]) \notin WillGiveBack(r)
  BY ThingsDiffer DEF FirstRejects, IInv, Fits, DeferredFits
<1>2. /\ Defer(r, <<Body(first[r])>>) /\ UNCHANGED <<first, at, pools, untried>>
      /\ open' = [open EXCEPT ![r] = @ \union {Body(first[r])}]
      /\ pc' = [pc EXCEPT ![r] = pc'[r]] /\ pc'[r] \in {"rectifying", "failing"}
  BY <1>1 DEF FirstRejects, Leave429, Move, OnFirst, IInv, Types
<1> QED
  BY <1>1, <1>2, BodyDeferred

LEMMA FirstAnswersKeeps ==
    ASSUME IInv, NEW r \in Requests, FirstAnswers(r)
    PROVE  IInv'
<1>1. /\ OnFirst(r) /\ pc[r] = "calling" /\ Fits(r)
      /\ Body(first[r]) \notin WillGiveBack(r)
  BY ThingsDiffer DEF FirstAnswers, IInv, Fits, DeferredFits
<1>2. /\ Defer(r, <<Body(first[r])>>) /\ UNCHANGED <<first, at, pools>>
      /\ open' = [open EXCEPT ![r] = @ \union {Body(first[r])}]
      /\ pc' = [pc EXCEPT ![r] = pc'[r]] /\ pc'[r] = "streaming"
      /\ untried' = [untried EXCEPT ![r] = {}] /\ untried'[r] = {}
  BY <1>1 DEF FirstAnswers, Done, Move, OnFirst, IInv, Types
<1> QED
  BY <1>1, <1>2, BodyDeferred

\* The rectified call fails, or its answer takes the place of the first.
LEMMA RectifiedAnswerKeeps ==
    ASSUME IInv, NEW r \in Requests, RectifiedAnswer(r)
    PROVE  IInv'
<1>1. /\ OnFirst(r) /\ pc[r] = "rectifying" /\ Fits(r)
      /\ Rectified(first[r]) \notin WillGiveBack(r)
  BY DEF RectifiedAnswer, IInv, Fits, PlaceFits, DeferredFits
<1>2. CASE UNCHANGED <<open, deferred>>
  <2>1. /\ Types'
        /\ \A q \in Requests \ {r} : Undisturbed(q)
        /\ UNCHANGED pools
    BY <1>2 DEF RectifiedAnswer, Done, Move, IInv, Types, Stages, Undisturbed, pools
  <2>2. /\ pc'[r] \in {"failing", "streaming"}
        /\ pc'[r] = "streaming" => untried'[r] = {}
        /\ first'[r] = first[r]
        /\ at'[r] = at[r]
        /\ untried'[r] \subseteq untried[r]
    BY <1>2 DEF RectifiedAnswer, Done, Move, IInv, Types
  <2>3. WillGiveBack(r)' = WillGiveBack(r)
    BY <1>2 DEF WillGiveBack
  <2>4. PlaceFits(r)'
    BY <1>1, <2>2 DEF Fits, PlaceFits, OnFirst
  <2>5. DeferredFits(r)'
    BY <1>1, <1>2, <2>2, <2>3 DEF Fits, DeferredFits, OnFirst
  <2>6. SlotsFit(r)'
    BY <1>1, <1>2, <2>1, <2>2, <2>3 DEF Fits, SlotsFit, UsesUpstream, OnFirst, pools, Limited
  <2> QED
    BY <1>2, <2>1, <2>4, <2>5, <2>6, PoolsUntouched DEF Fits
<1>3. CASE /\ open' = [open EXCEPT ![r] = {Rectified(at[r])}]
           /\ Defer(r, <<Rectified(at[r])>>)
  <2>1. /\ UNCHANGED <<first, at, pools>>
        /\ Defer(r, <<Rectified(first[r])>>)
        /\ open' = [open EXCEPT ![r] = {Rectified(first[r])}]
    BY <1>1, <1>3 DEF RectifiedAnswer, OnFirst
  <2>2. /\ pc' = [pc EXCEPT ![r] = pc'[r]] /\ pc'[r] \in {"failing", "streaming"}
        /\ untried' = untried \/ untried' = [untried EXCEPT ![r] = {}]
        /\ pc'[r] = "streaming" => untried'[r] = {}
    BY DEF RectifiedAnswer, Done, Move, IInv, Types
  <2> QED
    BY <1>1, <2>1, <2>2, BodyDeferred
<1> QED
  BY <1>2, <1>3 DEF RectifiedAnswer

\* A candidate's answer: its slot and its body go to the deferred functions.
LEMMA CandidateAnswersKeeps ==
    ASSUME IInv, NEW r \in Requests, CandidateAnswers(r)
    PROVE  IInv'
<1> DEFINE p == at[r]
           body == <<Body(p)>>
           slot == IF Limited(p) THEN <<Slot(p)>> ELSE <<>>
           both == IF open[r] = {} THEN body \o slot ELSE slot \o body
           given == IF Limited(p) THEN {Slot(p), Body(p)} ELSE {Body(p)}
<1>1. /\ Fits(r) /\ ~ OnFirst(r) /\ pc[r] = "calling"
      /\ deferred[r] \in Seq(Resources) /\ first[r] \in Providers /\ p \in Providers
      /\ Body(p) \in Bodies /\ Body(p) \in Resources /\ Slot(p) \in Resources
  BY ThingsDiffer DEF CandidateAnswers, IInv, Types, Fits, PlaceFits
<1>2. given \intersect WillGiveBack(r) = {}
  BY <1>1, ThingsDiffer DEF Fits, DeferredFits, OnFirst, Things
<1>3. both \in Seq(Resources) /\ ToSet(both) = given /\ Distinct(both)
  <2>1. /\ body \in Seq(Resources) /\ ToSet(body) = {Body(p)} /\ Distinct(body)
    BY <1>1, OneThing
  <2>2. /\ slot \in Seq(Resources) /\ Distinct(slot)
        /\ ToSet(slot) = IF Limited(p) THEN {Slot(p)} ELSE {}
    BY <1>1, OneThing, NoThing
  <2>3. ToSet(slot) \intersect ToSet(body) = {}
    BY <2>1, <2>2, ThingsDiffer
  <2> HIDE DEF body, slot
  <2>4. /\ body \o slot \in Seq(Resources) /\ slot \o body \in Seq(Resources)
        /\ ToSet(body \o slot) = ToSet(body) \union ToSet(slot)
        /\ ToSet(slot \o body) = ToSet(body) \union ToSet(slot)
        /\ Distinct(body \o slot) /\ Distinct(slot \o body)
    BY <2>1, <2>2, <2>3, Joined
  <2>5. ToSet(both) = ToSet(body) \union ToSet(slot)
    BY <2>4
  <2> QED
    BY <2>1, <2>2, <2>4, <2>5
<1> HIDE DEF both, given
<1>4. /\ both \o deferred[r] \in Seq(Resources)
      /\ ToSet(both \o deferred[r]) = given \union WillGiveBack(r)
      /\ Distinct(both \o deferred[r])
  BY <1>1, <1>2, <1>3, Joined DEF Fits, DeferredFits, WillGiveBack
<1>5. /\ pc' = [pc EXCEPT ![r] = "streaming"]
      /\ untried' = [untried EXCEPT ![r] = {}]
      /\ open' = [open EXCEPT ![r] = @ \union {Body(p)}]
      /\ deferred' = [deferred EXCEPT ![r] = both \o @]
      /\ UNCHANGED <<first, at, pools>>
  BY DEF CandidateAnswers, Done, Move, Defer, both
<1>6. /\ Types'
      /\ \A q \in Requests \ {r} : Undisturbed(q)
  BY <1>1, <1>4, <1>5 DEF IInv, Types, Stages, Undisturbed, pools
<1>7. /\ pc'[r] = "streaming" /\ untried'[r] = {}
      /\ first'[r] = first[r]
      /\ at'[r] = p
      /\ open'[r] = open[r] \union {Body(p)}
      /\ deferred'[r] = both \o deferred[r]
  BY <1>5 DEF IInv, Types
<1>8. WillGiveBack(r)' = given \union WillGiveBack(r)
  BY <1>4, <1>7 DEF WillGiveBack
<1>9. PlaceFits(r)'
  BY <1>1, <1>7 DEF Fits, PlaceFits, OnFirst
<1>10. DeferredFits(r)'
  BY <1>1, <1>4, <1>7, <1>8 DEF Fits, DeferredFits, OnFirst, Things, given
<1>11. SlotsFit(r)'
  <2>1. /\ Limited(p) => r \in holders[p]
        /\ r \in holders[p] => Limited(p)
    BY <1>1 DEF Fits, SlotsFit, UsesUpstream
  <2> QED
    BY <1>1, <1>5, <1>7, <1>8, <2>1, ThingsDiffer
    DEF Fits, SlotsFit, UsesUpstream, OnFirst, pools, Limited, given
<1> QED
  BY <1>5, <1>6, <1>9, <1>10, <1>11, PoolsUntouched DEF Fits

-------------------------------------------------------------------------------
\* Steps of r that change what it owns, or waits for, of one provider.
LEMMA TakeSlotKeeps ==
    ASSUME IInv, NEW r \in Requests, TakeSlot(r)
    PROVE  IInv'
<1> DEFINE p == at[r]
<1>1. /\ Fits(r) /\ deferred[r] \in Seq(Resources)
      /\ pc[r] = "entering" /\ Limited(p) /\ SlotIsFree(p)
      /\ first[r] \in Providers /\ p \in Providers /\ Slot(p) \in Resources
  BY ThingsDiffer DEF TakeSlot, IInv, Types, Fits, PlaceFits
<1>2. /\ <<Slot(p)>> \o deferred[r] \in Seq(Resources)
      /\ ToSet(<<Slot(p)>> \o deferred[r]) = {Slot(p)} \union ToSet(deferred[r])
      /\ deferred[r] = <<>> => Distinct(<<Slot(p)>> \o deferred[r])
                               /\ ToSet(deferred[r]) = {}
  BY <1>1, Pushed, NoThing
<1>3. /\ Types'
      /\ UNCHANGED <<open, line>>
      /\ holders' = [holders EXCEPT ![p] = @ \union {r}]
      /\ \A q \in Requests \ {r} : Undisturbed(q)
  <2>1. deferred' \in [Requests -> Seq(Resources)]
    BY <1>2 DEF TakeSlot, KeepSlot, Defer, IInv, Types
  <2>2. \A q \in Requests \ {r} : deferred'[q] = deferred[q]
    BY DEF TakeSlot, KeepSlot, Defer, IInv, Types
  <2> QED
    BY <2>1, <2>2 DEF TakeSlot, Move, IInv, Types, Stages, Undisturbed
<1>4. /\ pc'[r] = "calling"
      /\ first'[r] = first[r]
      /\ at'[r] = p
      /\ untried'[r] = untried[r]
      /\ deferred'[r] = IF OnFirst(r) THEN <<Slot(p)>> \o deferred[r] ELSE deferred[r]
  BY DEF TakeSlot, KeepSlot, Defer, Move, IInv, Types
<1>5. /\ holders'[p] = holders[p] \union {r}
      /\ \A x \in Providers \ {p} : holders'[x] = holders[x]
  BY <1>3 DEF IInv, Types
<1>6. PoolsBounded'
  <2>1. IsFiniteSet(holders[p]) /\ Limit[p] \in Nat /\ Cardinality(holders[p]) \in Nat
    BY <1>1, RequestPathAssumption, FS_Subset, FS_CardinalityType DEF IInv, Types
  <2>2. Cardinality(holders[p] \union {r}) <= Cardinality(holders[p]) + 1
    <3>1. Cardinality(holders[p] \union {r}) =
            IF r \in holders[p] THEN Cardinality(holders[p]) ELSE Cardinality(holders[p]) + 1
      BY <2>1, FS_AddElement
    <3>2. CASE r \in holders[p]
      BY <3>1, <3>2, <2>1
    <3>3. CASE r \notin holders[p]
      BY <3>1, <3>3, <2>1
    <3> QED
      BY <3>2, <3>3
  <2>3. Cardinality(holders'[p]) <= Limit[p]
    <3>1. Cardinality(holders[p]) < Limit[p]
      BY <1>1 DEF SlotIsFree
    <3>2. Cardinality(holders[p] \union {r}) \in Nat
      BY <2>1, FS_AddElement, FS_CardinalityType
    <3> QED
      BY <3>1, <3>2, <2>1, <2>2, <1>5
  <2> QED
    BY <2>3, <1>5 DEF IInv, PoolsBounded, Limited
<1>7. \A q \in Requests \ {r} : Fits(q)'
  <2> SUFFICES ASSUME NEW q \in Requests \ {r} PROVE Fits(q)'
    OBVIOUS
  <2>1. \A x \in Providers : /\ q \in holders'[x] <=> q \in holders[x]
                             /\ q \in line'[x] <=> q \in line[x]
    BY <1>3, <1>5
  <2> QED
    BY <1>3, <2>1, OthersKeep
<1>8. PlaceFits(r)'
  BY <1>1, <1>4 DEF Fits, PlaceFits, OnFirst
<1>9. ASSUME OnFirst(r) PROVE DeferredFits(r)' /\ SlotsFit(r)'
  <2>1. WillGiveBack(r) = {} /\ WillGiveBack(r)' = {Slot(first[r])} /\ Distinct(deferred'[r])
    BY <1>1, <1>2, <1>4, <1>9 DEF WillGiveBack, Fits, DeferredFits, OnFirst
  <2>2. DeferredFits(r)'
    BY <1>1, <1>3, <1>4, <1>9, <2>1 DEF Fits, DeferredFits, OnFirst, Things
  <2>3. SlotsFit(r)'
    BY <1>1, <1>3, <1>4, <1>5, <1>9, <2>1, <2>2, ThingsDiffer
    DEF Fits, DeferredFits, SlotsFit, UsesUpstream, OnFirst, Limited
  <2> QED
    BY <2>2, <2>3
<1>10. ASSUME ~ OnFirst(r) PROVE DeferredFits(r)' /\ SlotsFit(r)'
  <2>1. WillGiveBack(r)' = WillGiveBack(r) /\ deferred'[r] = deferred[r]
    BY <1>4, <1>10 DEF WillGiveBack
  <2>2. DeferredFits(r)'
    BY <1>1, <1>3, <1>4, <1>10, <2>1 DEF Fits, DeferredFits, OnFirst, Things
  <2>3. SlotsFit(r)'
    BY <1>1, <1>3, <1>4, <1>5, <1>10, <2>1
    DEF Fits, DeferredFits, SlotsFit, UsesUpstream, OnFirst, Limited
  <2> QED
    BY <2>2, <2>3
<1> QED
  BY <1>3, <1>6, <1>7, <1>8, <1>9, <1>10 DEF IInv, Fits

LEMMA JoinLineKeeps ==
    ASSUME IInv, NEW r \in Requests, JoinLine(r)
    PROVE  IInv'
<1> DEFINE p == at[r]
<1>1. /\ Fits(r) /\ pc[r] = "entering" /\ Limited(p)
      /\ first[r] \in Providers /\ p \in Providers
  BY DEF JoinLine, IInv, Types, Fits, PlaceFits
<1>2. /\ Types'
      /\ UNCHANGED <<open, deferred, holders>>
      /\ \A q \in Requests \ {r} : Undisturbed(q)
  BY <1>1 DEF JoinLine, Move, IInv, Types, Stages, Undisturbed
<1>3. /\ pc'[r] = "queued"
      /\ first'[r] = first[r]
      /\ at'[r] = p
      /\ untried'[r] = untried[r]
      /\ line'[p] = line[p] \union {r}
      /\ \A x \in Providers \ {p} : line'[x] = line[x]
  BY <1>1 DEF JoinLine, Move, IInv, Types
<1>4. r \notin holders[p]
  <2>1. Slot(p) \notin WillGiveBack(r)
    BY <1>1, NoThing, ThingsDiffer
    DEF Fits, DeferredFits, WillGiveBack, OnFirst, Things
  <2> QED
    BY <1>1, <2>1 DEF Fits, SlotsFit
<1>5. WillGiveBack(r)' = WillGiveBack(r)
  BY <1>2 DEF WillGiveBack
<1>6. PoolsBounded'
  BY <1>2 DEF IInv, PoolsBounded, Limited
<1>7. \A q \in Requests \ {r} : Fits(q)'
  <2> SUFFICES ASSUME NEW q \in Requests \ {r} PROVE Fits(q)'
    OBVIOUS
  <2>1. \A x \in Providers : /\ q \in holders'[x] <=> q \in holders[x]
                             /\ q \in line'[x] <=> q \in line[x]
    BY <1>2, <1>3
  <2> QED
    BY <1>2, <2>1, OthersKeep
<1>8. PlaceFits(r)'
  BY <1>1, <1>3 DEF Fits, PlaceFits, OnFirst
<1>9. DeferredFits(r)'
  BY <1>1, <1>2, <1>3, <1>5 DEF Fits, DeferredFits, OnFirst
<1>10. SlotsFit(r)'
  BY <1>1, <1>2, <1>3, <1>4, <1>5
  DEF Fits, DeferredFits, SlotsFit, UsesUpstream, OnFirst, Limited
<1> QED
  BY <1>2, <1>6, <1>7, <1>8, <1>9, <1>10 DEF IInv, Fits

LEMMA GiveUpKeeps ==
    ASSUME IInv, NEW r \in Requests, GiveUp(r)
    PROVE  IInv'
<1> DEFINE p == at[r]
<1>1. /\ Fits(r) /\ pc[r] = "queued" /\ r \in line[p]
      /\ first[r] \in Providers /\ p \in Providers
  BY DEF GiveUp, IInv, Types, Fits, PlaceFits
<1>2. /\ Types'
      /\ UNCHANGED <<open, deferred, holders>>
      /\ \A q \in Requests \ {r} : Undisturbed(q)
  BY <1>1 DEF GiveUp, Refused, Done, Move, IInv, Types, Stages, Undisturbed
<1>3. /\ IF OnFirst(r) THEN pc'[r] = "returning" /\ untried'[r] = {}
                       ELSE pc'[r] = "choosing" /\ untried'[r] = untried[r]
      /\ first'[r] = first[r]
      /\ at'[r] = p
      /\ line'[p] = line[p] \ {r}
      /\ \A x \in Providers \ {p} : line'[x] = line[x]
  BY <1>1 DEF GiveUp, Refused, Done, Move, OnFirst, IInv, Types
<1>4. WillGiveBack(r)' = WillGiveBack(r)
  BY <1>2 DEF WillGiveBack
<1>5. PoolsBounded'
  BY <1>2 DEF IInv, PoolsBounded, Limited
<1>6. \A q \in Requests \ {r} : Fits(q)'
  <2> SUFFICES ASSUME NEW q \in Requests \ {r} PROVE Fits(q)'
    OBVIOUS
  <2>1. \A x \in Providers : /\ q \in holders'[x] <=> q \in holders[x]
                             /\ q \in line'[x] <=> q \in line[x]
    BY <1>2, <1>3
  <2> QED
    BY <1>2, <2>1, OthersKeep
<1>7. PlaceFits(r)'
  BY <1>1, <1>3 DEF Fits, PlaceFits, OnFirst
<1>8. DeferredFits(r)'
  BY <1>1, <1>2, <1>3, <1>4 DEF Fits, DeferredFits, OnFirst
<1>9. SlotsFit(r)'
  BY <1>1, <1>2, <1>3, <1>4
  DEF Fits, DeferredFits, SlotsFit, UsesUpstream, OnFirst, Limited
<1> QED
  BY <1>2, <1>5, <1>6, <1>7, <1>8, <1>9 DEF IInv, Fits

\* A slot given back: r owns nothing of p any more, whoever was in line and got
\* it keeps its invariant, and so do all others.
LEMMA GivenBack ==
    ASSUME IInv, NEW r \in Requests, NEW p \in Providers, GiveBack(r, p),
           r \in holders[p], r \notin line[p]
    PROVE  /\ holders' \in [Providers -> SUBSET Requests]
           /\ line' \in [Providers -> SUBSET Requests]
           /\ PoolsBounded'
           /\ r \notin holders'[p] /\ r \notin line'[p]
           /\ \A x \in Providers \ {p} : holders'[x] = holders[x] /\ line'[x] = line[x]
           /\ \A q \in Requests \ {r} : Undisturbed(q) => Fits(q)'
<1>1. PICK next \in SUBSET line[p] :
        /\ holders' = [holders EXCEPT ![p] = (@ \ {r}) \union next]
        /\ line' = [line EXCEPT ![p] = @ \ next]
        /\ next = {} \/ \E q \in line[p] : next = {q}
  <2>1. CASE /\ holders' = [holders EXCEPT ![p] = @ \ {r}]
             /\ line' = line
    <3>1. /\ holders' = [holders EXCEPT ![p] = (@ \ {r}) \union {}]
          /\ line' = [line EXCEPT ![p] = @ \ {}]
      BY <2>1 DEF IInv, Types
    <3> QED
      BY <3>1
  <2>2. CASE \E q \in line[p] :
               /\ holders' = [holders EXCEPT ![p] = (@ \ {r}) \union {q}]
               /\ line' = [line EXCEPT ![p] = @ \ {q}]
    BY <2>2
  <2> QED
    BY <2>1, <2>2 DEF GiveBack
<1>2. /\ holders' \in [Providers -> SUBSET Requests]
      /\ line' \in [Providers -> SUBSET Requests]
      /\ holders'[p] = (holders[p] \ {r}) \union next /\ line'[p] = line[p] \ next
      /\ \A x \in Providers \ {p} : holders'[x] = holders[x] /\ line'[x] = line[x]
  BY <1>1 DEF IInv, Types
<1>3. PoolsBounded'
  <2>1. /\ IsFiniteSet(holders[p]) /\ Cardinality(holders[p]) \in Nat
        /\ IsFiniteSet(holders[p] \ {r})
        /\ Cardinality(holders[p] \ {r}) = Cardinality(holders[p]) - 1
    BY RequestPathAssumption, FS_Subset, FS_CardinalityType, FS_RemoveElement DEF IInv, Types
  <2>2. Cardinality(holders'[p]) <= Cardinality(holders[p])
    <3>1. CASE next = {}
      BY <3>1, <1>2, <2>1
    <3>2. CASE \E q \in line[p] : next = {q}
      <4>1. PICK q \in line[p] : next = {q}
        BY <3>2
      <4>2. Cardinality((holders[p] \ {r}) \union {q})
              <= Cardinality(holders[p] \ {r}) + 1
        <5>1. Cardinality(holders[p] \ {r}) \in Nat
          BY <2>1, FS_CardinalityType
        <5>2. Cardinality((holders[p] \ {r}) \union {q})
                = IF q \in holders[p] \ {r} THEN Cardinality(holders[p] \ {r})
                                            ELSE Cardinality(holders[p] \ {r}) + 1
          BY <2>1, FS_AddElement
        <5> QED
          BY <5>1, <5>2
      <4> QED
        BY <4>1, <4>2, <2>1, <1>2
    <3> QED
      BY <3>1, <3>2, <1>1
  <2>3. Cardinality(holders'[p]) \in Nat /\ Limit[p] \in Nat
    BY <1>2, RequestPathAssumption, FS_Subset, FS_CardinalityType
  <2>4. Limited(p) => Cardinality(holders'[p]) <= Limit[p]
    BY <2>1, <2>2, <2>3 DEF IInv, PoolsBounded
  <2> QED
    BY <2>4, <1>2 DEF IInv, PoolsBounded, Limited
<1>4. r \notin holders'[p] /\ r \notin line'[p]
  BY <1>1, <1>2
<1>5. ASSUME NEW q \in Requests \ {r}, Undisturbed(q) PROVE Fits(q)'
  <2>1. CASE q \notin next
    <3>1. \A x \in Providers : /\ q \in holders'[x] <=> q \in holders[x]
                               /\ q \in line'[x] <=> q \in line[x]
      BY <1>2, <2>1
    <3> QED
      BY <3>1, <1>5, OthersKeep
  <2>2. CASE q \in next
    <3>1. /\ Fits(q) /\ Limited(p) /\ pc[q] = "queued" /\ at[q] = p
      BY <1>1, <2>2 DEF IInv, Fits, SlotsFit
    <3>2. /\ WillGiveBack(q)' = WillGiveBack(q)
          /\ Distinct(deferred[q]) => Distinct(deferred'[q])
      BY <1>5 DEF Undisturbed, WillGiveBack
    <3>3. PlaceFits(q)'
      BY <3>1, <1>5 DEF Fits, PlaceFits, Undisturbed, OnFirst
    <3>4. DeferredFits(q)'
      BY <3>1, <3>2, <1>5 DEF Fits, DeferredFits, Undisturbed, OnFirst
    <3>5. SlotsFit(q)'
      BY <3>1, <3>2, <1>2, <1>5, <2>2
      DEF Fits, SlotsFit, Undisturbed, OnFirst, UsesUpstream, Limited
    <3> QED
      BY <3>3, <3>4, <3>5 DEF Fits
  <2> QED
    BY <2>1, <2>2
<1> QED
  BY <1>2, <1>3, <1>4, <1>5

\* A candidate whose call failed, or whose answer is of no use.
LEMMA CandidateDropped ==
    ASSUME IInv, NEW r \in Requests, DropCandidate(r), ~ OnFirst(r),
           pc[r] \in {"calling", "backoff"}, UNCHANGED <<first, at, untried>>
    PROVE  IInv'
<1> DEFINE p == at[r]
<1>1. /\ Fits(r) /\ first[r] \in Providers /\ p \in Providers
      /\ Limited(p) => r \in holders[p] /\ r \notin line[p]
      /\ ~ Limited(p) => r \notin holders[p]
      /\ Slot(p) \notin WillGiveBack(r)
      /\ \A x \in Providers : r \notin line[x]
  <2>1. Fits(r) /\ first[r] \in Providers /\ p \in Providers
    BY DEF IInv, Types, Fits, PlaceFits
  <2>2. /\ Limited(p) => r \in holders[p]
        /\ ~ Limited(p) => r \notin holders[p]
        /\ \A x \in Providers : r \notin line[x]
    BY <2>1 DEF Fits, SlotsFit, UsesUpstream
  <2>3. Slot(p) \notin WillGiveBack(r)
    BY <2>1, ThingsDiffer DEF Fits, DeferredFits, OnFirst, Things
  <2> QED
    BY <2>1, <2>2, <2>3
<1>2. /\ UNCHANGED <<open, deferred>>
      /\ pc' = [pc EXCEPT ![r] = "choosing"]
      /\ \A q \in Requests \ {r} : Undisturbed(q)
  BY DEF DropCandidate, Leave429, Move, Undisturbed, IInv, Types
<1>3. /\ holders' \in [Providers -> SUBSET Requests]
      /\ line' \in [Providers -> SUBSET Requests]
      /\ PoolsBounded'
      /\ r \notin holders'[p]
      /\ \A x \in Providers : r \notin line'[x]
      /\ \A x \in Providers \ {p} : holders'[x] = holders[x]
      /\ \A q \in Requests \ {r} : Fits(q)'
  <2>1. CASE Limited(p)
    <3>1. GiveBack(r, p) /\ r \in holders[p] /\ r \notin line[p]
      BY <1>1, <2>1 DEF DropCandidate
    <3> QED
      BY <3>1, <1>1, <1>2, GivenBack
  <2>2. CASE ~ Limited(p)
    <3>1. UNCHANGED pools
      BY <2>2 DEF DropCandidate
    <3> QED
      BY <3>1, <2>2, <1>1, <1>2, OthersKeep DEF pools, IInv, Types, PoolsBounded, Limited
  <2> QED
    BY <2>1, <2>2
<1>4. Types'
  BY <1>2, <1>3 DEF IInv, Types, Stages
<1>5. /\ pc'[r] = "choosing" /\ WillGiveBack(r)' = WillGiveBack(r)
  BY <1>2 DEF WillGiveBack, IInv, Types
<1>6. PlaceFits(r)'
  BY <1>1, <1>5 DEF Fits, PlaceFits, OnFirst
<1>7. DeferredFits(r)'
  BY <1>1, <1>2, <1>5 DEF Fits, DeferredFits, OnFirst
<1>8. SlotsFit(r)'
  <2> SUFFICES ASSUME NEW x \in Providers
               PROVE  /\ r \in line'[x] => FALSE
                      /\ r \in holders'[x] => Limited(x) /\ Slot(x) \in WillGiveBack(r)
                      /\ Slot(x) \in WillGiveBack(r) => r \in holders'[x]
                      /\ Limited(x) /\ UsesUpstream(r, x)' => r \in holders'[x]
    BY <1>5 DEF SlotsFit, Limited
  <2>1. CASE x = p
    <3>1. ~ UsesUpstream(r, p)'
      BY <1>1, <1>2, <1>5, ThingsDiffer
      DEF UsesUpstream, Fits, DeferredFits, OnFirst, Things
    <3> QED
      BY <2>1, <3>1, <1>1, <1>3
  <2>2. CASE x # p
    <3>1. UsesUpstream(r, x)' => UsesUpstream(r, x)
      BY <1>2, <1>5 DEF UsesUpstream
    <3> QED
      BY <2>2, <3>1, <1>1, <1>3 DEF Fits, SlotsFit
  <2> QED
    BY <2>1, <2>2
<1> QED
  BY <1>3, <1>4, <1>6, <1>7, <1>8 DEF IInv, Fits

\* The deferred functions run, the last deferred first.
LEMMA RunDeferredKeeps ==
    ASSUME IInv, NEW r \in Requests, RunDeferred(r)
    PROVE  IInv'
<1> DEFINE d == Head(deferred[r])
<1>1. /\ Fits(r) /\ pc[r] = "returning" /\ deferred[r] # <<>>
      /\ deferred[r] \in Seq(Resources) /\ Distinct(deferred[r])
      /\ first[r] \in Providers /\ at[r] \in Providers
  BY DEF RunDeferred, IInv, Types, Fits, PlaceFits, DeferredFits
<1>2. /\ d \in Resources /\ Tail(deferred[r]) \in Seq(Resources)
      /\ Distinct(Tail(deferred[r]))
      /\ ToSet(deferred[r]) = {d} \union ToSet(Tail(deferred[r]))
      /\ d \notin ToSet(Tail(deferred[r]))
  BY <1>1, Popped
<1> HIDE DEF d
<1>3. /\ deferred' = [deferred EXCEPT ![r] = Tail(@)]
      /\ UNCHANGED <<pc, first, at, untried>>
      /\ IF d[1] = "slot" THEN GiveBack(r, d[2]) /\ UNCHANGED open
                          ELSE open' = [open EXCEPT ![r] = @ \ {d}] /\ UNCHANGED pools
  BY DEF RunDeferred, d
<1>4. /\ deferred'[r] = Tail(deferred[r])
      /\ deferred' \in [Requests -> Seq(Resources)]
      /\ open' \in [Requests -> SUBSET Bodies]
      /\ open'[r] \subseteq open[r] /\ (d \notin Bodies \/ d \notin open'[r])
      /\ \A q \in Requests \ {r} : Undisturbed(q)
  <2>1. /\ deferred'[r] = Tail(deferred[r])
        /\ deferred' \in [Requests -> Seq(Resources)]
        /\ \A q \in Requests \ {r} : deferred'[q] = deferred[q]
    BY <1>2, <1>3 DEF IInv, Types
  <2>2. CASE d[1] = "slot"
    <3>1. d \notin Bodies
      BY <1>2, <2>2 DEF Resources, Bodies
    <3> QED
      BY <3>1, <2>1, <2>2, <1>3 DEF IInv, Types, Undisturbed
  <2>3. CASE d[1] # "slot"
    <3>1. open' = [open EXCEPT ![r] = @ \ {d}] /\ open \in [Requests -> SUBSET Bodies]
      BY <2>3, <1>3 DEF IInv, Types
    <3>2. /\ open' \in [Requests -> SUBSET Bodies]
          /\ open'[r] = open[r] \ {d}
          /\ \A q \in Requests \ {r} : open'[q] = open[q]
      BY <3>1
    <3> QED
      BY <3>2, <2>1, <1>3 DEF Undisturbed
  <2> QED
    BY <2>2, <2>3
<1>5. WillGiveBack(r)' = WillGiveBack(r) \ {d} /\ d \in WillGiveBack(r)
  BY <1>2, <1>4 DEF WillGiveBack
<1>6. PlaceFits(r)'
  BY <1>1, <1>3 DEF Fits, PlaceFits, OnFirst
<1>7. DeferredFits(r)'
  <2>1. open'[r] \subseteq WillGiveBack(r)'
    BY <1>1, <1>4, <1>5 DEF Fits, DeferredFits, IInv, Types
  <2> QED
    BY <2>1, <1>1, <1>2, <1>3, <1>4, <1>5 DEF Fits, DeferredFits, OnFirst
<1>8. CASE d[1] = "slot"
  <2> DEFINE p == d[2]
  <2>1. p \in Providers /\ d = Slot(p)
    BY <1>2, <1>8, ThingsDiffer
  <2>2. r \in holders[p] /\ \A x \in Providers : r \notin line[x]
    BY <1>1, <1>5, <2>1 DEF Fits, SlotsFit
  <2>3. GiveBack(r, p)
    BY <1>3, <1>8
  <2> HIDE DEF p
  <2>4. /\ holders' \in [Providers -> SUBSET Requests]
        /\ line' \in [Providers -> SUBSET Requests]
        /\ PoolsBounded'
        /\ r \notin holders'[p] /\ r \notin line'[p]
        /\ \A x \in Providers \ {p} : holders'[x] = holders[x] /\ line'[x] = line[x]
        /\ \A q \in Requests \ {r} : Fits(q)'
    BY <2>1, <2>2, <2>3, <1>4, GivenBack
  <2>5. Types'
    BY <2>4, <1>3, <1>4 DEF IInv, Types
  <2>6. SlotsFit(r)'
    BY <1>1, <1>3, <1>5, <2>1, <2>2, <2>4, ThingsDiffer
    DEF Fits, SlotsFit, UsesUpstream, OnFirst, Limited
  <2> QED
    BY <2>4, <2>5, <2>6, <1>6, <1>7 DEF IInv, Fits
<1>9. CASE d[1] # "slot"
  <2>1. d \in Bodies
    BY <1>2, <1>9, ThingsDiffer
  <2>2. Types'
    BY <1>3, <1>4, <1>9 DEF IInv, Types, pools
  <2>3. SlotsFit(r)'
    BY <1>1, <1>3, <1>5, <1>9, <2>1, ThingsDiffer
    DEF Fits, SlotsFit, UsesUpstream, OnFirst, Limited, pools
  <2> QED
    BY <2>2, <2>3, <1>3, <1>4, <1>6, <1>7, <1>9, PoolsUntouched DEF Fits
<1> QED
  BY <1>8, <1>9

-------------------------------------------------------------------------------
LEMMA StutterKeeps == IInv /\ UNCHANGED vars => IInv'
<1> SUFFICES ASSUME IInv, UNCHANGED vars PROVE IInv'
  OBVIOUS
<1>1. Types' /\ PoolsBounded'
  BY DEF vars, request, pools, IInv, Types, PoolsBounded, Limited
<1>2. \A q \in Requests : Fits(q)'
  BY OthersKeep DEF vars, request, pools, Undisturbed
<1> QED
  BY <1>1, <1>2 DEF IInv

LEMMA NextKeeps == IInv /\ [Next]_vars => IInv'
<1>1. ASSUME IInv, NEW r \in Requests, CallFails(r) PROVE IInv'
  <2>1. CASE OnFirst(r)
    BY <1>1, <2>1, FirstCallFails
  <2>2. CASE ~ OnFirst(r)
    <3>1. /\ DropCandidate(r) /\ pc[r] \in {"calling", "backoff"}
          /\ UNCHANGED <<first, at, untried>>
      BY <1>1, <2>2 DEF CallFails
    <3> QED
      BY <1>1, <2>2, <3>1, CandidateDropped
  <2> QED
    BY <2>1, <2>2
<1>2. ASSUME IInv, NEW r \in Requests, CandidateRejects(r) PROVE IInv'
  <2>1. /\ DropCandidate(r) /\ ~ OnFirst(r) /\ pc[r] \in {"calling", "backoff"}
        /\ UNCHANGED <<first, at, untried>>
    BY <1>2 DEF CandidateRejects
  <2> QED
    BY <1>2, <2>1, CandidateDropped
<1>3. ASSUME IInv, NEW r \in Requests, Progress(r) PROVE IInv'
  BY <1>1, <1>2, <1>3, EnterUnlimitedKeeps, TakeSlotKeeps, JoinLineKeeps,
     RefusedAtOnceKeeps, GrantedKeeps, GiveUpKeeps, TooManyRequestsKeeps,
     RetryAfterPauseKeeps, FirstAnswersKeeps, FirstRejectsKeeps,
     RectifiedAnswerKeeps, FailOverKeeps, PassFailureOnKeeps,
     TryCandidateKeeps, CandidateAnswersKeeps, StreamEndsKeeps,
     RunDeferredKeeps, ReturnKeeps
  DEF Progress
<1>4. ASSUME IInv, Next PROVE IInv'
  BY <1>3, <1>4, ArriveKeeps, ClientLeavesKeeps, TransformFailsKeeps DEF Next
<1> QED
  BY <1>4, StutterKeeps

\* The bounds of the pools and the accounts of the requests are what
\* SlotsFollowRequests says.
LEMMA AccountsAgree == IInv => SlotsFollowRequests
<1> SUFFICES ASSUME IInv PROVE SlotsFollowRequests
  OBVIOUS
<1>1. LimitsHold
  BY DEF IInv, PoolsBounded, LimitsHold, Fits, SlotsFit
<1>2. NothingKept
  <2> SUFFICES ASSUME NEW r \in Requests, NEW p \in Providers
               PROVE  /\ r \in holders[p] =>
                            \/ Slot(p) \in WillGiveBack(r)
                            \/ at[r] = p /\ pc[r] \in {"queued", "calling", "backoff"}
                      /\ \A b \in {Body(p), Rectified(p)} :
                            b \in open[r] =>
                                p \in {first[r], at[r]} /\ b \in WillGiveBack(r)
    BY DEF NothingKept
  <2>1. Fits(r)
    BY DEF IInv
  <2>2. r \in holders[p] => \/ Slot(p) \in WillGiveBack(r)
                            \/ at[r] = p /\ pc[r] \in {"queued", "calling", "backoff"}
    BY <2>1 DEF Fits, SlotsFit
  <2>3. ASSUME NEW b \in {Body(p), Rectified(p)}, b \in open[r]
        PROVE  p \in {first[r], at[r]} /\ b \in WillGiveBack(r)
    <3>1. /\ b \in WillGiveBack(r)
          /\ b \in Things(first[r]) \union Things(at[r])
      BY <2>1, <2>3 DEF Fits, DeferredFits
    <3> QED
      BY <2>3, <3>1, ThingsDiffer DEF Things
  <2> QED
    BY <2>2, <2>3
<1> QED
  BY <1>1, <1>2 DEF SlotsFollowRequests

\* For every number of requests and providers: whoever uses a limited provider
\* has one of its slots, first calls, retries, rectified calls, replays and
\* streams alike, and what a request owns is given back by a function it has
\* deferred (handler.go:199, 430-542).
THEOREM SlotsFollow == Spec => []SlotsFollowRequests
<1>1. Spec => []IInv
  BY InitIInv, NextKeeps, PTL DEF Spec
<1> QED
  BY <1>1, AccountsAgree, PTL

-------------------------------------------------------------------------------
(***************************************************************************)
(* The pools.  What the requests do to the slots and the line of one       *)
(* provider is a step of FixedPool, or nothing.                            *)
(***************************************************************************)
LEMMA SameCountOfSlots == \A p, S : Slots(p)!Cardinality(S) = Cardinality(S)
BY DEF Slots!Cardinality, Cardinality

\* Whoever enters the queue of a provider neither has nor awaits a slot of it.
LEMMA EnteringFree ==
    ASSUME IInv, NEW r \in Requests, pc[r] = "entering"
    PROVE  at[r] \in Providers /\ r \notin holders[at[r]] /\ r \notin line[at[r]]
<1> DEFINE p == at[r]
<1>1. Fits(r) /\ first[r] \in Providers /\ p \in Providers
  BY DEF IInv, Types, Fits, PlaceFits
<1>2. Slot(p) \notin WillGiveBack(r)
  <2>1. CASE OnFirst(r)
    BY <2>1, <1>1, NoThing DEF Fits, DeferredFits, WillGiveBack
  <2>2. CASE ~ OnFirst(r)
    BY <2>2, <1>1, ThingsDiffer DEF Fits, DeferredFits, OnFirst, Things
  <2> QED
    BY <2>1, <2>2
<1> QED
  BY <1>1, <1>2 DEF Fits, SlotsFit

LEMMA TakeIsFixed ==
    ASSUME IInv, NEW r \in Requests, TakeSlot(r), NEW p \in Providers
    PROVE  Slots(p)!FixedNext \/ UNCHANGED Slots(p)!fixedVars
<1>1. /\ at[r] \in Providers /\ r \notin holders[at[r]]
      /\ line[at[r]] = {} /\ Cardinality(holders[at[r]]) < Limit[at[r]]
      /\ holders' = [holders EXCEPT ![at[r]] = @ \union {r}] /\ UNCHANGED line
  BY EnteringFree DEF TakeSlot, SlotIsFree
<1>2. CASE p = at[r]
  <2>1. holders'[p] = holders[p] \union {r} /\ line'[p] = line[p]
    BY <1>1, <1>2 DEF IInv, Types
  <2>2. Slots(p)!Take(r)
    BY <1>1, <1>2, <2>1, SameCountOfSlots DEF Slots!Take, Slots!SlotFree
  <2> QED
    BY <2>2 DEF Slots!FixedNext
<1>3. CASE p # at[r]
  BY <1>1, <1>3 DEF IInv, Types, Slots!fixedVars
<1> QED
  BY <1>2, <1>3

LEMMA WaitIsFixed ==
    ASSUME IInv, NEW r \in Requests, JoinLine(r), NEW p \in Providers
    PROVE  Slots(p)!FixedNext \/ UNCHANGED Slots(p)!fixedVars
<1>1. /\ at[r] \in Providers /\ r \notin holders[at[r]] /\ r \notin line[at[r]]
      /\ ~ (line[at[r]] = {} /\ Cardinality(holders[at[r]]) < Limit[at[r]])
      /\ Cardinality(line[at[r]]) < Places[at[r]]
      /\ line' = [line EXCEPT ![at[r]] = @ \union {r}] /\ UNCHANGED holders
  BY EnteringFree DEF JoinLine, SlotIsFree
<1>2. CASE p = at[r]
  <2>1. line'[p] = line[p] \union {r} /\ holders'[p] = holders[p]
    BY <1>1, <1>2 DEF IInv, Types
  <2>2. Slots(p)!Wait(r)
    BY <1>1, <1>2, <2>1, SameCountOfSlots DEF Slots!Wait, Slots!SlotFree
  <2> QED
    BY <2>2 DEF Slots!FixedNext
<1>3. CASE p # at[r]
  BY <1>1, <1>3 DEF IInv, Types, Slots!fixedVars
<1> QED
  BY <1>2, <1>3

LEMMA LeaveIsFixed ==
    ASSUME IInv, NEW r \in Requests, GiveUp(r), NEW p \in Providers
    PROVE  Slots(p)!FixedNext \/ UNCHANGED Slots(p)!fixedVars
<1>1. /\ at[r] \in Providers /\ r \in line[at[r]]
      /\ line' = [line EXCEPT ![at[r]] = @ \ {r}] /\ UNCHANGED holders
  BY DEF GiveUp, IInv, Fits, PlaceFits
<1>2. CASE p = at[r]
  <2>1. line'[p] = line[p] \ {r} /\ holders'[p] = holders[p]
    BY <1>1, <1>2 DEF IInv, Types
  <2>2. Slots(p)!Leave(r)
    BY <1>1, <1>2, <2>1 DEF Slots!Leave
  <2> QED
    BY <2>2 DEF Slots!FixedNext
<1>3. CASE p # at[r]
  BY <1>1, <1>3 DEF IInv, Types, Slots!fixedVars
<1> QED
  BY <1>2, <1>3

LEMMA HandOnIsFixed ==
    ASSUME IInv, NEW r \in Requests, NEW q \in Providers, r \in holders[q],
           GiveBack(r, q), NEW p \in Providers
    PROVE  Slots(p)!FixedNext \/ UNCHANGED Slots(p)!fixedVars
<1>1. CASE p = q
  <2>1. CASE /\ line[q] = {}
             /\ holders' = [holders EXCEPT ![q] = @ \ {r}]
             /\ UNCHANGED line
    <3>1. Slots(p)!HandOn(r)
      BY <1>1, <2>1 DEF IInv, Types, Slots!HandOn
    <3> QED
      BY <3>1 DEF Slots!FixedNext
  <2>2. ASSUME NEW d \in line[q],
               holders' = [holders EXCEPT ![q] = (@ \ {r}) \union {d}],
               line' = [line EXCEPT ![q] = @ \ {d}]
        PROVE  Slots(p)!FixedNext
    <3>1. holders'[p] = (holders[p] \ {r}) \union {d} /\ line'[p] = line[p] \ {d}
      BY <1>1, <2>2 DEF IInv, Types
    <3>2. Slots(p)!HandOn(r)
      BY <1>1, <3>1 DEF Slots!HandOn
    <3> QED
      BY <3>2 DEF Slots!FixedNext
  <2> QED
    BY <2>1, <2>2 DEF GiveBack
<1>2. CASE p # q
  BY <1>2 DEF GiveBack, IInv, Types, Slots!fixedVars
<1> QED
  BY <1>1, <1>2

\* A candidate's slot is owned while it is called.
LEMMA DropIsFixed ==
    ASSUME IInv, NEW r \in Requests, DropCandidate(r),
           pc[r] \in {"calling", "backoff"}, NEW p \in Providers
    PROVE  Slots(p)!FixedNext \/ UNCHANGED Slots(p)!fixedVars
<1>1. at[r] \in Providers /\ (Limited(at[r]) => r \in holders[at[r]])
  BY DEF IInv, Fits, PlaceFits, SlotsFit, UsesUpstream
<1>2. CASE Limited(at[r])
  BY <1>1, <1>2, HandOnIsFixed DEF DropCandidate
<1>3. CASE ~ Limited(at[r])
  BY <1>3 DEF DropCandidate, pools, Slots!fixedVars
<1> QED
  BY <1>2, <1>3

LEMMA DeferredIsFixed ==
    ASSUME IInv, NEW r \in Requests, RunDeferred(r), NEW p \in Providers
    PROVE  Slots(p)!FixedNext \/ UNCHANGED Slots(p)!fixedVars
<1> DEFINE d == Head(deferred[r])
<1>1. Fits(r) /\ deferred[r] # <<>> /\ deferred[r] \in Seq(Resources)
  BY DEF RunDeferred, IInv, Types
<1>2. d \in Resources /\ d \in WillGiveBack(r)
  BY <1>1 DEF WillGiveBack, ToSet
<1> HIDE DEF d
<1>3. IF d[1] = "slot" THEN GiveBack(r, d[2]) ELSE UNCHANGED pools
  BY DEF RunDeferred, d
<1>4. CASE d[1] = "slot"
  <2>1. d[2] \in Providers /\ d = Slot(d[2])
    BY <1>2, <1>4, ThingsDiffer
  <2>2. r \in holders[d[2]]
    BY <1>1, <1>2, <2>1 DEF Fits, SlotsFit
  <2> QED
    BY <1>3, <1>4, <2>1, <2>2, HandOnIsFixed
<1>5. CASE d[1] # "slot"
  BY <1>3, <1>5 DEF pools, Slots!fixedVars
<1> QED
  BY <1>4, <1>5

LEMMA PoolsStay ==
    ASSUME UNCHANGED pools, NEW p \in Providers
    PROVE  UNCHANGED Slots(p)!fixedVars
BY DEF pools, Slots!fixedVars

LEMMA NextIsFixed ==
    ASSUME IInv, [Next]_vars, NEW p \in Providers
    PROVE  Slots(p)!FixedNext \/ UNCHANGED Slots(p)!fixedVars
<1>1. ASSUME NEW r \in Requests, CallFails(r) \/ CandidateRejects(r)
      PROVE  UNCHANGED pools \/ (DropCandidate(r) /\ pc[r] \in {"calling", "backoff"})
  BY <1>1 DEF CallFails, CandidateRejects
<1>2. ASSUME NEW r \in Requests,
             \/ Arrive(r) \/ ClientLeaves(r) \/ TransformFails(r) \/ EnterUnlimited(r)
             \/ RefusedAtOnce(r) \/ Granted(r) \/ TooManyRequests(r) \/ RetryAfterPause(r)
             \/ FirstAnswers(r) \/ FirstRejects(r) \/ RectifiedAnswer(r) \/ FailOver(r)
             \/ PassFailureOn(r) \/ TryCandidate(r) \/ CandidateAnswers(r)
             \/ StreamEnds(r) \/ Return(r)
      PROVE  UNCHANGED pools
  BY <1>2 DEF Arrive, ClientLeaves, TransformFails, EnterUnlimited, RefusedAtOnce, Granted,
     TooManyRequests, RetryAfterPause, FirstAnswers, FirstRejects, RectifiedAnswer, FailOver,
     PassFailureOn, TryCandidate, CandidateAnswers, StreamEnds, Return
<1>3. ASSUME NEW r \in Requests, Progress(r)
      PROVE  Slots(p)!FixedNext \/ UNCHANGED Slots(p)!fixedVars
  BY <1>1, <1>2, <1>3, TakeIsFixed, WaitIsFixed, LeaveIsFixed, DropIsFixed,
     DeferredIsFixed, PoolsStay DEF Progress
<1>4. CASE UNCHANGED vars
  BY <1>4, PoolsStay DEF vars
<1> QED
  BY <1>2, <1>3, <1>4, PoolsStay DEF Next

\* To its slots and its line a provider sees a FixedPool, whatever fails over,
\* retries and leaves around it: the pool that RateLimitQueue implements while
\* its settings stay (handler.go:177-204, 430-542).
THEOREM PoolsAreFixed == Spec => UsesFixedPools
<1>1. Init => \A p \in Providers : Slots(p)!FixedInit
  BY DEF Init, Slots!FixedInit
<1>2. IInv /\ [Next]_vars => \A p \in Providers : [Slots(p)!FixedNext]_(Slots(p)!fixedVars)
  BY NextIsFixed
<1> QED
  BY <1>1, <1>2, InitIInv, NextKeeps, PTL DEF Spec, UsesFixedPools

-------------------------------------------------------------------------------
(***************************************************************************)
(* The counters.  TypeOK bounds the calls of a request; that is inductive  *)
(* only together with the calls it may still make, as a set: those left at *)
(* the provider at hand, all of those at the providers ahead, and the one  *)
(* of the rectifier.                                                       *)
(***************************************************************************)

\* The stages with calls to come at the provider at hand, those with every
\* candidate still to come, and those with no call to come.
Trying == {"entering", "queued", "calling", "backoff"}
Early == Trying \union {"rectifying", "failing"}
Over == {"idle", "streaming", "returning"}

AtHand(r) ==
    IF pc[r] \in Trying
    THEN {<<at[r], k>> : k \in (IF pc[r] = "calling" THEN attempt[r] + 1 ELSE attempt[r])
                                  .. Attempts[at[r]]}
    ELSE {}

Ahead(r) ==
    IF OnFirst(r) /\ pc[r] \in Early THEN Providers \ {first[r]} ELSE untried[r]

Left(r) == AtHand(r) \union CallsAt(Ahead(r))

\* The call of the rectifier, while it may come.
Spare(r) == IF OnFirst(r) /\ pc[r] \in Trying THEN 1 ELSE 0

AttemptFits(r) ==
    /\ pc[r] \in {"calling", "backoff"} => attempt[r] <= Attempts[at[r]]
    /\ pc[r] \notin {"calling", "backoff"} => attempt[r] = 0

CallsFit(r) ==
    IF pc[r] \in Over THEN calls[r] = 0
    ELSE calls[r] + Cardinality(Left(r)) + Spare(r) <= MaxCalls

\* The provider at hand is not ahead as well.
HandFits(r) == pc[r] \in Trying => at[r] \notin Ahead(r)

CountInv ==
    /\ attempt \in [Requests -> Nat]
    /\ calls \in [Requests -> Nat]
    /\ gone \subseteq Requests
    /\ \A r \in Requests : AttemptFits(r) /\ HandFits(r) /\ CallsFit(r)

LEMMA CallsAtProps ==
    /\ IsFiniteSet(CallsAt(Providers))
    /\ MaxCalls \in Nat /\ MaxCalls = 1 + Cardinality(CallsAt(Providers))
    /\ \A P \in SUBSET Providers : CallsAt(P) \subseteq CallsAt(Providers)
    /\ \A p \in Providers, k \in Nat :
          k <= Attempts[p] => <<p, k>> \in CallsAt({p})
<1>1. IsFiniteSet(CallsAt(Providers))
  <2> DEFINE F(p) == {<<p, k>> : k \in 0 .. Attempts[p]}
  <2>1. \A p \in Providers : IsFiniteSet(F(p))
    <3> TAKE p \in Providers
    <3>1. 0 \in Int /\ Attempts[p] \in Int
      BY RequestPathAssumption
    <3>2. IsFiniteSet(0 .. Attempts[p])
      BY <3>1, FS_Interval
    <3> DEFINE f == [k \in 0 .. Attempts[p] |-> <<p, k>>]
    <3>3. f \in Surjection(0 .. Attempts[p], F(p))
      BY DEF Surjection
    <3> QED
      BY <3>2, <3>3, FS_Surjection
  <2>2. IsFiniteSet({F(p) : p \in Providers})
    <3> DEFINE f == [p \in Providers |-> F(p)]
    <3>1. f \in Surjection(Providers, {F(p) : p \in Providers})
      BY DEF Surjection
    <3> QED
      BY <3>1, FS_Surjection, RequestPathAssumption
  <2>3. CallsAt(Providers) = UNION {F(p) : p \in Providers}
    BY DEF CallsAt
  <2> QED
    <3>1. IsFiniteSet(UNION {F(p) : p \in Providers})
      BY <2>1, <2>2, FS_UNION
    <3> QED
      BY <3>1, <2>3
<1>2. Cardinality(CallsAt(Providers)) \in Nat
  BY <1>1, FS_CardinalityType
<1>3. ASSUME NEW P \in SUBSET Providers PROVE CallsAt(P) \subseteq CallsAt(Providers)
  BY DEF CallsAt
<1>4. ASSUME NEW p \in Providers, NEW k \in Nat, k <= Attempts[p]
      PROVE  <<p, k>> \in CallsAt({p})
  BY <1>4, RequestPathAssumption DEF CallsAt
<1> QED
  BY <1>1, <1>2, <1>3, <1>4 DEF MaxCalls

\* What is left is finite, and at most one call and its retries at each provider.
LEMMA LeftProps ==
    ASSUME IInv, CountInv, NEW r \in Requests, pc[r] # "idle"
    PROVE  /\ IsFiniteSet(Left(r)) /\ Cardinality(Left(r)) \in Nat
           /\ Left(r) \subseteq CallsAt(Providers)
           /\ Spare(r) \in {0, 1}
<1>1. at[r] \in Providers /\ untried[r] \subseteq Providers /\ attempt[r] \in Nat
  BY DEF IInv, Types, Fits, PlaceFits, CountInv
<1>2. AtHand(r) \subseteq CallsAt(Providers)
  BY <1>1, RequestPathAssumption DEF AtHand, CallsAt
<1>3. CallsAt(Ahead(r)) \subseteq CallsAt(Providers)
  BY <1>1 DEF Ahead, CallsAt
<1>4. Left(r) \subseteq CallsAt(Providers)
  BY <1>2, <1>3 DEF Left
<1> QED
  BY <1>4, CallsAtProps, FS_Subset, FS_CardinalityType DEF Spare

\* A request that spends no call, one of those at hand, or the rectifier's.
LEMMA Spent ==
    ASSUME IInv, CountInv, NEW r \in Requests,
           pc[r] \notin Over, pc'[r] \notin Over,
           calls'[r] \in Nat, Left(r)' \subseteq Left(r), Spare(r)' \in {0, 1},
           \/ calls'[r] = calls[r] /\ Spare(r)' <= Spare(r)
           \/ /\ calls'[r] = calls[r] + 1 /\ Spare(r)' <= Spare(r)
              /\ \E x \in Left(r) : x \notin Left(r)'
           \/ calls'[r] = calls[r] + 1 /\ Spare(r)' = 0 /\ Spare(r) = 1
    PROVE  CallsFit(r)'
<1>1. /\ IsFiniteSet(Left(r)) /\ Cardinality(Left(r)) \in Nat
      /\ Spare(r) \in {0, 1} /\ calls[r] \in Nat
      /\ calls[r] + Cardinality(Left(r)) + Spare(r) <= MaxCalls
  BY LeftProps DEF CountInv, CallsFit, Over
<1>2. /\ IsFiniteSet(Left(r)') /\ Cardinality(Left(r)') \in Nat
      /\ Cardinality(Left(r)') <= Cardinality(Left(r))
      /\ Left(r)' # Left(r) => Cardinality(Left(r)') < Cardinality(Left(r))
  BY <1>1, FS_Subset, FS_CardinalityType
<1>3. MaxCalls \in Nat
  BY CallsAtProps
<1>4. calls'[r] + Cardinality(Left(r)') + Spare(r)' <= MaxCalls
  <2>1. CASE calls'[r] = calls[r] /\ Spare(r)' <= Spare(r)
    BY <2>1, <1>1, <1>2, <1>3
  <2>2. CASE /\ calls'[r] = calls[r] + 1 /\ Spare(r)' <= Spare(r)
             /\ \E x \in Left(r) : x \notin Left(r)'
    <3>1. Cardinality(Left(r)') < Cardinality(Left(r))
      BY <2>2, <1>2
    <3> QED
      BY <2>2, <3>1, <1>1, <1>2, <1>3
  <2>3. CASE calls'[r] = calls[r] + 1 /\ Spare(r)' = 0 /\ Spare(r) = 1
    BY <2>3, <1>1, <1>2, <1>3
  <2> QED
    BY <2>1, <2>2, <2>3
<1> QED
  BY <1>4 DEF CallsFit

-------------------------------------------------------------------------------
\* q is where it was.
Stays(q) ==
    /\ pc'[q] = pc[q] /\ first'[q] = first[q] /\ at'[q] = at[q]
    /\ untried'[q] = untried[q]

\* What holds of r itself.
LEMMA OfRequest ==
    ASSUME IInv, CountInv, NEW r \in Requests
    PROVE  /\ PlaceFits(r) /\ AttemptFits(r) /\ HandFits(r) /\ CallsFit(r)
           /\ pc \in [Requests -> Stages]
           /\ attempt[r] \in Nat /\ calls[r] \in Nat
           /\ pc[r] # "idle" => at[r] \in Providers /\ Attempts[at[r]] \in Nat
<1>1. PlaceFits(r) /\ AttemptFits(r) /\ HandFits(r) /\ CallsFit(r)
  BY DEF IInv, Fits, CountInv
<1>2. pc \in [Requests -> Stages] /\ attempt[r] \in Nat /\ calls[r] \in Nat
  BY DEF IInv, Types, CountInv
<1>3. pc[r] # "idle" => at[r] \in Providers /\ Attempts[at[r]] \in Nat
  BY <1>1, RequestPathAssumption DEF PlaceFits
<1> QED
  BY <1>1, <1>2, <1>3

\* In a step of r nothing becomes of the counters of the others.
LEMMA OthersCount ==
    ASSUME IInv, CountInv, NEW r \in Requests, \A q \in Requests \ {r} : Stays(q),
           NEW n \in Nat, attempt' = [attempt EXCEPT ![r] = n],
           NEW m \in Nat, calls' = [calls EXCEPT ![r] = m],
           gone' \subseteq Requests,
           AttemptFits(r)', HandFits(r)', CallsFit(r)'
    PROVE  CountInv'
<1>1. ASSUME NEW q \in Requests \ {r} PROVE AttemptFits(q)' /\ HandFits(q)' /\ CallsFit(q)'
  <2>1. /\ attempt'[q] = attempt[q] /\ calls'[q] = calls[q]
        /\ pc'[q] = pc[q] /\ first'[q] = first[q] /\ at'[q] = at[q]
        /\ untried'[q] = untried[q]
    BY DEF Stays, CountInv
  <2>2. Ahead(q)' = Ahead(q) /\ Spare(q)' = Spare(q)
    BY <2>1 DEF Ahead, Spare, OnFirst
  <2>3. Left(q)' = Left(q)
    BY <2>1, <2>2 DEF Left, AtHand, CallsAt
  <2>4. AttemptFits(q) /\ HandFits(q) /\ CallsFit(q)
    BY DEF CountInv
  <2> QED
    BY <2>1, <2>2, <2>3, <2>4 DEF AttemptFits, HandFits, CallsFit
<1>2. attempt' \in [Requests -> Nat] /\ calls' \in [Requests -> Nat]
  BY DEF CountInv
<1> QED
  BY <1>1, <1>2 DEF CountInv

\* r will not call again.
LEMMA DoneCounts ==
    ASSUME IInv, CountInv, NEW r \in Requests, \A q \in Requests \ {r} : Stays(q),
           NEW stage \in {"streaming", "returning"}, Done(r, stage)
    PROVE  CountInv'
<1>1. /\ pc'[r] = stage /\ attempt'[r] = 0 /\ calls'[r] = 0
      /\ attempt' = [attempt EXCEPT ![r] = 0] /\ calls' = [calls EXCEPT ![r] = 0]
      /\ gone' \subseteq Requests
  BY DEF Done, Move, IInv, Types, CountInv
<1>2. AttemptFits(r)' /\ HandFits(r)' /\ CallsFit(r)'
  BY <1>1 DEF AttemptFits, HandFits, CallsFit, Over, Trying
<1>3. 0 \in Nat
  OBVIOUS
<1> QED
  BY <1>1, <1>2, <1>3, OthersCount

LEMMA RefusedCounts ==
    ASSUME IInv, CountInv, NEW r \in Requests, \A q \in Requests \ {r} : Stays(q),
           pc[r] \in {"entering", "queued"}, Refused(r), UNCHANGED <<first, at>>
    PROVE  CountInv'
<1>1. CASE OnFirst(r)
  <2>1. Done(r, "returning")
    BY <1>1 DEF Refused
  <2> QED
    BY <2>1, DoneCounts
<1>2. CASE ~ OnFirst(r)
  <2>1. /\ pc'[r] = "choosing" /\ UNCHANGED <<untried, attempt, calls, gone, first, at>>
    BY <1>2, OfRequest DEF Refused, Move
  <2>2. /\ attempt[r] = 0 /\ calls'[r] \in Nat
        /\ attempt' = [attempt EXCEPT ![r] = 0]
        /\ calls' = [calls EXCEPT ![r] = calls[r]]
    BY <2>1, OfRequest DEF AttemptFits, CountInv
  <2>3. Left(r)' \subseteq Left(r) /\ Spare(r)' = 0 /\ Spare(r) \in {0, 1}
    BY <1>2, <2>1 DEF Left, AtHand, Ahead, CallsAt, Spare, OnFirst, Trying, Early
  <2>4. CallsFit(r)'
    BY <2>1, <2>2, <2>3, Spent DEF Over
  <2>5. AttemptFits(r)' /\ HandFits(r)' /\ gone' \subseteq Requests
    BY <2>1, <2>2 DEF AttemptFits, HandFits, Trying, CountInv
  <2>6. calls[r] \in Nat /\ 0 \in Nat
    BY OfRequest
  <2> QED
    BY <2>2, <2>4, <2>5, <2>6, OthersCount
<1> QED
  BY <1>1, <1>2

\* The first call at a provider.
LEMMA CallCounts ==
    ASSUME IInv, CountInv, NEW r \in Requests, \A q \in Requests \ {r} : Stays(q),
           pc[r] \in {"entering", "queued"}, Move(r, "calling"), CallUpstream(r),
           UNCHANGED <<first, at, untried, attempt, gone>>
    PROVE  CountInv'
<1>1. /\ pc'[r] = "calling" /\ calls' = [calls EXCEPT ![r] = calls[r] + 1]
      /\ calls'[r] = calls[r] + 1 /\ calls[r] + 1 \in Nat
      /\ attempt[r] = 0 /\ at[r] \in Providers /\ Attempts[at[r]] \in Nat
  <2>1. calls' = [calls EXCEPT ![r] = calls[r] + 1] /\ calls'[r] = calls[r] + 1
    BY DEF CallUpstream, CountInv
  <2> QED
    BY <2>1, OfRequest DEF Move, AttemptFits
<1>2. Left(r)' \subseteq Left(r) /\ Spare(r)' = Spare(r) /\ Spare(r) \in {0, 1}
  BY <1>1 DEF Left, AtHand, Ahead, CallsAt, Spare, OnFirst, Trying, Early
<1>3. <<at[r], 0>> \in Left(r)
  BY <1>1 DEF Left, AtHand, Trying
<1>4. at[r] \notin Ahead(r)' /\ HandFits(r)'
  <2>1. Ahead(r)' = Ahead(r)
    BY <1>1 DEF Ahead, OnFirst, Early, Trying
  <2> QED
    BY <2>1, OfRequest DEF HandFits, Trying
<1>5. <<at[r], 0>> \notin Left(r)'
  <2>1. <<at[r], 0>> \notin AtHand(r)'
    BY <1>1 DEF AtHand
  <2>3. <<at[r], 0>> \notin CallsAt(Ahead(r)')
    BY <1>4 DEF CallsAt
  <2> QED
    BY <2>1, <2>3 DEF Left, CallsAt
<1>6. AttemptFits(r)'
  BY <1>1 DEF AttemptFits
<1>7. CallsFit(r)'
  BY <1>1, <1>2, <1>3, <1>5, Spent DEF Over
<1>8. attempt' = [attempt EXCEPT ![r] = 0] /\ gone' \subseteq Requests /\ 0 \in Nat
  BY <1>1 DEF CountInv
<1> QED
  BY <1>1, <1>4, <1>6, <1>7, <1>8, OthersCount

\* A step of r that calls nobody, within or between the stages of a request
\* that is not over.
LEMMA UncalledCounts ==
    ASSUME IInv, CountInv, NEW r \in Requests, \A q \in Requests \ {r} : Stays(q),
           pc[r] \notin Over, pc'[r] \notin Over,
           NEW n \in Nat, attempt' = [attempt EXCEPT ![r] = n], AttemptFits(r)',
           Left(r)' \subseteq Left(r), Spare(r)' <= Spare(r), HandFits(r)',
           UNCHANGED calls, gone' \subseteq Requests
    PROVE  CountInv'
<1>1. /\ calls'[r] = calls[r] /\ calls[r] \in Nat
      /\ calls' = [calls EXCEPT ![r] = calls[r]]
  BY DEF CountInv
<1>2. Spare(r)' \in {0, 1}
  BY DEF Spare
<1>3. CallsFit(r)'
  BY <1>1, <1>2, Spent
<1> QED
  BY <1>1, <1>3, OthersCount

LEMMA JoinLineCounts ==
    ASSUME IInv, CountInv, NEW r \in Requests, \A q \in Requests \ {r} : Stays(q),
           JoinLine(r)
    PROVE  CountInv'
<1>1. /\ pc[r] = "entering" /\ pc'[r] = "queued"
      /\ UNCHANGED <<first, at, untried, attempt, calls, gone>>
  BY OfRequest DEF JoinLine, Move
<1>2. /\ attempt[r] = 0 /\ attempt' = [attempt EXCEPT ![r] = 0] /\ 0 \in Nat
      /\ AttemptFits(r)' /\ gone' \subseteq Requests
  BY <1>1, OfRequest DEF AttemptFits, CountInv
<1>3. Left(r)' = Left(r) /\ Spare(r)' = Spare(r) /\ HandFits(r)'
  BY <1>1, OfRequest
  DEF Left, AtHand, Ahead, CallsAt, Spare, HandFits, OnFirst, Trying, Early
<1>4. pc[r] \notin Over /\ pc'[r] \notin Over /\ Spare(r)' <= Spare(r)
  BY <1>1, <1>3 DEF Over, Spare
<1> QED
  BY <1>1, <1>2, <1>3, <1>4, UncalledCounts

\* The last attempt at a provider was of no use.
LEMMA Leave429Counts ==
    ASSUME IInv, CountInv, NEW r \in Requests, \A q \in Requests \ {r} : Stays(q),
           pc[r] \in {"calling", "backoff"},
           Leave429(r, IF OnFirst(r) THEN "failing" ELSE "choosing"),
           UNCHANGED <<first, at, untried, calls, gone>>
    PROVE  CountInv'
<1>1. /\ pc'[r] = IF OnFirst(r) THEN "failing" ELSE "choosing"
      /\ attempt' = [attempt EXCEPT ![r] = 0] /\ attempt'[r] = 0 /\ 0 \in Nat
  BY OfRequest DEF Leave429, Move, CountInv
<1>2. Left(r)' \subseteq Left(r) /\ Spare(r)' = 0 /\ Spare(r) \in {0, 1}
  BY <1>1 DEF Left, AtHand, Ahead, CallsAt, Spare, OnFirst, Trying, Early
<1>3. AttemptFits(r)' /\ HandFits(r)'
  BY <1>1 DEF AttemptFits, HandFits, Trying
<1>4. /\ pc[r] \notin Over /\ pc'[r] \notin Over /\ Spare(r)' <= Spare(r)
      /\ gone' \subseteq Requests
  BY <1>1, <1>2 DEF Over, CountInv
<1> QED
  BY <1>1, <1>2, <1>3, <1>4, UncalledCounts

LEMMA TooManyRequestsCounts ==
    ASSUME IInv, CountInv, NEW r \in Requests, \A q \in Requests \ {r} : Stays(q),
           TooManyRequests(r)
    PROVE  CountInv'
<1>1. /\ pc[r] = "calling" /\ pc'[r] = "backoff"
      /\ attempt' = [attempt EXCEPT ![r] = attempt[r] + 1]
      /\ attempt'[r] = attempt[r] + 1 /\ attempt[r] + 1 \in Nat
      /\ attempt[r] < Attempts[at[r]]
      /\ UNCHANGED <<first, at, untried, calls, gone>>
  BY OfRequest DEF TooManyRequests, Move, CountInv
<1>2. AttemptFits(r)'
  BY <1>1, OfRequest DEF AttemptFits
<1>3. Left(r)' = Left(r) /\ Spare(r)' = Spare(r) /\ HandFits(r)'
  BY <1>1, OfRequest
  DEF Left, AtHand, Ahead, CallsAt, Spare, HandFits, OnFirst, Trying, Early
<1>4. /\ pc[r] \notin Over /\ pc'[r] \notin Over /\ Spare(r)' <= Spare(r)
      /\ gone' \subseteq Requests
  BY <1>1, <1>3 DEF Over, Spare, CountInv
<1> QED
  BY <1>1, <1>2, <1>3, <1>4, UncalledCounts

LEMMA RetryAfterPauseCounts ==
    ASSUME IInv, CountInv, NEW r \in Requests, \A q \in Requests \ {r} : Stays(q),
           RetryAfterPause(r)
    PROVE  CountInv'
<1> DEFINE x == <<at[r], attempt[r]>>
<1>1. /\ pc[r] = "backoff" /\ pc'[r] = "calling"
      /\ calls' = [calls EXCEPT ![r] = calls[r] + 1]
      /\ calls'[r] = calls[r] + 1 /\ calls[r] + 1 \in Nat
      /\ UNCHANGED <<first, at, untried, attempt, gone>>
  BY OfRequest DEF RetryAfterPause, CallUpstream, Move, CountInv
<1>2. /\ attempt[r] \in Nat /\ Attempts[at[r]] \in Nat /\ attempt[r] <= Attempts[at[r]]
      /\ at[r] \notin Ahead(r) /\ AttemptFits(r)'
      /\ attempt' = [attempt EXCEPT ![r] = attempt[r]]
  BY <1>1, OfRequest DEF AttemptFits, HandFits, Trying, CountInv
<1>3. /\ Left(r)' \subseteq Left(r) /\ Ahead(r)' = Ahead(r)
      /\ Spare(r)' = Spare(r) /\ Spare(r) \in {0, 1}
  BY <1>1, <1>2 DEF Left, AtHand, Ahead, CallsAt, Spare, OnFirst, Trying, Early
<1>4. x \in Left(r)
  BY <1>1, <1>2 DEF Left, AtHand, Trying
<1>5. x \notin Left(r)'
  <2>1. x \notin AtHand(r)'
    BY <1>1, <1>2 DEF AtHand
  <2>2. x \notin CallsAt(Ahead(r)')
    BY <1>2, <1>3 DEF CallsAt
  <2> QED
    BY <2>1, <2>2 DEF Left, CallsAt
<1>6. CallsFit(r)'
  BY <1>1, <1>3, <1>4, <1>5, Spent DEF Over
<1>7. HandFits(r)' /\ gone' \subseteq Requests
  BY <1>1, <1>2, <1>3 DEF HandFits, CountInv
<1> QED
  BY <1>1, <1>2, <1>6, <1>7, OthersCount

\* The call of the rectifier is the spare one.
LEMMA FirstRejectsCounts ==
    ASSUME IInv, CountInv, NEW r \in Requests, \A q \in Requests \ {r} : Stays(q),
           FirstRejects(r)
    PROVE  CountInv'
<1>1. pc[r] = "calling" /\ OnFirst(r) /\ UNCHANGED <<first, at, untried, gone>>
  BY DEF FirstRejects
<1>2. CASE Leave429(r, "failing") /\ UNCHANGED calls
  BY <1>1, <1>2, Leave429Counts
<1>3. CASE Leave429(r, "rectifying") /\ CallUpstream(r)
  <2>1. /\ pc'[r] = "rectifying"
        /\ attempt' = [attempt EXCEPT ![r] = 0] /\ attempt'[r] = 0 /\ 0 \in Nat
        /\ calls' = [calls EXCEPT ![r] = calls[r] + 1]
        /\ calls'[r] = calls[r] + 1 /\ calls[r] + 1 \in Nat
    BY <1>3, OfRequest DEF Leave429, Move, CallUpstream, CountInv
  <2>2. Left(r)' \subseteq Left(r) /\ Spare(r)' = 0 /\ Spare(r) = 1
    BY <1>1, <2>1 DEF Left, AtHand, Ahead, CallsAt, Spare, OnFirst, Trying, Early
  <2>3. CallsFit(r)'
    BY <1>1, <2>1, <2>2, Spent DEF Over
  <2>4. AttemptFits(r)' /\ HandFits(r)' /\ gone' \subseteq Requests
    BY <1>1, <2>1 DEF AttemptFits, HandFits, Trying, CountInv
  <2> QED
    BY <2>1, <2>3, <2>4, OthersCount
<1> QED
  BY <1>2, <1>3 DEF FirstRejects

LEMMA RectifiedAnswerCounts ==
    ASSUME IInv, CountInv, NEW r \in Requests, \A q \in Requests \ {r} : Stays(q),
           RectifiedAnswer(r)
    PROVE  CountInv'
<1>1. CASE Done(r, "streaming")
  BY <1>1, DoneCounts
<1>2. CASE Move(r, "failing") /\ UNCHANGED <<untried, attempt, calls, gone>>
  <2>1. pc[r] = "rectifying" /\ pc'[r] = "failing" /\ UNCHANGED <<first, at>>
    BY <1>2, OfRequest DEF RectifiedAnswer, Move
  <2>2. /\ attempt[r] = 0 /\ attempt' = [attempt EXCEPT ![r] = 0] /\ 0 \in Nat
        /\ AttemptFits(r)' /\ HandFits(r)' /\ gone' \subseteq Requests
    BY <1>2, <2>1, OfRequest DEF AttemptFits, HandFits, Trying, CountInv
  <2>3. Left(r)' = Left(r) /\ Spare(r)' = 0 /\ Spare(r) = 0
    BY <1>2, <2>1 DEF Left, AtHand, Ahead, CallsAt, Spare, OnFirst, Trying, Early
  <2>4. pc[r] \notin Over /\ pc'[r] \notin Over /\ Spare(r)' <= Spare(r)
    BY <2>1, <2>3 DEF Over
  <2> QED
    BY <1>2, <2>2, <2>3, <2>4, UncalledCounts
<1> QED
  BY <1>1, <1>2 DEF RectifiedAnswer

\* The candidates are among the providers that were ahead.
LEMMA FailOverCounts ==
    ASSUME IInv, CountInv, NEW r \in Requests, \A q \in Requests \ {r} : Stays(q),
           FailOver(r)
    PROVE  CountInv'
<1>1. /\ pc[r] = "failing" /\ pc'[r] = "choosing"
      /\ untried'[r] \subseteq Providers \ {first[r]}
      /\ UNCHANGED <<first, at, attempt, calls, gone>>
  BY OfRequest DEF FailOver, Move, IInv, Types
<1>2. /\ attempt[r] = 0 /\ attempt' = [attempt EXCEPT ![r] = 0] /\ 0 \in Nat
      /\ AttemptFits(r)' /\ HandFits(r)' /\ gone' \subseteq Requests
  BY <1>1, OfRequest DEF AttemptFits, HandFits, Trying, CountInv
<1>3. Ahead(r) = Providers \ {first[r]} /\ Ahead(r)' = untried'[r]
  BY <1>1, OfRequest DEF PlaceFits, Ahead, Early, Trying
<1>4. Left(r)' \subseteq Left(r) /\ Spare(r)' = 0 /\ Spare(r) = 0
  BY <1>1, <1>3 DEF Left, AtHand, CallsAt, Spare, Trying
<1>5. pc[r] \notin Over /\ pc'[r] \notin Over /\ Spare(r)' <= Spare(r)
  BY <1>1, <1>4 DEF Over
<1> QED
  BY <1>1, <1>2, <1>4, <1>5, UncalledCounts

\* The next candidate is no longer ahead, but at hand.
LEMMA TryCandidateCounts ==
    ASSUME IInv, CountInv, NEW r \in Requests, \A q \in Requests \ {r} : Stays(q),
           TryCandidate(r)
    PROVE  CountInv'
<1>1. PICK c \in untried[r] : /\ at' = [at EXCEPT ![r] = c]
                              /\ untried' = [untried EXCEPT ![r] = @ \ {c}]
  BY DEF TryCandidate
<1>2. /\ pc[r] = "choosing" /\ pc'[r] = "entering"
      /\ at'[r] = c /\ untried'[r] = untried[r] \ {c} /\ c \in Providers
      /\ UNCHANGED <<first, attempt, calls, gone>>
  BY <1>1, OfRequest DEF TryCandidate, Move, IInv, Types
<1>3. /\ attempt[r] = 0 /\ attempt' = [attempt EXCEPT ![r] = 0] /\ 0 \in Nat
      /\ AttemptFits(r)' /\ gone' \subseteq Requests
  BY <1>2, OfRequest DEF AttemptFits, CountInv
<1>4. Ahead(r) = untried[r] /\ Ahead(r)' = untried[r] \ {c} /\ c # first'[r]
  BY <1>2, OfRequest DEF PlaceFits, Ahead, OnFirst, Early, Trying
<1>5. /\ AtHand(r) = {} /\ AtHand(r)' = {<<c, k>> : k \in 0 .. Attempts[c]}
      /\ Spare(r)' = 0 /\ Spare(r) = 0 /\ HandFits(r)'
  BY <1>2, <1>3, <1>4 DEF AtHand, Spare, HandFits, OnFirst, Trying
<1>6. AtHand(r)' \subseteq CallsAt(untried[r])
  BY <1>5 DEF CallsAt
<1>7. CallsAt(Ahead(r)') \subseteq CallsAt(untried[r])
  BY <1>4 DEF CallsAt
<1>8. Left(r)' \subseteq Left(r)
  BY <1>4, <1>6, <1>7 DEF Left, CallsAt
<1>9. pc[r] \notin Over /\ pc'[r] \notin Over /\ Spare(r)' <= Spare(r)
  BY <1>2, <1>5 DEF Over
<1> QED
  BY <1>2, <1>3, <1>5, <1>8, <1>9, UncalledCounts

\* Every call is still to come.
LEMMA ArriveCounts ==
    ASSUME IInv, CountInv, NEW r \in Requests, \A q \in Requests \ {r} : Stays(q),
           Arrive(r)
    PROVE  CountInv'
<1>1. PICK p \in Providers : /\ first' = [first EXCEPT ![r] = p]
                             /\ at' = [at EXCEPT ![r] = p]
  BY RequestPathAssumption DEF Arrive
<1>2. /\ pc[r] = "idle" /\ pc'[r] = "entering" /\ first'[r] = p /\ at'[r] = p
      /\ UNCHANGED <<untried, attempt, calls, gone>>
  BY <1>1, OfRequest DEF Arrive, Move, IInv, Types
<1>3. /\ attempt[r] = 0 /\ attempt' = [attempt EXCEPT ![r] = 0] /\ 0 \in Nat
      /\ calls[r] = 0 /\ calls' = [calls EXCEPT ![r] = 0]
      /\ AttemptFits(r)' /\ gone' \subseteq Requests
  BY <1>2, OfRequest DEF AttemptFits, CallsFit, Over, CountInv
<1>4. Ahead(r)' = Providers \ {p} /\ Spare(r)' = 1 /\ HandFits(r)'
  BY <1>2 DEF Ahead, Spare, HandFits, OnFirst, Early, Trying
<1>5. Left(r)' \subseteq CallsAt(Providers)
  BY <1>2, <1>3, <1>4 DEF Left, AtHand, CallsAt
<1>6. /\ Cardinality(Left(r)') \in Nat
      /\ Cardinality(Left(r)') <= Cardinality(CallsAt(Providers))
      /\ Cardinality(CallsAt(Providers)) \in Nat
  BY <1>5, CallsAtProps, FS_Subset, FS_CardinalityType
<1>7. CallsFit(r)'
  BY <1>2, <1>3, <1>4, <1>6, CallsAtProps DEF CallsFit, Over
<1> QED
  BY <1>3, <1>4, <1>7, OthersCount

\* r is and stays over.
LEMMA OverCounts ==
    ASSUME IInv, CountInv, NEW r \in Requests, \A q \in Requests \ {r} : Stays(q),
           pc[r] \in {"streaming", "returning"}, pc'[r] \in Over,
           UNCHANGED <<attempt, calls, gone>>
    PROVE  CountInv'
<1>1. /\ attempt[r] = 0 /\ attempt' = [attempt EXCEPT ![r] = 0] /\ 0 \in Nat
      /\ calls[r] = 0 /\ calls' = [calls EXCEPT ![r] = 0]
      /\ gone' \subseteq Requests
  BY OfRequest DEF AttemptFits, CallsFit, Over, CountInv
<1>2. AttemptFits(r)' /\ HandFits(r)' /\ CallsFit(r)'
  BY <1>1 DEF AttemptFits, HandFits, CallsFit, Over, Trying
<1> QED
  BY <1>1, <1>2, OthersCount

LEMMA StandStillCounts ==
    ASSUME IInv, CountInv, UNCHANGED <<pc, first, at, untried, attempt, calls>>,
           gone' \subseteq Requests
    PROVE  CountInv'
<1>1. ASSUME NEW q \in Requests PROVE AttemptFits(q)' /\ HandFits(q)' /\ CallsFit(q)'
  <2>1. Ahead(q)' = Ahead(q) /\ Spare(q)' = Spare(q)
    BY DEF Ahead, Spare, OnFirst
  <2>2. Left(q)' = Left(q)
    BY <2>1 DEF Left, AtHand, CallsAt
  <2> QED
    BY <2>1, <2>2, OfRequest DEF AttemptFits, HandFits, CallsFit
<1> QED
  BY <1>1 DEF CountInv

LEMMA OthersStay ==
    ASSUME IInv, NEW r \in Requests,
           Arrive(r) \/ TransformFails(r) \/ Progress(r)
    PROVE  \A q \in Requests \ {r} : Stays(q)
<1> TAKE q \in Requests \ {r}
<1>1. /\ pc \in [Requests -> Stages]
      /\ first \in [Requests -> Providers \union {Nobody}]
      /\ at \in [Requests -> Providers \union {Nobody}]
      /\ untried \in [Requests -> SUBSET Providers]
  BY DEF IInv, Types
<1>2. ASSUME NEW stage, Move(r, stage) PROVE pc'[q] = pc[q]
  BY <1>1, <1>2 DEF Move
<1>3. ASSUME NEW stage, Done(r, stage) PROVE pc'[q] = pc[q] /\ untried'[q] = untried[q]
  BY <1>1, <1>2, <1>3 DEF Done
<1>4. ASSUME Refused(r) PROVE pc'[q] = pc[q] /\ untried'[q] = untried[q]
  BY <1>2, <1>3, <1>4 DEF Refused
<1>5. CASE Arrive(r)
  BY <1>1, <1>2, <1>5 DEF Arrive, Stays
<1>6. CASE TransformFails(r) \/ RefusedAtOnce(r) \/ GiveUp(r)
  BY <1>4, <1>6 DEF TransformFails, RefusedAtOnce, GiveUp, Stays
<1>7. CASE EnterUnlimited(r) \/ TakeSlot(r) \/ JoinLine(r) \/ Granted(r)
  BY <1>2, <1>7 DEF EnterUnlimited, TakeSlot, JoinLine, Granted, Stays
<1>8. CASE CallFails(r) \/ TooManyRequests(r) \/ RetryAfterPause(r) \/ CandidateRejects(r)
  BY <1>2, <1>8
  DEF CallFails, DropCandidate, Leave429, TooManyRequests, RetryAfterPause,
      CandidateRejects, Stays
<1>9. CASE FirstAnswers(r) \/ CandidateAnswers(r)
  BY <1>3, <1>9 DEF FirstAnswers, CandidateAnswers, Stays
<1>10. CASE FirstRejects(r)
  BY <1>2, <1>10 DEF FirstRejects, Leave429, Stays
<1>11. CASE RectifiedAnswer(r)
  BY <1>2, <1>3, <1>11 DEF RectifiedAnswer, Stays
<1>12. CASE FailOver(r) \/ TryCandidate(r)
  BY <1>1, <1>2, <1>12 DEF FailOver, TryCandidate, Stays
<1>13. CASE PassFailureOn(r)
  BY <1>1, <1>3, <1>13 DEF PassFailureOn, Stays
<1>14. CASE StreamEnds(r) \/ RunDeferred(r) \/ Return(r)
  BY <1>1, <1>2, <1>14 DEF StreamEnds, RunDeferred, Return, Stays
<1> QED
  BY <1>5, <1>6, <1>7, <1>8, <1>9, <1>10, <1>11, <1>12, <1>13, <1>14 DEF Progress

LEMMA NextCounts == IInv /\ CountInv /\ [Next]_vars => CountInv'
<1>1. ASSUME IInv, CountInv, NEW r \in Requests,
             Arrive(r) \/ TransformFails(r) \/ Progress(r)
      PROVE  CountInv'
  <2>1. \A q \in Requests \ {r} : Stays(q)
    BY <1>1, OthersStay
  <2>2. CASE Arrive(r)
    BY <1>1, <2>1, <2>2, ArriveCounts
  <2>3. CASE TransformFails(r) \/ RefusedAtOnce(r) \/ GiveUp(r)
    BY <1>1, <2>1, <2>3, RefusedCounts DEF TransformFails, RefusedAtOnce, GiveUp
  <2>4. CASE EnterUnlimited(r) \/ TakeSlot(r) \/ Granted(r)
    BY <1>1, <2>1, <2>4, CallCounts DEF EnterUnlimited, TakeSlot, Granted
  <2>5. CASE JoinLine(r)
    BY <1>1, <2>1, <2>5, JoinLineCounts
  <2>6. CASE CallFails(r) \/ CandidateRejects(r)
    <3>1. /\ pc[r] \in {"calling", "backoff"}
          /\ UNCHANGED <<first, at, untried, calls, gone>>
          /\ Leave429(r, IF OnFirst(r) THEN "failing" ELSE "choosing")
      BY <2>6 DEF CallFails, CandidateRejects, DropCandidate
    <3> QED
      BY <1>1, <2>1, <3>1, Leave429Counts
  <2>7. CASE TooManyRequests(r) \/ RetryAfterPause(r)
    BY <1>1, <2>1, <2>7, TooManyRequestsCounts, RetryAfterPauseCounts
  <2>8. CASE FirstAnswers(r) \/ CandidateAnswers(r)
    BY <1>1, <2>1, <2>8, DoneCounts DEF FirstAnswers, CandidateAnswers
  <2>9. CASE FirstRejects(r) \/ RectifiedAnswer(r)
    BY <1>1, <2>1, <2>9, FirstRejectsCounts, RectifiedAnswerCounts
  <2>10. CASE FailOver(r) \/ TryCandidate(r)
    BY <1>1, <2>1, <2>10, FailOverCounts, TryCandidateCounts
  <2>11. CASE PassFailureOn(r)
    <3>1. \E stage \in {"streaming", "returning"} : Done(r, stage)
      BY <2>11 DEF PassFailureOn
    <3> QED
      BY <1>1, <2>1, <3>1, DoneCounts
  <2>12. CASE StreamEnds(r) \/ RunDeferred(r) \/ Return(r)
    <3>1. /\ pc[r] \in {"streaming", "returning"} /\ pc'[r] \in Over
          /\ UNCHANGED <<attempt, calls, gone>>
      BY <1>1, <2>12, OfRequest DEF StreamEnds, RunDeferred, Return, Move, Over
    <3> QED
      BY <1>1, <2>1, <3>1, OverCounts
  <2> QED
    BY <1>1, <2>2, <2>3, <2>4, <2>5, <2>6, <2>7, <2>8, <2>9, <2>10, <2>11, <2>12
    DEF Progress
<1>2. ASSUME IInv, CountInv, NEW r \in Requests, ClientLeaves(r) PROVE CountInv'
  BY <1>2, StandStillCounts DEF ClientLeaves, CountInv
<1>3. ASSUME IInv, CountInv, UNCHANGED vars PROVE CountInv'
  BY <1>3, StandStillCounts DEF vars, request, CountInv
<1> QED
  BY <1>1, <1>2, <1>3 DEF Next

LEMMA InitCounts == Init => CountInv
<1> SUFFICES ASSUME Init PROVE CountInv
  OBVIOUS
<1>1. \A r \in Requests : pc[r] = "idle" /\ attempt[r] = 0 /\ calls[r] = 0
  BY DEF Init
<1>2. \A r \in Requests : AttemptFits(r) /\ HandFits(r) /\ CallsFit(r)
  BY <1>1 DEF AttemptFits, HandFits, CallsFit, Trying, Over
<1>3. attempt \in [Requests -> Nat] /\ calls \in [Requests -> Nat] /\ gone = {}
  BY DEF Init
<1> QED
  BY <1>2, <1>3 DEF CountInv

\* Never more calls for a request than one and its retries at each provider,
\* and one of the rectifier: retries, replays and the rectifier do not multiply
\* (retry429.go:82-130, handler.go:266, 524).
THEOREM TypeCorrect == Spec => []TypeOK
<1>1. Spec => [](IInv /\ CountInv)
  BY InitIInv, NextKeeps, InitCounts, NextCounts, PTL DEF Spec
<1>2. IInv /\ CountInv => TypeOK
  <2> SUFFICES ASSUME IInv, CountInv PROVE TypeOK
    OBVIOUS
  <2>1. ASSUME NEW r \in Requests
        PROVE  attempt[r] \in 0 .. (IF at[r] = Nobody THEN 0 ELSE Attempts[at[r]])
    <3>1. PlaceFits(r) /\ AttemptFits(r) /\ attempt[r] \in Nat
      BY OfRequest
    <3>2. at[r] # Nobody => at[r] \in Providers /\ Attempts[at[r]] \in Nat
      BY RequestPathAssumption DEF IInv, Types
    <3>3. pc[r] \in {"calling", "backoff"} => at[r] # Nobody
      BY <3>1, RequestPathAssumption DEF PlaceFits
    <3> QED
      BY <3>1, <3>2, <3>3 DEF AttemptFits
  <2>2. ASSUME NEW r \in Requests PROVE calls[r] \in 0 .. MaxCalls
    <3>1. CallsFit(r) /\ calls[r] \in Nat /\ MaxCalls \in Nat
      BY OfRequest, CallsAtProps
    <3>2. CASE pc[r] \in Over
      BY <3>1, <3>2 DEF CallsFit
    <3>3. CASE pc[r] \notin Over
      <4>1. Cardinality(Left(r)) \in Nat /\ Spare(r) \in {0, 1}
        BY <3>3, LeftProps DEF Over
      <4> QED
        BY <3>1, <3>3, <4>1 DEF CallsFit
    <3> QED
      BY <3>2, <3>3
  <2>3. calls \in [Requests -> 0 .. MaxCalls]
    BY <2>2 DEF CountInv
  <2> QED
    BY <2>1, <2>3 DEF TypeOK, IInv, Types, CountInv
<1> QED
  BY <1>1, <1>2, PTL

===============================================================================
