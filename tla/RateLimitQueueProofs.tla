------------------------- MODULE RateLimitQueueProofs -------------------------
(***************************************************************************)
(* The safety of RateLimitQueue for any set of callers, any limits and any *)
(* queue sizes.  The counter, the line and the tokens are only right       *)
(* together, so their invariants are proved as one.                        *)
(***************************************************************************)
EXTENDS RateLimitQueue, SequenceTheorems, FiniteSetTheorems, TLAPS

\* Callers that passed getOrCreate with a positive limit have set it in the
\* queue, and no later caller sets it to zero.
LimitKnown ==
    (\E c \in Callers : pc[c] \notin {"out", "bypass"}) => maxConcurrent > 0

IInv ==
    /\ TypeOK
    /\ SlotConservation
    /\ NoLostWakeup
    /\ LineAgreesWithCallers
    /\ LimitKnown

\* The holders are callers, so they can be counted.
LEMMA HoldersFinite ==
    ASSUME TypeOK
    PROVE  IsFiniteSet(Holders) /\ Holders \subseteq Callers /\ Cardinality(Holders) \in Nat
<1>1. Holders \subseteq Callers
  BY DEF TypeOK, Holders
<1>2. IsFiniteSet(Holders)
  BY <1>1, RateLimitAssumption, FS_Subset
<1>3. QED
  BY <1>1, <1>2, FS_CardinalityType

LEMMA InitIInv == Init => IInv
<1> SUFFICES ASSUME Init PROVE IInv
  OBVIOUS
<1>1. TypeOK /\ NoLostWakeup /\ LimitKnown
  BY DEF Init, TypeOK, Places, NoLostWakeup, LimitKnown
<1>2. Holders = {}
  BY DEF Init, Holders
<1>3. SlotConservation
  BY <1>2, FS_EmptySet DEF SlotConservation, Init
<1>4. LineAgreesWithCallers
  BY DEF Init, LineAgreesWithCallers, InLine
<1> QED
  BY <1>1, <1>3, <1>4 DEF IInv

\* A caller that turns into a holder adds one to the count.
LEMMA HolderAdded ==
    ASSUME IInv, TypeOK', NEW c \in Callers, c \notin Holders,
           Holders' = Holders \union {c}, active' = active + 1
    PROVE  SlotConservation'
<1>1. Cardinality(Holders \union {c}) = Cardinality(Holders) + 1
  BY HoldersFinite, FS_AddElement DEF IInv
<1> QED
  BY <1>1 DEF IInv, SlotConservation

\* A caller that stops being one takes one off.
LEMMA HolderRemoved ==
    ASSUME IInv, NEW c \in Callers, c \in Holders,
           Holders' = Holders \ {c}, active' = active - 1
    PROVE  SlotConservation'
<1>1. Cardinality(Holders \ {c}) = Cardinality(Holders) - 1
  BY HoldersFinite, FS_RemoveElement DEF IInv
<1> QED
  BY <1>1 DEF IInv, SlotConservation

\* A release that hands its slot on leaves the count as it is.
LEMMA HolderReplaced ==
    ASSUME IInv, NEW c \in Callers, NEW d \in Callers, c \in Holders, d \notin Holders,
           Holders' = (Holders \ {c}) \union {d}, UNCHANGED active
    PROVE  SlotConservation'
<1>1. Cardinality(Holders \ {c}) = Cardinality(Holders) - 1 /\ IsFiniteSet(Holders \ {c})
  BY HoldersFinite, FS_RemoveElement DEF IInv
<1>2. Cardinality((Holders \ {c}) \union {d}) = Cardinality(Holders \ {c}) + 1
  BY <1>1, FS_AddElement
<1>3. Cardinality(Holders) \in Nat
  BY HoldersFinite DEF IInv
<1> QED
  BY <1>1, <1>2, <1>3 DEF IInv, SlotConservation

\* A caller in the line is blocked in acquire and is no holder.
LEMMA WaiterIsNoHolder ==
    ASSUME IInv, NEW i \in DOMAIN waiters
    PROVE  /\ waiters[i] \in Callers
           /\ waiters[i] \notin Holders
           /\ pc[waiters[i]] \in {"queued", "departing"}
<1>1. waiters[i] \in Callers /\ InLine(waiters[i])
  BY DEF IInv, TypeOK, InLine
<1> QED
  BY <1>1 DEF IInv, LineAgreesWithCallers, Holders

\* A holder that is forwarding proves the counter positive.
LEMMA ServingCounted ==
    ASSUME IInv, NEW c \in Callers, c \in Holders
    PROVE  active > 0
<1>1. Cardinality(Holders) # 0
  BY HoldersFinite, FS_EmptySet DEF IInv
<1> QED
  BY <1>1, HoldersFinite DEF IInv, SlotConservation

-------------------------------------------------------------------------------
(***************************************************************************)
(* One lemma per action that touches the queue, each step of its proof one *)
(* conjunct the action can disturb.                                        *)
(***************************************************************************)
LEMMA QuietSteps ==
    ASSUME IInv, NEW c \in Callers,
           \/ AcquireUnlimited(c) \/ GetOrCreate(c) \/ RefuseFull(c)
           \/ ContextDone(c) \/ GiveUp(c) \/ ReleaseUnlimited(c)
    PROVE  IInv'
<1> USE DEF AcquireUnlimited, GetOrCreate, RefuseFull, ContextDone, GiveUp,
            ReleaseUnlimited, MoveTo, queue
<1>1. TypeOK'
  BY RateLimitAssumption DEF IInv, TypeOK, Places, Settings
<1>2. UNCHANGED <<active, waiters, ready>> /\ maxConcurrent' >= 0
  BY <1>1 DEF TypeOK
<1>3. Holders' = Holders
  BY <1>2 DEF IInv, TypeOK, Holders
<1>4. SlotConservation' /\ NoLostWakeup'
  BY <1>2, <1>3 DEF IInv, SlotConservation, NoLostWakeup
<1>5. LineAgreesWithCallers'
  BY <1>2 DEF IInv, TypeOK, LineAgreesWithCallers, InLine
<1>6. LimitKnown'
  BY RateLimitAssumption DEF IInv, TypeOK, LimitKnown, Settings
<1> QED
  BY <1>1, <1>4, <1>5, <1>6 DEF IInv

LEMMA TakeFreeSlotStep ==
    ASSUME IInv, NEW c \in Callers, TakeFreeSlot(c)
    PROVE  IInv'
<1> USE DEF TakeFreeSlot, MoveTo
<1>1. TypeOK'
  BY DEF IInv, TypeOK, Places
<1>2. c \notin Holders
  BY DEF IInv, LineAgreesWithCallers, Holders
<1>3. Holders' = Holders \union {c}
  BY DEF IInv, TypeOK, Holders
<1>4. SlotConservation'
  BY <1>1, <1>2, <1>3, HolderAdded
<1>5. NoLostWakeup' /\ LimitKnown'
  BY DEF IInv, TypeOK, NoLostWakeup, LimitKnown
<1>6. LineAgreesWithCallers'
  BY DEF IInv, TypeOK, LineAgreesWithCallers, InLine
<1> QED
  BY <1>1, <1>4, <1>5, <1>6 DEF IInv

\* The waiter joins only when every slot is taken or others wait already, so
\* somebody owns a slot.
LEMMA JoinLineStep ==
    ASSUME IInv, NEW c \in Callers, JoinLine(c)
    PROVE  IInv'
<1> USE DEF JoinLine, MoveTo
<1>1. TypeOK'
  BY DEF IInv, TypeOK, Places
<1>2. Holders' = Holders
  BY DEF IInv, TypeOK, Holders
<1>3. SlotConservation'
  BY <1>2 DEF IInv, SlotConservation
<1>4. maxConcurrent > 0
  BY DEF IInv, LimitKnown
<1>5. active > 0
  BY <1>4 DEF IInv, TypeOK, NoLostWakeup, CannotTakeSlot
<1>6. NoLostWakeup' /\ LimitKnown'
  BY <1>4, <1>5 DEF NoLostWakeup, LimitKnown
<1>7. ~ InLine(c) /\ c \notin ready
  BY DEF IInv, LineAgreesWithCallers
<1>8. /\ DOMAIN waiters' = 1..Len(waiters) + 1
      /\ DOMAIN waiters = 1..Len(waiters)
      /\ Len(waiters) \in Nat
      /\ \A i \in DOMAIN waiters : waiters'[i] = waiters[i]
      /\ waiters'[Len(waiters) + 1] = c
  BY DEF IInv, TypeOK
<1>9. \A d \in Callers : InLine(d)' <=> InLine(d) \/ d = c
  BY <1>8 DEF InLine
<1>10. \A i, j \in DOMAIN waiters' : waiters'[i] = waiters'[j] => i = j
  BY <1>7, <1>8 DEF IInv, LineAgreesWithCallers, InLine
<1>11. LineAgreesWithCallers'
  BY <1>7, <1>9, <1>10 DEF IInv, TypeOK, LineAgreesWithCallers
<1> QED
  BY <1>1, <1>3, <1>6, <1>11 DEF IInv

LEMMA GrantedStep ==
    ASSUME IInv, NEW c \in Callers, Granted(c)
    PROVE  IInv'
<1> USE DEF Granted, MoveTo
<1>1. TypeOK'
  BY DEF IInv, TypeOK, Places
<1>2. Holders' = Holders
  BY DEF IInv, TypeOK, Holders
<1>3. SlotConservation' /\ NoLostWakeup' /\ LimitKnown'
  BY <1>2 DEF IInv, SlotConservation, NoLostWakeup, LimitKnown
<1>4. LineAgreesWithCallers'
  BY DEF IInv, TypeOK, LineAgreesWithCallers, InLine
<1> QED
  BY <1>1, <1>3, <1>4 DEF IInv

(***************************************************************************)
(* What taking one entry out of a list does to it: the lemmas behind       *)
(* tryDepart's `append(q.waiters[:i], q.waiters[i+1:]...)`.                *)
(***************************************************************************)
TakenOut(s, k) == SubSeq(s, 1, k - 1) \o SubSeq(s, k + 1, Len(s))

\* Where the i-th entry of the shorter list was before.
Origin(k, i) == IF i < k THEN i ELSE i + 1

\* Where an entry other than the k-th is afterwards.
Image(k, j) == IF j < k THEN j ELSE j - 1

\* Positions move without two of them falling together.
LEMMA OriginProperties ==
    ASSUME NEW n \in Nat, NEW k \in 1..n, NEW i \in 1..n - 1
    PROVE  /\ Origin(k, i) \in 1..n
           /\ Origin(k, i) # k
           /\ \A j \in 1..n - 1 : Origin(k, i) = Origin(k, j) => i = j
BY DEF Origin

LEMMA ImageProperties ==
    ASSUME NEW n \in Nat, NEW k \in 1..n, NEW j \in 1..n, j # k
    PROVE  Image(k, j) \in 1..n - 1 /\ Origin(k, Image(k, j)) = j
BY DEF Origin, Image

\* The shorter list, entry by entry.
LEMMA TakenOutEntries ==
    ASSUME NEW S, NEW s \in Seq(S), NEW k \in 1..Len(s)
    PROVE  /\ TakenOut(s, k) \in Seq(S)
           /\ Len(TakenOut(s, k)) = Len(s) - 1
           /\ \A i \in 1..Len(s) - 1 : TakenOut(s, k)[i] = s[Origin(k, i)]
<1> DEFINE n == Len(s)
           front == SubSeq(s, 1, k - 1)
           back == SubSeq(s, k + 1, n)
<1>1. n \in Nat /\ k \in 1..n /\ \A i \in 1..n : s[i] \in S
  OBVIOUS
<1>2. TakenOut(s, k) = front \o back
  BY DEF TakenOut
<1>3. /\ front \in Seq(S) /\ Len(front) = k - 1
      /\ \A i \in 1..k - 1 : front[i] = s[i]
  <2>1. /\ front \in Seq(S)
        /\ Len(front) = IF 1 <= k - 1 THEN (k - 1) - 1 + 1 ELSE 0
        /\ \A i \in 1..(k - 1) - 1 + 1 : front[i] = s[1 + i - 1]
    BY <1>1, SubSeqProperties
  <2> HIDE DEF n, front
  <2> QED
    BY <1>1, <2>1
<1>4. /\ back \in Seq(S) /\ Len(back) = n - k
      /\ \A i \in 1..n - k : back[i] = s[k + i]
  <2>1. /\ back \in Seq(S)
        /\ Len(back) = IF k + 1 <= n THEN n - (k + 1) + 1 ELSE 0
        /\ \A i \in 1..n - (k + 1) + 1 : back[i] = s[(k + 1) + i - 1]
    BY <1>1, SubSeqProperties
  <2> HIDE DEF n, back
  <2> QED
    BY <1>1, <2>1
<1> HIDE DEF n, front, back
<1>5. /\ front \o back \in Seq(S)
      /\ Len(front \o back) = Len(front) + Len(back)
      /\ \A i \in 1..Len(front) + Len(back) : (front \o back)[i] =
            IF i <= Len(front) THEN front[i] ELSE back[i - Len(front)]
  BY <1>3, <1>4, ConcatProperties
<1>6. Len(front) + Len(back) = n - 1
  BY <1>1, <1>3, <1>4
<1>7. ASSUME NEW i \in 1..n - 1 PROVE (front \o back)[i] = s[Origin(k, i)]
  <2>1. (front \o back)[i] = IF i <= k - 1 THEN front[i] ELSE back[i - (k - 1)]
    BY <1>3, <1>5, <1>6
  <2>2. CASE i < k
    <3>1. i \in 1..k - 1 /\ i <= k - 1
      BY <1>1, <2>2
    <3> QED
      BY <1>3, <2>1, <2>2, <3>1 DEF Origin
  <2>3. CASE ~(i < k)
    <3>1. i - (k - 1) \in 1..n - k /\ ~(i <= k - 1) /\ k + (i - (k - 1)) = i + 1
      BY <1>1, <2>3
    <3> QED
      BY <1>4, <2>1, <2>3, <3>1 DEF Origin
  <2> QED
    BY <2>2, <2>3
<1> QED
  BY <1>2, <1>5, <1>6, <1>7 DEF n

Distinct(s) == \A i, j \in 1..Len(s) : s[i] = s[j] => i = j

Entries(s) == {s[i] : i \in 1..Len(s)}

\* It has no entry twice if the longer one had none, and it has lost exactly
\* the k-th entry.
LEMMA TakenOutProperties ==
    ASSUME NEW S, NEW s \in Seq(S), NEW k \in 1..Len(s), Distinct(s)
    PROVE  /\ Distinct(TakenOut(s, k))
           /\ Entries(TakenOut(s, k)) = Entries(s) \ {s[k]}
<1> DEFINE n == Len(s)
           t == TakenOut(s, k)
<1>1. n \in Nat /\ k \in 1..n
  OBVIOUS
<1>2. Len(t) = n - 1 /\ \A i \in 1..n - 1 : t[i] = s[Origin(k, i)]
  BY TakenOutEntries
<1>3. \A i, j \in 1..n : s[i] = s[j] => i = j
  BY DEF Distinct
<1> HIDE DEF n, t
<1>4. ASSUME NEW i \in 1..n - 1, NEW j \in 1..n - 1, t[i] = t[j] PROVE i = j
  <2>1. Origin(k, i) \in 1..n /\ Origin(k, j) \in 1..n
    BY <1>1, OriginProperties
  <2>2. s[Origin(k, i)] = s[Origin(k, j)]
    BY <1>2, <1>4
  <2>3. Origin(k, i) = Origin(k, j)
    BY <1>3, <2>1, <2>2
  <2> QED
    BY <1>1, <2>3, OriginProperties
<1>5. ASSUME NEW i \in 1..n - 1 PROVE t[i] # s[k] /\ \E j \in 1..n : t[i] = s[j]
  <2>1. Origin(k, i) \in 1..n /\ Origin(k, i) # k
    BY <1>1, OriginProperties
  <2>2. t[i] = s[Origin(k, i)]
    BY <1>2
  <2>3. s[Origin(k, i)] # s[k]
    BY <1>1, <1>3, <2>1
  <2> QED
    BY <2>1, <2>2, <2>3
<1>6. ASSUME NEW j \in 1..n, s[j] # s[k] PROVE \E i \in 1..n - 1 : t[i] = s[j]
  <2>1. Image(k, j) \in 1..n - 1 /\ Origin(k, Image(k, j)) = j
    BY <1>1, <1>6, ImageProperties
  <2> QED
    BY <1>2, <2>1
<1>7. Distinct(t)
  BY <1>2, <1>4 DEF Distinct
<1>8. \A x : (\E i \in 1..n - 1 : t[i] = x) <=> (\E j \in 1..n : s[j] = x) /\ x # s[k]
  BY <1>5, <1>6
<1>9. /\ \A x : x \in Entries(t) <=> \E i \in 1..n - 1 : t[i] = x
      /\ \A x : x \in Entries(s) <=> \E j \in 1..n : s[j] = x
  BY <1>2 DEF Entries, n
<1>10. Entries(t) = Entries(s) \ {s[k]}
  BY <1>8, <1>9
<1> QED
  BY <1>7, <1>10 DEF t

\* What taking one entry out of the line does to it.
LEMMA LineWithout ==
    ASSUME IInv, NEW k \in DOMAIN waiters, waiters' = RemoveAt(waiters, k)
    PROVE  /\ waiters' \in Seq(Callers)
           /\ \A i, j \in DOMAIN waiters' : waiters'[i] = waiters'[j] => i = j
           /\ \A d \in Callers : InLine(d)' <=> InLine(d) /\ d # waiters[k]
           /\ waiters' # <<>> => waiters # <<>>
           /\ Len(waiters') = Len(waiters) - 1
<1>1. /\ waiters \in Seq(Callers) /\ DOMAIN waiters = 1..Len(waiters)
      /\ k \in 1..Len(waiters)
  BY DEF IInv, TypeOK
<1>2. Distinct(waiters)
  BY <1>1 DEF IInv, LineAgreesWithCallers, Distinct
<1>3. waiters' = TakenOut(waiters, k)
  BY DEF RemoveAt, TakenOut
<1>4. waiters' \in Seq(Callers) /\ Len(waiters') = Len(waiters) - 1
  BY <1>1, <1>3, TakenOutEntries
<1>5. Distinct(waiters') /\ Entries(waiters') = Entries(waiters) \ {waiters[k]}
  BY <1>1, <1>2, <1>3, TakenOutProperties
<1>6. DOMAIN waiters' = 1..Len(waiters')
  BY <1>4
<1>7. \A d \in Callers : InLine(d)' <=> InLine(d) /\ d # waiters[k]
  <2>1. \A d : InLine(d) <=> d \in Entries(waiters)
    BY <1>1 DEF InLine, Entries
  <2>2. \A d : InLine(d)' <=> d \in Entries(waiters')
    BY <1>6 DEF InLine, Entries
  <2> QED
    BY <1>5, <2>1, <2>2
<1>8. \A i, j \in DOMAIN waiters' : waiters'[i] = waiters'[j] => i = j
  BY <1>5, <1>6 DEF Distinct
<1>9. waiters' # <<>> => waiters # <<>>
  BY <1>1
<1> QED
  BY <1>4, <1>7, <1>8, <1>9

\* Either the caller leaves the line with its error and no slot, or release
\* has counted a slot for it, which it keeps.
LEMMA TryDepartStep ==
    ASSUME IInv, NEW c \in Callers, TryDepart(c)
    PROVE  IInv'
<1> USE DEF TryDepart, MoveTo
<1>1. CASE InLine(c)
  <2>1. PICK k \in DOMAIN waiters : waiters[k] = c /\ waiters' = RemoveAt(waiters, k)
    BY <1>1
  <2>2. c \notin ready /\ pc' = [pc EXCEPT ![c] = "out"] /\ UNCHANGED ready
    BY <1>1 DEF IInv, LineAgreesWithCallers
  <2>3. TypeOK'
    BY <2>1, <2>2, LineWithout DEF IInv, TypeOK, Places
  <2>4. Holders' = Holders
    BY <2>2 DEF IInv, TypeOK, Holders
  <2>5. SlotConservation' /\ NoLostWakeup' /\ LimitKnown'
    BY <2>1, <2>2, <2>4, LineWithout
       DEF IInv, TypeOK, SlotConservation, NoLostWakeup, LimitKnown
  <2>6. LineAgreesWithCallers'
    BY <2>1, <2>2, LineWithout DEF IInv, TypeOK, LineAgreesWithCallers
  <2> QED
    BY <2>3, <2>5, <2>6 DEF IInv
<1>2. CASE ~ InLine(c)
  <2>1. c \in ready
    BY <1>2 DEF IInv, LineAgreesWithCallers
  <2>2. /\ ready' = ready \ {c}
        /\ pc' = [pc EXCEPT ![c] = "serving"]
        /\ UNCHANGED <<active, maxConcurrent, maxQueueSize, waiters>>
    BY <1>2 DEF InLine
  <2>3. TypeOK'
    BY <2>2 DEF IInv, TypeOK, Places
  <2>4. Holders' = Holders
    BY <2>1, <2>2 DEF IInv, TypeOK, Holders
  <2>5. SlotConservation' /\ NoLostWakeup' /\ LimitKnown'
    BY <2>2, <2>4 DEF IInv, SlotConservation, NoLostWakeup, LimitKnown
  <2>6. LineAgreesWithCallers'
    BY <1>2, <2>2 DEF IInv, TypeOK, LineAgreesWithCallers, InLine
  <2> QED
    BY <2>3, <2>5, <2>6 DEF IInv
<1> QED
  BY <1>1, <1>2

\* The slot passes to the head of the line, or it goes back and, if anyone
\* still waits, the limit in force was exceeded, so another holder remains.
LEMMA ReleaseStep ==
    ASSUME IInv, NEW c \in Callers, Release(c)
    PROVE  IInv'
<1> USE DEF Release, MoveTo
<1>1. c \in Holders /\ c \notin ready /\ ~ InLine(c) /\ active > 0 /\ maxConcurrent > 0
  <2>1. c \in Holders /\ c \notin ready /\ ~ InLine(c)
    BY DEF IInv, Holders, LineAgreesWithCallers
  <2> QED
    BY <2>1, ServingCounted DEF IInv, LimitKnown
<1>2. CASE waiters # <<>> /\ active - 1 < maxConcurrent
  <2> DEFINE h == Head(waiters)
  <2>1. /\ 1 \in DOMAIN waiters /\ h = waiters[1]
        /\ waiters' = Tail(waiters) /\ waiters' = RemoveAt(waiters, 1)
        /\ ready' = ready \union {h}
        /\ UNCHANGED active
    <3>1. waiters \in Seq(Callers) /\ waiters # <<>>
      BY <1>2 DEF IInv, TypeOK
    <3>2. RemoveAt(waiters, 1) = Tail(waiters)
      BY <3>1 DEF RemoveAt
    <3>3. 1 \in DOMAIN waiters /\ h = waiters[1]
      BY <3>1
    <3>4. active - 1 >= maxConcurrent <=> ~ (active - 1 < maxConcurrent)
      BY DEF IInv, TypeOK
    <3> QED
      BY <1>2, <3>2, <3>3, <3>4
  <2> HIDE DEF h
  <2>2. h \in Callers /\ h \notin Holders /\ pc[h] \in {"queued", "departing"} /\ h # c
    BY <2>1, <1>1, WaiterIsNoHolder
  <2>3. TypeOK'
    BY <2>1, <2>2, LineWithout DEF IInv, TypeOK, Places
  <2>4. Holders' = (Holders \ {c}) \union {h}
    BY <1>1, <2>1, <2>2 DEF IInv, TypeOK, Holders
  <2>5. SlotConservation'
    BY <1>1, <2>1, <2>2, <2>4, HolderReplaced
  <2>6. NoLostWakeup' /\ LimitKnown'
    BY <1>1, <2>1 DEF NoLostWakeup, LimitKnown
  <2>7. LineAgreesWithCallers'
    BY <1>1, <2>1, <2>2, LineWithout DEF IInv, TypeOK, LineAgreesWithCallers
  <2> QED
    BY <2>3, <2>5, <2>6, <2>7 DEF IInv
<1>3. CASE waiters = <<>> \/ active - 1 >= maxConcurrent
  <2>1. active' = active - 1 /\ UNCHANGED <<waiters, ready, maxConcurrent, maxQueueSize>>
    BY <1>3 DEF IInv, TypeOK
  <2>2. TypeOK'
    BY <1>1, <2>1 DEF IInv, TypeOK, Places
  <2>3. Holders' = Holders \ {c}
    BY <1>1, <2>1 DEF IInv, TypeOK, Holders
  <2>4. SlotConservation'
    BY <1>1, <2>1, <2>3, HolderRemoved
  <2>5. NoLostWakeup' /\ LimitKnown'
    BY <1>1, <1>3, <2>1 DEF IInv, TypeOK, NoLostWakeup, LimitKnown
  <2>6. LineAgreesWithCallers'
    BY <1>1, <2>1 DEF IInv, TypeOK, LineAgreesWithCallers, InLine
  <2> QED
    BY <2>2, <2>4, <2>5, <2>6 DEF IInv
<1> QED
  BY <1>2, <1>3 DEF IInv, TypeOK

LEMMA NextIInv == IInv /\ [Next]_vars => IInv'
<1> SUFFICES ASSUME IInv, [Next]_vars PROVE IInv'
  OBVIOUS
<1>1. ASSUME NEW c \in Callers, Step(c) PROVE IInv'
  BY <1>1, QuietSteps, TakeFreeSlotStep, JoinLineStep, GrantedStep, TryDepartStep,
     ReleaseStep DEF Step
<1>2. CASE UNCHANGED vars
  BY <1>2 DEF vars, IInv, TypeOK, SlotConservation, Holders, NoLostWakeup,
              LineAgreesWithCallers, InLine, LimitKnown
<1> QED
  BY <1>1, <1>2 DEF Next

\* The inductive invariant holds in every reachable state.
THEOREM Inductive == Spec => []IInv
BY InitIInv, NextIInv, PTL DEF Spec

\* Every variable keeps its type; in particular the counter never goes
\* negative, however releases, timeouts and limit changes interleave.
THEOREM TypeCorrect == Spec => []TypeOK
<1>1. IInv => TypeOK
  BY DEF IInv
<1> QED
  BY <1>1, Inductive, PTL

\* q.active always equals the number of callers that own a slot.
THEOREM SlotsAreConserved == Spec => []SlotConservation
<1>1. IInv => SlotConservation
  BY DEF IInv
<1> QED
  BY <1>1, Inductive, PTL

\* A non-empty line always has a slot holder whose release will wake it.
THEOREM NoWakeupIsLost == Spec => []NoLostWakeup
<1>1. IInv => NoLostWakeup
  BY DEF IInv
<1> QED
  BY <1>1, Inductive, PTL

\* tryDepart is always right about who owns the slot.
THEOREM LineIsAccurate == Spec => []LineAgreesWithCallers
<1>1. IInv => LineAgreesWithCallers
  BY DEF IInv
<1> QED
  BY <1>1, Inductive, PTL

-------------------------------------------------------------------------------
(***************************************************************************)
(* The queue implements SlotPool: each of its steps is one step of the     *)
(* pool or leaves the pool as it is.                                       *)
(***************************************************************************)
\* The pool counts its holders as the queue does.
LEMMA SameCount == \A S : Pool!Cardinality(S) = Cardinality(S)
BY DEF Pool!Cardinality, Cardinality

LEMMA InitRefines == Init => Pool!PoolInit
<1> SUFFICES ASSUME Init PROVE Pool!PoolInit
  OBVIOUS
<1>1. Holders = {}
  BY DEF Init, Holders
<1> QED
  BY <1>1 DEF Init, Pool!PoolInit

\* Steps that change nothing but a caller's place or the limit.
LEMMA QuietStepsRefine ==
    ASSUME IInv, NEW c \in Callers,
           \/ AcquireUnlimited(c) \/ GetOrCreate(c) \/ RefuseFull(c)
           \/ ContextDone(c) \/ GiveUp(c) \/ ReleaseUnlimited(c) \/ Granted(c)
    PROVE  Pool!Resize \/ UNCHANGED Pool!poolVars
<1> USE DEF AcquireUnlimited, GetOrCreate, RefuseFull, ContextDone, GiveUp,
            ReleaseUnlimited, Granted, MoveTo, queue
<1>1. Holders' = Holders /\ UNCHANGED waiters
  BY DEF IInv, TypeOK, Holders
<1>2. CASE GetOrCreate(c)
  BY <1>1, <1>2, RateLimitAssumption DEF Settings, Pool!Resize
<1>3. CASE ~ GetOrCreate(c)
  BY <1>1, <1>3 DEF Pool!poolVars
<1> QED
  BY <1>2, <1>3

LEMMA TakeFreeSlotRefines ==
    ASSUME IInv, NEW c \in Callers, TakeFreeSlot(c)
    PROVE  Pool!Enter(c)
<1>1. c \notin Holders
  BY DEF TakeFreeSlot, IInv, LineAgreesWithCallers, Holders
<1>2. Holders' = Holders \union {c}
  BY DEF TakeFreeSlot, MoveTo, IInv, TypeOK, Holders
<1>3. Cardinality(Holders) < maxConcurrent
  BY DEF TakeFreeSlot, IInv, SlotConservation
<1> QED
  BY <1>1, <1>2, <1>3, SameCount DEF TakeFreeSlot, Pool!Enter

LEMMA JoinLineRefines ==
    ASSUME IInv, NEW c \in Callers, JoinLine(c)
    PROVE  Pool!Join(c)
<1>1. c \notin Holders /\ ~ InLine(c)
  BY DEF JoinLine, IInv, LineAgreesWithCallers, Holders
<1>2. Holders' = Holders
  BY DEF JoinLine, MoveTo, IInv, TypeOK, Holders
<1>3. c \notin Pool!Waiting
  BY <1>1 DEF InLine, Pool!Waiting
<1> QED
  BY <1>1, <1>2, <1>3 DEF JoinLine, Pool!Join

LEMMA TryDepartRefines ==
    ASSUME IInv, NEW c \in Callers, TryDepart(c)
    PROVE  (\E i \in DOMAIN waiters : Pool!Abandon(i)) \/ UNCHANGED Pool!poolVars
<1> USE DEF TryDepart, MoveTo
<1>1. CASE InLine(c)
  <2>1. PICK k \in DOMAIN waiters : waiters[k] = c /\ waiters' = RemoveAt(waiters, k)
    BY <1>1
  <2>2. c \notin ready /\ pc' = [pc EXCEPT ![c] = "out"]
        /\ UNCHANGED <<ready, maxConcurrent>>
    BY <1>1 DEF IInv, LineAgreesWithCallers
  <2>3. Holders' = Holders
    BY <2>2 DEF IInv, TypeOK, Holders
  <2>4. Pool!Abandon(k)
    BY <2>1, <2>2, <2>3 DEF Pool!Abandon, RemoveAt
  <2> QED
    BY <2>4
<1>2. CASE ~ InLine(c)
  <2>1. c \in ready
    BY <1>2 DEF IInv, LineAgreesWithCallers
  <2>2. /\ ready' = ready \ {c}
        /\ pc' = [pc EXCEPT ![c] = "serving"]
        /\ UNCHANGED <<maxConcurrent, waiters>>
    BY <1>2 DEF InLine
  <2>3. Holders' = Holders
    BY <2>1, <2>2 DEF IInv, TypeOK, Holders
  <2> QED
    BY <2>2, <2>3 DEF Pool!poolVars
<1> QED
  BY <1>1, <1>2

\* Only the head of the line inherits a slot, and only below the limit.
LEMMA ReleaseRefines ==
    ASSUME IInv, NEW c \in Callers, Release(c)
    PROVE  Pool!Return(c)
<1> USE DEF Release, MoveTo
<1>1. c \in Holders /\ c \notin ready
  BY DEF IInv, Holders, LineAgreesWithCallers
<1>2. Cardinality(Holders \ {c}) = active - 1
  BY <1>1, HoldersFinite, FS_RemoveElement DEF IInv, SlotConservation
<1>3. CASE waiters # <<>> /\ active - 1 < maxConcurrent
  <2> DEFINE h == Head(waiters)
  <2>1. /\ 1 \in DOMAIN waiters /\ h = waiters[1] /\ waiters' = Tail(waiters)
        /\ ready' = ready \union {h} /\ UNCHANGED maxConcurrent
    BY <1>3 DEF IInv, TypeOK
  <2> HIDE DEF h
  <2>2. h \in Callers /\ h # c
    BY <2>1, <1>1, WaiterIsNoHolder
  <2>3. Holders' = (Holders \ {c}) \union {h}
    BY <1>1, <2>1, <2>2 DEF IInv, TypeOK, Holders
  <2> QED
    BY <1>1, <1>2, <1>3, <2>1, <2>3, SameCount DEF Pool!Return, h
<1>4. CASE waiters = <<>> \/ active - 1 >= maxConcurrent
  <2>1. UNCHANGED <<waiters, ready, maxConcurrent>>
    BY <1>4 DEF IInv, TypeOK
  <2>2. Holders' = Holders \ {c}
    BY <1>1, <2>1 DEF IInv, TypeOK, Holders
  <2> QED
    BY <1>1, <2>1, <2>2 DEF Pool!Return
<1> QED
  BY <1>3, <1>4 DEF IInv, TypeOK

LEMMA NextRefines == IInv /\ [Next]_vars => [Pool!PoolNext]_(Pool!poolVars)
<1> SUFFICES ASSUME IInv, [Next]_vars PROVE [Pool!PoolNext]_(Pool!poolVars)
  OBVIOUS
<1>1. ASSUME NEW c \in Callers, Step(c)
      PROVE  Pool!PoolNext \/ UNCHANGED Pool!poolVars
  BY <1>1, QuietStepsRefine, TakeFreeSlotRefines, JoinLineRefines, TryDepartRefines,
     ReleaseRefines DEF Step, Pool!PoolNext
<1>2. CASE UNCHANGED vars
  BY <1>2 DEF vars, Holders, Pool!poolVars
<1> QED
  BY <1>1, <1>2 DEF Next

\* The lock, the counter and the channels of queue.go implement a first-come
\* first-served pool in which no slot is lost, duplicated or granted beyond
\* the limit in force.
THEOREM Refinement == Spec => ImplementsSlotPool
<1>1. Spec => Pool!PoolInit /\ [][Pool!PoolNext]_(Pool!poolVars)
  BY InitRefines, NextRefines, Inductive, PTL DEF Spec
<1> QED
  BY <1>1 DEF ImplementsSlotPool, Pool!PoolSpec

-------------------------------------------------------------------------------
(***************************************************************************)
(* The queue while its settings stay: the pool the request handler relies  *)
(* on.  The slots that are handed out never exceed the limit then, so that *)
(* a release finds room for the head of the line whenever there is one.    *)
(***************************************************************************)
Settled ==
    /\ maxConcurrent \in {0, Setting.limit}
    /\ maxConcurrent # 0 => maxQueueSize = Setting.size
    /\ active <= maxConcurrent
    /\ waiters # <<>> => active = maxConcurrent

LEMMA SettingKnown ==
    ASSUME SettingsStay
    PROVE  /\ Settings = {Setting}
           /\ Setting.limit \in Nat /\ Setting.size \in Nat /\ Setting.limit > 0
           /\ 0 \notin Limits
<1>1. PICK s \in Settings : Settings = {s} /\ s.limit > 0
  BY DEF SettingsStay
<1>2. Setting = s
  BY <1>1 DEF Setting
<1>3. s.limit \in Nat /\ s.size \in Nat
  BY RateLimitAssumption DEF Settings
<1>4. 0 \notin Limits
  <2> SUFFICES ASSUME 0 \in Limits PROVE FALSE
    OBVIOUS
  <2>1. PICK n \in Sizes : TRUE
    BY RateLimitAssumption
  <2>2. [limit |-> 0, size |-> n] \in Settings
    BY <2>1 DEF Settings
  <2>3. s = [limit |-> 0, size |-> n]
    BY <2>2, <1>1
  <2> QED
    BY <2>3, <1>1
<1> QED
  BY <1>1, <1>2, <1>3, <1>4

LEMMA InitSettles == Init => Settled
BY DEF Init, Settled

\* Whoever is in line has passed getOrCreate.
LEMMA LineHasLimit ==
    ASSUME IInv, waiters # <<>>
    PROVE  maxConcurrent > 0
<1>1. 1 \in DOMAIN waiters /\ waiters[1] \in Callers
  BY DEF IInv, TypeOK
<1>2. InLine(waiters[1])
  BY <1>1 DEF InLine
<1>3. pc[waiters[1]] \in {"queued", "departing"}
  BY <1>1, <1>2 DEF IInv, LineAgreesWithCallers
<1> QED
  BY <1>1, <1>3 DEF IInv, LimitKnown

LEMMA NextSettles ==
    ASSUME SettingsStay, IInv, Settled, [Next]_vars
    PROVE  Settled'
<1> USE SettingKnown
<1>1. ASSUME NEW c \in Callers, Step(c) PROVE Settled'
  <2>1. CASE GetOrCreate(c)
    <3>1. /\ maxConcurrent' = Setting.limit /\ maxQueueSize' = Setting.size
          /\ UNCHANGED <<active, waiters>>
      BY <2>1 DEF GetOrCreate
    <3>2. waiters # <<>> => maxConcurrent = Setting.limit
      BY LineHasLimit DEF Settled
    <3>3. active <= Setting.limit
      BY DEF Settled, IInv, TypeOK
    <3> QED
      BY <3>1, <3>2, <3>3 DEF Settled
  <2>2. CASE TakeFreeSlot(c)
    BY <2>2 DEF TakeFreeSlot, Settled, IInv, TypeOK
  <2>3. CASE JoinLine(c)
    <3>1. active = maxConcurrent
      BY <2>3 DEF JoinLine, CannotTakeSlot, Settled, IInv, TypeOK
    <3> QED
      BY <2>3, <3>1 DEF JoinLine, Settled
  <2>4. CASE TryDepart(c)
    <3>1. waiters' # <<>> => waiters # <<>>
      <4>1. ASSUME waiters = <<>> PROVE waiters' = waiters
        BY <2>4, <4>1 DEF TryDepart
      <4> QED
        BY <4>1
    <3> QED
      BY <2>4, <3>1 DEF TryDepart, Settled
  <2>5. CASE Release(c)
    <3>1. active > 0
      <4>1. c \in Holders
        BY <2>5 DEF Release, Holders
      <4>2. Cardinality(Holders) # 0
        BY <4>1, HoldersFinite, FS_EmptySet DEF IInv
      <4> QED
        BY <4>2 DEF IInv, TypeOK, SlotConservation
    <3>2. active - 1 < maxConcurrent
      BY <3>1 DEF Settled, IInv, TypeOK
    <3>3. CASE waiters # <<>>
      BY <2>5, <3>2, <3>3 DEF Release, Settled, IInv, TypeOK
    <3>4. CASE waiters = <<>>
      BY <2>5, <3>1, <3>2, <3>4 DEF Release, Settled, IInv, TypeOK
    <3> QED
      BY <3>3, <3>4
  <2>6. CASE \/ AcquireUnlimited(c) \/ RefuseFull(c) \/ ContextDone(c)
             \/ Granted(c) \/ GiveUp(c) \/ ReleaseUnlimited(c)
    BY <2>6 DEF AcquireUnlimited, RefuseFull, ContextDone, Granted, GiveUp, ReleaseUnlimited,
                queue, Settled
  <2> QED
    BY <1>1, <2>1, <2>2, <2>3, <2>4, <2>5, <2>6 DEF Step
<1>2. CASE UNCHANGED vars
  BY <1>2 DEF vars, Settled
<1> QED
  BY <1>1, <1>2 DEF Next

LEMMA SameFixedCount == \A S : Fixed!Cardinality(S) = Cardinality(S)
BY DEF Fixed!Cardinality, Cardinality

LEMMA LineMembers ==
    /\ \A d : d \in ToSet(waiters) <=> InLine(d)
    /\ \A d : d \in ToSet(waiters)' <=> InLine(d)'
BY DEF ToSet, InLine

LEMMA LineLength ==
    ASSUME IInv
    PROVE  /\ ToSet(waiters) \subseteq Callers
           /\ waiters = <<>> <=> ToSet(waiters) = {}
           /\ Cardinality(ToSet(waiters)) \in Nat
           /\ Cardinality(ToSet(waiters)) <= Len(waiters)
<1> DEFINE n == Len(waiters)
<1>1. n \in Nat /\ waiters \in Seq(Callers) /\ DOMAIN waiters = 1 .. n
      /\ (waiters = <<>> <=> n = 0) /\ \A i \in 1 .. n : waiters[i] \in Callers
  BY DEF IInv, TypeOK
<1> HIDE DEF n
<1>2. waiters \in Surjection(1 .. n, ToSet(waiters))
  BY <1>1 DEF Surjection, ToSet
<1>3. IsFiniteSet(1 .. n) /\ Cardinality(1 .. n) = n
  BY <1>1, FS_Interval
<1>4. IsFiniteSet(ToSet(waiters)) /\ Cardinality(ToSet(waiters)) <= n
  BY <1>2, <1>3, FS_Surjection
<1>5. waiters # <<>> => waiters[1] \in ToSet(waiters)
  BY <1>1 DEF ToSet
<1>6. waiters = <<>> => ToSet(waiters) = {}
  BY <1>1 DEF ToSet
<1>7. ToSet(waiters) \subseteq Callers
  BY <1>1 DEF ToSet
<1> QED
  BY <1>4, <1>5, <1>6, <1>7, FS_CardinalityType DEF n

LEMMA TakeIsFixed ==
    ASSUME SettingsStay, IInv, Settled, NEW c \in Callers, TakeFreeSlot(c)
    PROVE  Fixed!Take(c)
<1>1. c \notin Holders
  BY DEF TakeFreeSlot, IInv, LineAgreesWithCallers, Holders
<1>2. Holders' = Holders \union {c} /\ UNCHANGED waiters
  BY DEF TakeFreeSlot, MoveTo, IInv, TypeOK, Holders
<1>3. Cardinality(Holders) < Setting.limit
  BY SettingKnown DEF TakeFreeSlot, IInv, TypeOK, SlotConservation, Settled
<1>4. ToSet(waiters) = {}
  BY LineLength DEF TakeFreeSlot
<1> QED
  BY <1>1, <1>2, <1>3, <1>4, SameFixedCount DEF Fixed!Take, Fixed!SlotFree

LEMMA WaitIsFixed ==
    ASSUME SettingsStay, IInv, Settled, NEW c \in Callers, JoinLine(c)
    PROVE  Fixed!Wait(c)
<1>1. c \notin Holders /\ ~ InLine(c)
  BY DEF JoinLine, IInv, LineAgreesWithCallers, Holders
<1>2. c \notin ToSet(waiters)
  BY <1>1, LineMembers
<1>3. Holders' = Holders
  BY DEF JoinLine, MoveTo, IInv, TypeOK, Holders
<1>4. maxConcurrent = Setting.limit /\ maxQueueSize = Setting.size
  BY DEF JoinLine, IInv, LimitKnown, Settled
<1>5. waiters # <<>> \/ active >= Setting.limit
  BY <1>4 DEF JoinLine, CannotTakeSlot
<1>6. ~ (ToSet(waiters) = {} /\ Cardinality(Holders) < Setting.limit)
  BY <1>5, LineLength, SettingKnown DEF IInv, TypeOK, SlotConservation
<1>7. Cardinality(ToSet(waiters)) < Setting.size
  BY <1>4, LineLength, SettingKnown DEF JoinLine, LineIsFull, IInv, TypeOK
<1>8. ToSet(waiters') = ToSet(waiters) \union {c}
  <2>1. /\ DOMAIN waiters' = 1..Len(waiters) + 1
        /\ DOMAIN waiters = 1..Len(waiters) /\ Len(waiters) \in Nat
        /\ \A i \in DOMAIN waiters : waiters'[i] = waiters[i]
        /\ waiters'[Len(waiters) + 1] = c
    BY DEF JoinLine, IInv, TypeOK
  <2> QED
    BY <2>1 DEF ToSet
<1> QED
  BY <1>1, <1>2, <1>3, <1>6, <1>7, <1>8, SameFixedCount DEF Fixed!Wait, Fixed!SlotFree

LEMMA LeaveIsFixed ==
    ASSUME IInv, NEW c \in Callers, TryDepart(c)
    PROVE  Fixed!Leave(c) \/ UNCHANGED Fixed!fixedVars
<1> USE DEF TryDepart, MoveTo
<1>1. CASE InLine(c)
  <2>1. PICK k \in DOMAIN waiters : waiters[k] = c /\ waiters' = RemoveAt(waiters, k)
    BY <1>1
  <2>2. c \notin ready /\ pc' = [pc EXCEPT ![c] = "out"] /\ UNCHANGED ready
    BY <1>1 DEF IInv, LineAgreesWithCallers
  <2>3. Holders' = Holders
    BY <2>2 DEF IInv, TypeOK, Holders
  <2>4. \A d \in Callers : InLine(d)' <=> InLine(d) /\ d # c
    BY <2>1, LineWithout
  <2>5. waiters' \in Seq(Callers)
    BY <2>1, LineWithout
  <2>6. ToSet(waiters') \subseteq Callers /\ ToSet(waiters) \subseteq Callers
    BY <2>5, LineLength DEF ToSet
  <2>7. c \in ToSet(waiters) /\ ToSet(waiters') = ToSet(waiters) \ {c}
    BY <1>1, <2>4, <2>6, LineMembers
  <2> QED
    BY <2>3, <2>7 DEF Fixed!Leave
<1>2. CASE ~ InLine(c)
  <2>1. c \in ready /\ ready' = ready \ {c} /\ pc' = [pc EXCEPT ![c] = "serving"]
        /\ UNCHANGED waiters
    BY <1>2 DEF IInv, LineAgreesWithCallers, InLine
  <2>2. Holders' = Holders
    BY <2>1 DEF IInv, TypeOK, Holders
  <2> QED
    BY <2>1, <2>2 DEF Fixed!fixedVars
<1> QED
  BY <1>1, <1>2

\* The head of the line is one of those who wait; a slot is free for it.
LEMMA HandOnIsFixed ==
    ASSUME SettingsStay, IInv, Settled, NEW c \in Callers, Release(c)
    PROVE  Fixed!HandOn(c)
<1> USE DEF Release, MoveTo
<1>1. c \in Holders /\ c \notin ready
  BY DEF IInv, Holders, LineAgreesWithCallers
<1>2. active - 1 < maxConcurrent
  BY <1>1, ServingCounted DEF Settled, IInv, TypeOK
<1>3. CASE waiters # <<>>
  <2> DEFINE h == Head(waiters)
  <2>1. 1 \in DOMAIN waiters /\ h = waiters[1] /\ RemoveAt(waiters, 1) = Tail(waiters)
    <3>1. waiters \in Seq(Callers) /\ waiters # <<>>
      BY <1>3 DEF IInv, TypeOK
    <3> QED
      BY <3>1 DEF RemoveAt
  <2>2. waiters' = RemoveAt(waiters, 1) /\ ready' = ready \union {h}
    BY <1>2, <1>3, <2>1 DEF IInv, TypeOK
  <2> HIDE DEF h
  <2>3. h \in Callers /\ h # c
    BY <2>1, <1>1, WaiterIsNoHolder
  <2>4. Holders' = (Holders \ {c}) \union {h}
    BY <1>1, <2>2, <2>3 DEF IInv, TypeOK, Holders
  <2>5. /\ waiters' \in Seq(Callers)
        /\ \A d \in Callers : InLine(d)' <=> InLine(d) /\ d # h
    BY <2>1, <2>2, LineWithout
  <2>6. ToSet(waiters') \subseteq Callers /\ ToSet(waiters) \subseteq Callers
    BY <2>5, LineLength DEF ToSet
  <2>7. h \in ToSet(waiters) /\ ToSet(waiters') = ToSet(waiters) \ {h}
    BY <2>1, <2>5, <2>6, LineMembers DEF ToSet
  <2> QED
    BY <1>1, <2>4, <2>7 DEF Fixed!HandOn
<1>4. CASE waiters = <<>>
  <2>1. UNCHANGED <<waiters, ready>>
    BY <1>4
  <2>2. Holders' = Holders \ {c}
    BY <1>1, <2>1 DEF IInv, TypeOK, Holders
  <2>3. ToSet(waiters) = {}
    BY <1>4, LineLength
  <2> QED
    BY <1>1, <2>1, <2>2, <2>3 DEF Fixed!HandOn
<1> QED
  BY <1>3, <1>4

LEMMA QuietIsFixed ==
    ASSUME IInv, NEW c \in Callers,
           \/ AcquireUnlimited(c) \/ GetOrCreate(c) \/ RefuseFull(c)
           \/ ContextDone(c) \/ GiveUp(c) \/ ReleaseUnlimited(c) \/ Granted(c)
    PROVE  UNCHANGED Fixed!fixedVars
<1>1. Holders' = Holders /\ UNCHANGED waiters
  BY DEF AcquireUnlimited, GetOrCreate, RefuseFull, ContextDone, GiveUp,
         ReleaseUnlimited, Granted, MoveTo, queue, IInv, TypeOK, Holders
<1> QED
  BY <1>1 DEF Fixed!fixedVars

\* While the settings stay, the queue is the pool that RequestPath uses, with
\* the oldest waiter for the one it leaves open (queue.go:36-107).
THEOREM FixedRefinement == SettingsStay => (Spec => ImplementsFixedPool)
<1> SUFFICES ASSUME SettingsStay PROVE Spec => ImplementsFixedPool
  OBVIOUS
<1>1. Init => Fixed!FixedInit
  <2> SUFFICES ASSUME Init PROVE Fixed!FixedInit
    OBVIOUS
  <2>1. Holders = {} /\ ToSet(waiters) = {}
    BY DEF Init, Holders, ToSet
  <2> QED
    BY <2>1 DEF Fixed!FixedInit
<1>2. IInv /\ Settled /\ [Next]_vars => [Fixed!FixedNext]_(Fixed!fixedVars)
  <2> SUFFICES ASSUME IInv, Settled, [Next]_vars PROVE [Fixed!FixedNext]_(Fixed!fixedVars)
    OBVIOUS
  <2>1. ASSUME NEW c \in Callers, Step(c)
        PROVE  Fixed!FixedNext \/ UNCHANGED Fixed!fixedVars
    BY <2>1, TakeIsFixed, WaitIsFixed, HandOnIsFixed, LeaveIsFixed, QuietIsFixed
       DEF Step, Fixed!FixedNext
  <2>2. CASE UNCHANGED vars
    BY <2>2 DEF vars, Holders, Fixed!fixedVars
  <2> QED
    BY <2>1, <2>2 DEF Next
<1>3. IInv /\ Settled /\ [Next]_vars => Settled'
  BY NextSettles
<1>4. Spec => Fixed!FixedInit /\ [][Fixed!FixedNext]_(Fixed!fixedVars)
  BY <1>1, <1>2, <1>3, InitSettles, Inductive, PTL DEF Spec
<1> QED
  BY <1>4 DEF ImplementsFixedPool, Fixed!FixedSpec

\* While the settings stay, no slot is free beside somebody who waits, though
\* a timeout may race with every release (queue.go:92-107).
THEOREM NoSlotIdles ==
    SettingsStay => (Spec => [](waiters # <<>> => active = maxConcurrent))
<1> SUFFICES ASSUME SettingsStay
             PROVE  Spec => [](waiters # <<>> => active = maxConcurrent)
  OBVIOUS
<1>1. IInv /\ Settled /\ [Next]_vars => Settled'
  BY NextSettles
<1>2. Settled => (waiters # <<>> => active = maxConcurrent)
  BY DEF Settled
<1> QED
  BY <1>1, <1>2, InitSettles, Inductive, PTL DEF Spec

===============================================================================
