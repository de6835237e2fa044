---------------------------- MODULE RateLimitQueue ----------------------------
(***************************************************************************)
(* The execution slots of one provider: internal/proxy/ratelimit/queue.go. *)
(*                                                                         *)
(* A caller is a goroutine of the proxy that forwards one request after    *)
(* another.  Each step between two critical sections of q.mu is an action, *)
(* so a release, a timeout and a configuration change may run between any  *)
(* two of them.  Time is abstract: the queue timer and the request context *)
(* may fire at any moment after the caller joined the line.  The admin may *)
(* save any settings at any time and a request uses the copy it loaded     *)
(* when it started, however old, so the settings a caller arrives with are *)
(* any member of Settings.                                                 *)
(***************************************************************************)
EXTENDS Naturals, Sequences, FiniteSets, SequencesExt

CONSTANTS
    Callers,  \* the goroutines that forward requests to this provider
    Limits,   \* the values max_concurrent_requests is configured with
    Sizes     \* the values max_queue_size is configured with

ASSUME RateLimitAssumption ==
    /\ IsFiniteSet(Callers)
    /\ Limits # {} /\ Limits \subseteq Nat
    /\ Sizes # {} /\ Sizes \subseteq Nat

VARIABLES
    pc,             \* where each caller is
    active,         \* q.active
    maxConcurrent,  \* q.maxConcurrent
    maxQueueSize,   \* q.maxQueueSize
    waiters,        \* q.waiters
    ready           \* the waiters whose ready channel holds a token

vars == <<pc, active, maxConcurrent, maxQueueSize, waiters, ready>>
queue == <<active, maxConcurrent, maxQueueSize, waiters, ready>>

Settings == [limit : Limits, size : Sizes]

Places == {"out", "entering", "queued", "departing", "serving", "bypass"}

TypeOK ==
    /\ pc \in [Callers -> Places]
    /\ active \in Nat
    /\ maxConcurrent \in Nat
    /\ maxQueueSize \in Nat
    /\ waiters \in Seq(Callers)
    /\ ready \in SUBSET Callers

\* NewManager: no queue exists yet; getOrCreate makes it with the first
\* caller's settings, which a limit of 0 (no slot to grant) stands for here.
Init ==
    /\ pc = [c \in Callers |-> "out"]
    /\ active = 0
    /\ maxConcurrent = 0
    /\ maxQueueSize = 0
    /\ waiters = <<>>
    /\ ready = {}

InLine(c) == \E i \in DOMAIN waiters : waiters[i] = c

MoveTo(c, place) == pc' = [pc EXCEPT ![c] = place]

\* Manager.Acquire with maxConcurrent <= 0: a result whose Release does nothing.
AcquireUnlimited(c) ==
    /\ pc[c] = "out"
    /\ 0 \in Limits
    /\ MoveTo(c, "bypass")
    /\ UNCHANGED queue

\* getOrCreate: every caller writes the settings it arrived with into the queue.
GetOrCreate(c) ==
    /\ pc[c] = "out"
    /\ \E s \in Settings :
         /\ s.limit > 0
         /\ maxConcurrent' = s.limit
         /\ maxQueueSize' = s.size
    /\ MoveTo(c, "entering")
    /\ UNCHANGED <<active, waiters, ready>>

\* acquire, first critical section: a free slot and nobody waiting.
TakeFreeSlot(c) ==
    /\ pc[c] = "entering"
    /\ waiters = <<>>
    /\ active < maxConcurrent
    /\ active' = active + 1
    /\ MoveTo(c, "serving")
    /\ UNCHANGED <<maxConcurrent, maxQueueSize, waiters, ready>>

CannotTakeSlot == waiters # <<>> \/ active >= maxConcurrent

LineIsFull == maxQueueSize = 0 \/ Len(waiters) >= maxQueueSize

\* acquire returns ErrQueueFull.
RefuseFull(c) ==
    /\ pc[c] = "entering"
    /\ CannotTakeSlot
    /\ LineIsFull
    /\ MoveTo(c, "out")
    /\ UNCHANGED queue

\* acquire returns ctx.Err(): the client went away before the lock was taken.
ContextDone(c) ==
    /\ pc[c] = "entering"
    /\ MoveTo(c, "out")
    /\ UNCHANGED queue

JoinLine(c) ==
    /\ pc[c] = "entering"
    /\ CannotTakeSlot
    /\ ~ LineIsFull
    /\ waiters' = Append(waiters, c)
    /\ MoveTo(c, "queued")
    /\ UNCHANGED <<active, maxConcurrent, maxQueueSize, ready>>

\* select: the token arrived.
Granted(c) ==
    /\ pc[c] = "queued"
    /\ c \in ready
    /\ ready' = ready \ {c}
    /\ MoveTo(c, "serving")
    /\ UNCHANGED <<active, maxConcurrent, maxQueueSize, waiters>>

\* select: the timer or the context fired.  When the token is there as well,
\* Go picks either case, so this stays enabled.
GiveUp(c) ==
    /\ pc[c] = "queued"
    /\ MoveTo(c, "departing")
    /\ UNCHANGED queue

\* A timeout that takes itself for refused although release served it.
TryDepartIgnoringGrant(c) ==
    /\ pc[c] = "departing"
    /\ waiters' = SelectSeq(waiters, LAMBDA d : d # c)
    /\ ready' = ready \ {c}
    /\ MoveTo(c, "out")
    /\ UNCHANGED <<active, maxConcurrent, maxQueueSize>>

\* A timeout that returns its error and forgets to take itself off the line.
TryDepartLeavingWaiter(c) ==
    /\ pc[c] = "departing"
    /\ IF InLine(c)
       THEN MoveTo(c, "out") /\ UNCHANGED ready
       ELSE MoveTo(c, "serving") /\ ready' = ready \ {c}
    /\ UNCHANGED <<active, maxConcurrent, maxQueueSize, waiters>>

\* tryDepart: still in the line, leave it with the error; otherwise release
\* has already counted a slot for this caller, which it now owns.
TryDepart(c) ==
    /\ pc[c] = "departing"
    /\ \/ /\ \E i \in DOMAIN waiters :
                waiters[i] = c /\ waiters' = RemoveAt(waiters, i)
          /\ MoveTo(c, "out")
          /\ UNCHANGED ready
       \/ /\ ~ InLine(c)
          /\ ready' = ready \ {c}
          /\ MoveTo(c, "serving")
          /\ UNCHANGED waiters
    /\ UNCHANGED <<active, maxConcurrent, maxQueueSize>>

\* A release that lets the newest waiter go first.
ReleaseToNewest(c) ==
    /\ pc[c] = "serving"
    /\ MoveTo(c, "out")
    /\ LET left == active - 1
       IN  IF left < maxConcurrent /\ waiters # <<>>
           THEN /\ ready' = ready \union {waiters[Len(waiters)]}
                /\ waiters' = SubSeq(waiters, 1, Len(waiters) - 1)
                /\ active' = left + 1
           ELSE active' = left /\ UNCHANGED <<waiters, ready>>
    /\ UNCHANGED <<maxConcurrent, maxQueueSize>>

\* A release that only gives the slot back and wakes nobody.
ReleaseSilently(c) ==
    /\ pc[c] = "serving"
    /\ MoveTo(c, "out")
    /\ active' = active - 1
    /\ UNCHANGED <<maxConcurrent, maxQueueSize, waiters, ready>>

\* release: the loop sends to the head's empty one-place channel, which never
\* blocks, and returns, so one call serves at most one waiter.
Release(c) ==
    /\ pc[c] = "serving"
    /\ MoveTo(c, "out")
    /\ \/ /\ active - 1 < maxConcurrent
          /\ waiters # <<>>
          /\ ready' = ready \union {Head(waiters)}
          /\ waiters' = Tail(waiters)
          /\ UNCHANGED active
       \/ /\ active - 1 >= maxConcurrent \/ waiters = <<>>
          /\ active' = active - 1
          /\ UNCHANGED <<waiters, ready>>
    /\ UNCHANGED <<maxConcurrent, maxQueueSize>>

\* An unlimited caller whose release reaches a queue that never counted it.
ReleaseUncounted(c) ==
    /\ pc[c] = "bypass"
    /\ MoveTo(c, "out")
    /\ active' = active - 1
    /\ UNCHANGED <<maxConcurrent, maxQueueSize, waiters, ready>>

\* The release function AcquireUnlimited handed out.
ReleaseUnlimited(c) ==
    /\ pc[c] = "bypass"
    /\ MoveTo(c, "out")
    /\ UNCHANGED queue

Step(c) ==
    \/ AcquireUnlimited(c) \/ GetOrCreate(c)
    \/ TakeFreeSlot(c) \/ RefuseFull(c) \/ ContextDone(c) \/ JoinLine(c)
    \/ Granted(c) \/ GiveUp(c) \/ TryDepart(c)
    \/ Release(c) \/ ReleaseUnlimited(c)

Next == \E c \in Callers : Step(c)

Spec == Init /\ [][Next]_vars

(***************************************************************************)
(* A forwarded response ends and its slot is released, a goroutine that    *)
(* was sent a token or whose timer fired runs on.  Nothing is assumed of   *)
(* the timers, of the clients or of the admin.                             *)
(***************************************************************************)
Fairness ==
    \A c \in Callers : WF_vars(Granted(c)) /\ WF_vars(TryDepart(c)) /\ WF_vars(Release(c))

FairSpec == Spec /\ Fairness

-------------------------------------------------------------------------------
Holders == {c \in Callers : pc[c] = "serving"} \union ready

\* q.active counts exactly the callers that own a slot: those forwarding and
\* those that were handed one while their timer or context fired.  A slot
\* leaked or counted twice by that race (queue.go:64-74) shows here.
SlotConservation == active = Cardinality(Holders)

\* Whoever waits is waited on: while the line is not empty some caller owns a
\* slot and will wake the head when it releases it (queue.go:42, 92-107).
NoLostWakeup == waiters # <<>> => active > 0

\* A goroutine blocked in acquire's select is either in the line exactly once
\* or has been sent its token, never both and never neither: tryDepart's
\* answer (queue.go:80-90) is then right about who owns the slot.
LineAgreesWithCallers ==
    /\ \A i, j \in DOMAIN waiters : waiters[i] = waiters[j] => i = j
    /\ \A c \in Callers :
         /\ c \in ready => ~ InLine(c)
         /\ pc[c] \in {"queued", "departing"} <=> InLine(c) \/ c \in ready

\* First come, first served, and no slot beyond the limit: the queue is a
\* SlotPool whose holders are the callers counted in q.active.
Pool == INSTANCE SlotPool WITH
            holders <- Holders, line <- waiters, cap <- maxConcurrent
ImplementsSlotPool == Pool!PoolSpec

\* While the settings are not edited the queue is the pool that the request
\* handler relies on: no slot stays free beside somebody who waits, and each
\* one given back goes to a waiter at once (queue.go:36-107).
SettingsStay == \E s \in Settings : Settings = {s} /\ s.limit > 0
Setting == CHOOSE s \in Settings : TRUE
Fixed == INSTANCE FixedPool WITH
             Limit <- Setting.limit, Room <- Setting.size,
             holders <- Holders, line <- ToSet(waiters)
ImplementsFixedPool == Fixed!FixedSpec

\* A queued caller gets out of the line even if no timer ever fires, because
\* every release hands its slot on (queue.go:92-107), whatever the admin does
\* to the limit meanwhile.
QueuedAreServed == \A c \in Callers : pc[c] = "queued" ~> pc[c] # "queued"
===============================================================================
