------------------------------ MODULE RequestPath ------------------------------
(***************************************************************************)
(* One POST /v1/messages through the proxy (proxy/handler.go): the slot of *)
(* the provider it was routed to, the upstream call with its retries after *)
(* 429 (proxy/ratelimit/retry429.go), the second call of the rectifier,    *)
(* the replay at one candidate after another inside the first slot, and    *)
(* the deferred functions that give everything back.                       *)
(*                                                                         *)
(* Every limited provider has a pool as in SlotPool, which RateLimitQueue  *)
(* implements, with constant limits and without its order: here a slot may *)
(* pass to anyone in line.  Which providers SelectCandidates returns, and  *)
(* in which order they are tried, is left open: Failover says that.        *)
(***************************************************************************)
EXTENDS Naturals, Sequences, FiniteSets, SequencesExt

CONSTANTS
    Requests,   \* the goroutines that serve requests
    Providers,  \* provider identifiers
    Nobody,     \* no provider
    Routed,     \* the providers each request may be routed to
    Limit,      \* MaxConcurrentRequests, 0 when the queue is switched off
    Places,     \* MaxQueueSize
    Attempts    \* Retry429MaxAttempts, 0 when retries are switched off

ASSUME RequestPathAssumption ==
    /\ Nobody \notin Providers
    /\ IsFiniteSet(Providers) /\ IsFiniteSet(Requests)
    /\ Routed \in [Requests -> SUBSET Providers]
    /\ Limit \in [Providers -> Nat]
    /\ Places \in [Providers -> Nat]
    /\ Attempts \in [Providers -> Nat]

VARIABLES
    pc,        \* where each request is
    first,     \* the provider it was routed to
    at,        \* the provider it waits for, calls or streams from
    untried,   \* the candidates runCandidateReplay has not reached
    attempt,   \* the 429 answers of that provider that it has retried
    calls,     \* how often the request has called upstream, while it may again
    open,      \* its response bodies that are not closed
    deferred,  \* its deferred functions, the one to run first in front
    gone,      \* those whose client has left, while they look at it
    holders,   \* the requests that own a slot of each provider
    line       \* the requests that queue for one

pools == <<holders, line>>
request == <<pc, first, at, untried, attempt, calls, open, deferred, gone>>
vars == <<request, pools>>

Stages == {"idle", "entering", "queued", "calling", "backoff", "rectifying",
           "failing", "choosing", "streaming", "returning"}

\* What a deferred function gives back: the slot of a provider, the body of
\* its response, or the body of its response to the rectified request.
Slot(p) == <<"slot", p>>
Body(p) == <<"body", p>>
Rectified(p) == <<"rectified", p>>
Bodies == {"body", "rectified"} \X Providers
Resources == {"slot", "body", "rectified"} \X Providers

\* One call and its retries at each of P.
CallsAt(P) == UNION {{<<p, k>> : k \in 0 .. Attempts[p]} : p \in P}

\* And one of the rectifier.
MaxCalls == 1 + Cardinality(CallsAt(Providers))

TypeOK ==
    /\ pc \in [Requests -> Stages]
    /\ first \in [Requests -> Providers \union {Nobody}]
    /\ at \in [Requests -> Providers \union {Nobody}]
    /\ untried \in [Requests -> SUBSET Providers]
    /\ \A r \in Requests :
          attempt[r] \in 0 .. (IF at[r] = Nobody THEN 0 ELSE Attempts[at[r]])
    /\ calls \in [Requests -> 0 .. MaxCalls]
    /\ open \in [Requests -> SUBSET Bodies]
    /\ deferred \in [Requests -> Seq(Resources)]
    /\ gone \subseteq Requests
    /\ holders \in [Providers -> SUBSET Requests]
    /\ line \in [Providers -> SUBSET Requests]

Init ==
    /\ pc = [r \in Requests |-> "idle"]
    /\ first = [r \in Requests |-> Nobody]
    /\ at = [r \in Requests |-> Nobody]
    /\ untried = [r \in Requests |-> {}]
    /\ attempt = [r \in Requests |-> 0]
    /\ calls = [r \in Requests |-> 0]
    /\ open = [r \in Requests |-> {}]
    /\ deferred = [r \in Requests |-> <<>>]
    /\ gone = {}
    /\ holders = [p \in Providers |-> {}]
    /\ line = [p \in Providers |-> {}]

-------------------------------------------------------------------------------
Move(r, stage) == pc' = [pc EXCEPT ![r] = stage]

\* It will not call upstream again: it streams a response, or returns.
Done(r, stage) ==
    /\ Move(r, stage)
    /\ untried' = [untried EXCEPT ![r] = {}]
    /\ attempt' = [attempt EXCEPT ![r] = 0]
    /\ calls' = [calls EXCEPT ![r] = 0]
    /\ gone' = gone \ {r}

\* It leaves retry429 for another stage.
Leave429(r, stage) ==
    /\ Move(r, stage)
    /\ attempt' = [attempt EXCEPT ![r] = 0]

Limited(p) == Limit[p] > 0

OnFirst(r) == at[r] = first[r]

\* The next call upstream: to at[r].
CallUpstream(r) == calls' = [calls EXCEPT ![r] = @ + 1]

\* defer, of one or two functions, the last of them to run first.
Defer(r, s) == deferred' = [deferred EXCEPT ![r] = s \o @]

\* Only ServeHTTP defers the release of the slot at once; replayToProvider
\* hands it to its caller.
KeepSlot(r) ==
    IF OnFirst(r) THEN Defer(r, <<Slot(at[r])>>) ELSE UNCHANGED deferred

\* queue.release: the slot passes to a request in line, if there is one.
GiveBack(r, p) ==
    \/ /\ line[p] = {}
       /\ holders' = [holders EXCEPT ![p] = @ \ {r}]
       /\ UNCHANGED line
    \/ \E q \in line[p] :
          /\ holders' = [holders EXCEPT ![p] = (@ \ {r}) \union {q}]
          /\ line' = [line EXCEPT ![p] = @ \ {q}]

-------------------------------------------------------------------------------
\* ServeHTTP has loaded the configuration, read the body and found a provider.
Arrive(r) ==
    /\ pc[r] = "idle"
    /\ \E p \in Routed[r] : /\ first' = [first EXCEPT ![r] = p]
                            /\ at' = [at EXCEPT ![r] = p]
    /\ Move(r, "entering")
    /\ UNCHANGED <<untried, attempt, calls, open, deferred, gone, pools>>

\* The request's context is cancelled.  Later that only ends the stream.
ClientLeaves(r) ==
    /\ pc[r] \notin {"idle", "streaming", "returning"} /\ r \notin gone
    /\ gone' = gone \union {r}
    /\ UNCHANGED <<pc, first, at, untried, attempt, calls, open, deferred, pools>>

\* transformRequest, Acquire or the wait in line returns an error: ServeHTTP
\* answers with it, the replay goes on to the next candidate.
Refused(r) ==
    IF OnFirst(r)
    THEN Done(r, "returning")
    ELSE Move(r, "choosing") /\ UNCHANGED <<untried, attempt, calls, gone>>

TransformFails(r) ==
    /\ pc[r] = "entering"
    /\ Refused(r)
    /\ UNCHANGED <<first, at, open, deferred, pools>>

EnterUnlimited(r) ==
    /\ pc[r] = "entering"
    /\ ~ Limited(at[r])
    /\ Move(r, "calling")
    /\ CallUpstream(r)
    /\ UNCHANGED <<first, at, untried, attempt, open, deferred, gone, pools>>

SlotIsFree(p) == line[p] = {} /\ Cardinality(holders[p]) < Limit[p]

TakeSlot(r) ==
    /\ pc[r] = "entering" /\ r \notin gone
    /\ Limited(at[r]) /\ SlotIsFree(at[r])
    /\ holders' = [holders EXCEPT ![at[r]] = @ \union {r}]
    /\ KeepSlot(r)
    /\ Move(r, "calling")
    /\ CallUpstream(r)
    /\ UNCHANGED <<first, at, untried, attempt, open, gone, line>>

JoinLine(r) ==
    /\ pc[r] = "entering" /\ r \notin gone
    /\ Limited(at[r]) /\ ~ SlotIsFree(at[r])
    /\ Cardinality(line[at[r]]) < Places[at[r]]
    /\ line' = [line EXCEPT ![at[r]] = @ \union {r}]
    /\ Move(r, "queued")
    /\ UNCHANGED <<first, at, untried, attempt, calls, open, deferred, gone, holders>>

\* ErrQueueFull, or the context is done already.
RefusedAtOnce(r) ==
    /\ pc[r] = "entering"
    /\ Limited(at[r])
    /\ r \in gone \/ (~ SlotIsFree(at[r]) /\ Cardinality(line[at[r]]) >= Places[at[r]])
    /\ Refused(r)
    /\ UNCHANGED <<first, at, open, deferred, pools>>

Granted(r) ==
    /\ pc[r] = "queued"
    /\ r \in holders[at[r]]
    /\ KeepSlot(r)
    /\ Move(r, "calling")
    /\ CallUpstream(r)
    /\ UNCHANGED <<first, at, untried, attempt, open, gone, pools>>

\* A wait in line without a timer of its own.
GiveUpWhenGone(r) ==
    /\ pc[r] = "queued" /\ r \in gone
    /\ r \in line[at[r]]
    /\ line' = [line EXCEPT ![at[r]] = @ \ {r}]
    /\ Refused(r)
    /\ UNCHANGED <<first, at, open, deferred, holders>>

\* The queue's timer or the context ends the wait, and no slot was granted
\* before tryDepart.
GiveUp(r) ==
    /\ pc[r] = "queued"
    /\ r \in line[at[r]]
    /\ line' = [line EXCEPT ![at[r]] = @ \ {r}]
    /\ Refused(r)
    /\ UNCHANGED <<first, at, open, deferred, holders>>

-------------------------------------------------------------------------------
\* A replay that keeps the slot when the call itself fails.
DropCandidateKeepingSlot(r) ==
    /\ Leave429(r, "choosing")
    /\ UNCHANGED <<open, deferred, pools>>

\* What follows an upstream call at a candidate that is of no use: its body is
\* closed and its slot given back before the next one is tried.
DropCandidate(r) ==
    /\ IF Limited(at[r]) THEN GiveBack(r, at[r]) ELSE UNCHANGED pools
    /\ Leave429(r, "choosing")
    /\ UNCHANGED <<open, deferred>>

\* The client has no response: no body to close later.
CallFails(r) ==
    /\ \/ pc[r] = "calling"
       \/ pc[r] = "backoff" /\ r \in gone
    /\ IF OnFirst(r)
       THEN Leave429(r, "failing") /\ UNCHANGED <<open, deferred, pools>>
       ELSE DropCandidate(r)
    /\ UNCHANGED <<first, at, untried, calls, gone>>

\* 429 while retries are left: the body is read and closed, then a pause.
TooManyRequests(r) ==
    /\ pc[r] = "calling"
    /\ attempt[r] < Attempts[at[r]]
    /\ attempt' = [attempt EXCEPT ![r] = @ + 1]
    /\ Move(r, "backoff")
    /\ UNCHANGED <<first, at, untried, calls, open, deferred, gone, pools>>

RetryAfterPause(r) ==
    /\ pc[r] = "backoff"
    /\ Move(r, "calling")
    /\ CallUpstream(r)
    /\ UNCHANGED <<first, at, untried, attempt, open, deferred, gone, pools>>

\* The first provider answers 400 or more, the last 429 included.  To some
\* answers of 400 the rectifier finds a cleanup and calls again.
FirstRejects(r) ==
    /\ pc[r] = "calling" /\ OnFirst(r)
    /\ open' = [open EXCEPT ![r] = @ \union {Body(at[r])}]
    /\ Defer(r, <<Body(at[r])>>)
    /\ \/ Leave429(r, "failing") /\ UNCHANGED calls
       \/ Leave429(r, "rectifying") /\ CallUpstream(r)
    /\ UNCHANGED <<first, at, untried, gone, pools>>

\* A rectifier that is tried on the answer to its own request as well.
RectifiedAgain(r) ==
    /\ pc[r] = "rectifying"
    /\ CallUpstream(r)
    /\ UNCHANGED <<pc, first, at, untried, attempt, open, deferred, gone, pools>>

\* tryRectify: its answer takes the place of the first, whatever its status;
\* when the call fails, the first answer stays.
RectifiedAnswer(r) ==
    /\ pc[r] = "rectifying"
    /\ \/ /\ Move(r, "failing")
          /\ UNCHANGED <<untried, attempt, calls, gone, open, deferred>>
       \/ /\ open' = [open EXCEPT ![r] = {Rectified(at[r])}]
          /\ Defer(r, <<Rectified(at[r])>>)
          /\ \/ Done(r, "streaming")
             \/ Move(r, "failing") /\ UNCHANGED <<untried, attempt, calls, gone>>
    /\ UNCHANGED <<first, at, pools>>

FirstAnswers(r) ==
    /\ pc[r] = "calling" /\ OnFirst(r)
    /\ open' = [open EXCEPT ![r] = @ \union {Body(at[r])}]
    /\ Defer(r, <<Body(at[r])>>)
    /\ Done(r, "streaming")
    /\ UNCHANGED <<first, at, pools>>

\* shouldFailover holds, the failure is eligible and there are candidates.
FailOver(r) ==
    /\ pc[r] = "failing"
    /\ \E chosen \in SUBSET (Providers \ {first[r]}) \ {{}} :
          untried' = [untried EXCEPT ![r] = chosen]
    /\ Move(r, "choosing")
    /\ UNCHANGED <<first, at, attempt, calls, open, deferred, gone, pools>>

TryCandidate(r) ==
    /\ pc[r] = "choosing"
    /\ \E c \in untried[r] : /\ at' = [at EXCEPT ![r] = c]
                             /\ untried' = [untried EXCEPT ![r] = @ \ {c}]
    /\ Move(r, "entering")
    /\ UNCHANGED <<first, attempt, calls, open, deferred, gone, pools>>

\* No failover, or no candidate is left: the client gets the failed response,
\* or 502 when there is none.
PassFailureOn(r) ==
    /\ \/ pc[r] = "failing"
       \/ pc[r] = "choosing" /\ untried[r] = {}
    /\ at' = [at EXCEPT ![r] = first[r]]
    /\ Done(r, IF open[r] = {} THEN "returning" ELSE "streaming")
    /\ UNCHANGED <<first, open, deferred, pools>>

CandidateRejects(r) ==
    /\ pc[r] = "calling" /\ ~ OnFirst(r)
    /\ DropCandidate(r)
    /\ UNCHANGED <<first, at, untried, calls, gone>>

\* The candidate's answer is below 400.  After a failed response its body is
\* deferred before its slot, after a failed call the other way round.
CandidateAnswers(r) ==
    /\ pc[r] = "calling" /\ ~ OnFirst(r)
    /\ open' = [open EXCEPT ![r] = @ \union {Body(at[r])}]
    /\ LET body == <<Body(at[r])>>
           slot == IF Limited(at[r]) THEN <<Slot(at[r])>> ELSE <<>>
       IN  Defer(r, IF open[r] = {} THEN body \o slot ELSE slot \o body)
    /\ Done(r, "streaming")
    /\ UNCHANGED <<first, at, pools>>

\* The response is copied to its end, or the client has left.
StreamEnds(r) ==
    /\ pc[r] = "streaming"
    /\ Move(r, "returning")
    /\ UNCHANGED <<first, at, untried, attempt, calls, open, deferred, gone, pools>>

RunDeferred(r) ==
    /\ pc[r] = "returning" /\ deferred[r] # <<>>
    /\ LET d == Head(deferred[r])
       IN  IF d[1] = "slot"
           THEN GiveBack(r, d[2]) /\ UNCHANGED open
           ELSE open' = [open EXCEPT ![r] = @ \ {d}] /\ UNCHANGED pools
    /\ deferred' = [deferred EXCEPT ![r] = Tail(@)]
    /\ UNCHANGED <<pc, first, at, untried, attempt, calls, gone>>

Return(r) ==
    /\ pc[r] = "returning" /\ deferred[r] = <<>>
    /\ Move(r, "idle")
    /\ first' = [first EXCEPT ![r] = Nobody]
    /\ at' = [at EXCEPT ![r] = Nobody]
    /\ UNCHANGED <<untried, attempt, calls, open, deferred, gone, pools>>

-------------------------------------------------------------------------------
\* What a request that has arrived does next.
Progress(r) ==
    \/ EnterUnlimited(r) \/ TakeSlot(r) \/ JoinLine(r) \/ RefusedAtOnce(r)
    \/ Granted(r) \/ GiveUp(r)
    \/ CallFails(r) \/ TooManyRequests(r) \/ RetryAfterPause(r)
    \/ FirstAnswers(r) \/ FirstRejects(r) \/ RectifiedAnswer(r)
    \/ FailOver(r) \/ PassFailureOn(r) \/ TryCandidate(r)
    \/ CandidateAnswers(r) \/ CandidateRejects(r)
    \/ StreamEnds(r) \/ RunDeferred(r) \/ Return(r)

Next ==
    \E r \in Requests :
        Arrive(r) \/ ClientLeaves(r) \/ TransformFails(r) \/ Progress(r)

Spec == Init /\ [][Next]_vars

(***************************************************************************)
(* Timers fire and goroutines are scheduled: the client's timeout of ten   *)
(* minutes bounds each call with its stream, the queue has a timer, a      *)
(* pause a length.  Nothing is assumed of other requests or of slots.      *)
(***************************************************************************)
Fairness == \A r \in Requests : WF_vars(Progress(r))

FairSpec == Spec /\ Fairness

-------------------------------------------------------------------------------
\* A call of r at p is under way, or pauses, or its response is being read.
UsesUpstream(r, p) ==
    \/ at[r] = p /\ pc[r] \in {"calling", "backoff", "rectifying"}
    \/ pc[r] # "returning" /\ {Body(p), Rectified(p)} \intersect open[r] # {}

\* MaxConcurrentRequests bounds what a provider sees, first calls, retries,
\* rectified calls, replays and streams together: whoever uses it has a slot.
LimitsHold ==
    \A p \in {q \in Providers : Limited(q)} :
        /\ Cardinality(holders[p]) <= Limit[p]
        /\ \A r \in Requests : UsesUpstream(r, p) => r \in holders[p]

\* What the deferred functions of r will give back.
WillGiveBack(r) == ToSet(deferred[r])

\* A slot or an open body is of the provider r was routed to or of the
\* candidate at hand, and unless r is about to decide about that candidate, a
\* deferred function gives it back: nothing is left of a request that ended.
NothingKept ==
    \A r \in Requests, p \in Providers :
        /\ r \in holders[p] =>
              \/ Slot(p) \in WillGiveBack(r)
              \/ at[r] = p /\ pc[r] \in {"queued", "calling", "backoff"}
        /\ \A b \in {Body(p), Rectified(p)} :
              b \in open[r] => p \in {first[r], at[r]} /\ b \in WillGiveBack(r)

\* Slots and response bodies follow the request through retries, rectifier and
\* replay: the limits hold and nothing is kept (handler.go:199, 430-542,
\* retry429.go:82-130).
SlotsFollowRequests == LimitsHold /\ NothingKept

\* What happens to the slots and the line of one provider is what its queue
\* does while its settings stay: nothing is taken beside the line, and what is
\* given back goes to whoever waits (handler.go:177-204; queue.go:36-107).
Slots(p) == INSTANCE FixedPool WITH
                Callers <- Requests, Limit <- Limit[p], Room <- Places[p],
                holders <- holders[p], line <- line[p]
UsesFixedPools ==
    /\ \A p \in Providers : Slots(p)!FixedInit
    /\ [][\A p \in Providers : [Slots(p)!FixedNext]_(Slots(p)!fixedVars)]_vars

\* Every request ends, though two requests may each hold the slot the other
\* queues for (handler.go:199, 525; queue.go:58-74).
RequestsEnd == \A r \in Requests : pc[r] # "idle" ~> pc[r] = "idle"
===============================================================================
