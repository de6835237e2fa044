------------------------------- MODULE Failover -------------------------------
(***************************************************************************)
(* Automatic failover of the default provider: failover/manager.go with    *)
(* the part of the proxy handler that drives it, the admin handlers that   *)
(* change what it reads, and the quota hook of cmd/server/main.go.         *)
(*                                                                         *)
(* Each action is one critical section (m.mu, or the configuration store's *)
(* own lock inside Update) or one call upstream.  Between two of them any  *)
(* other request, admin call or quota query may run.  An admin handler     *)
(* that saves the configuration first and calls the failover manager next  *)
(* is two actions, joined by an element of calls; so is one that tests a   *)
(* provider and reports the outcome.  A manager call that changes the      *)
(* database and inserts an event row after it is two actions, joined by    *)
(* owed: it keeps m.mu, so no other manager call runs meanwhile, but the   *)
(* admin may save the configuration and the process may end.               *)
(*                                                                         *)
(* Time is relative: left[p] counts the ticks until disabled_until, a Tick *)
(* shortens them all.  An expired row stays in the table with left 0.      *)
(***************************************************************************)
EXTENDS Naturals, Sequences, FiniteSets

CONSTANTS
    Providers,     \* provider identifiers
    Nobody,        \* the empty provider identifier
    Requests,      \* the goroutines that serve POST /v1/messages
    MappedModel,   \* the backend model each provider maps the asked model to
    TimedKinds,    \* the state kinds that recover by time, quota among them
    MaxLeft,       \* the longest cooldown, in ticks
    MaxEdits,      \* bound on how often the admin saves the configuration
    SaveOutcomes,  \* whether a save inside Update succeeds
    InitialOrder   \* the providers configured when the program starts

Quota == "quota_exhausted"
Credential == "credential_invalid"
Kinds == TimedKinds \union {Credential}

ASSUME FailoverAssumption ==
    /\ IsFiniteSet(Providers)
    /\ Nobody \notin Providers
    /\ Quota \in TimedKinds
    /\ Credential \notin TimedKinds /\ "none" \notin TimedKinds
    /\ MaxLeft \in Nat /\ MaxEdits \in Nat
    /\ SaveOutcomes \in SUBSET BOOLEAN /\ TRUE \in SaveOutcomes
    /\ InitialOrder \in Seq(Providers)
    /\ \A i, j \in DOMAIN InitialOrder : InitialOrder[i] = InitialOrder[j] => i = j

VARIABLES
    order,       \* cfg.Providers, as their identifiers
    enabled,     \* those of them with Enabled set
    active,      \* cfg.ActiveProviderID
    auto,        \* cfg.AutoFailoverEnabled
    edits,       \* how often the configuration was saved
    quarantine,  \* the table provider_failover_state
    event,       \* the row the last step added to provider_failover_events
    owed,        \* the row the manager call that holds m.mu has yet to add
    calls,       \* failover manager calls an admin handler may have yet to make
    up,          \* the process is running
    pc,          \* where each request is
    snapshot,    \* order and enabled as the request loaded them
    failed,      \* the provider the request was routed to
    kind,        \* the kind of its failure
    candidates,  \* the candidates the request has not tried
    winner       \* the candidate that answered

config == <<order, enabled, active, auto, edits>>
table == <<quarantine, calls, owed>>
request == <<pc, snapshot, failed, kind, candidates, winner>>
vars == <<config, table, event, request, up>>

Stages == {"idle", "forwarding", "quarantining", "selecting", "replaying",
           "committing", "exhausted"}

Listed(s) == {s[i] : i \in DOMAIN s}

Before(p, q, s) == \E i, j \in DOMAIN s : i < j /\ s[i] = p /\ s[j] = q

NoSnapshot == [order |-> <<>>, enabled |-> {}]

Row(k, n) == [kind |-> k, left |-> n]
NoRow == Row("none", 0)
Rows == {NoRow, Row(Credential, 0)} \union [kind : TimedKinds, left : 0 .. MaxLeft]

\* The reason of a recovered row is the kind of the row that was lifted, that
\* of the others what ClassifyResponse found.
Event(outcome, reason, from, to) ==
    [outcome |-> outcome, reason |-> reason, from |-> from, to |-> to]
NoEvent == Event("none", "none", Nobody, Nobody)
EventRows == {NoEvent}
    \union {Event("switched", "failure", p, q) : p, q \in Providers}
    \union {Event("exhausted", "failure", p, Nobody) : p \in Providers}
    \union {Event("recovered", k, p, Nobody) : k \in {Quota, Credential}, p \in Providers}

ConfigOK ==
    /\ order \in Seq(Providers)
    /\ \A i, j \in DOMAIN order : order[i] = order[j] => i = j
    /\ enabled \subseteq Listed(order)
    /\ active \in Listed(order) \union {Nobody}
    /\ auto \in BOOLEAN
    /\ edits \in 0 .. MaxEdits

TableOK ==
    /\ quarantine \in [Providers -> Rows]
    /\ event \in EventRows /\ owed \in EventRows
    /\ calls \subseteq {"delete", "credential", "test"} \X Providers

RequestOK ==
    /\ pc \in [Requests -> Stages]
    /\ snapshot \in [Requests -> [order : Seq(Providers), enabled : SUBSET Providers]]
    /\ failed \in [Requests -> Providers \union {Nobody}]
    /\ kind \in [Requests -> Kinds \union {"none"}]
    /\ candidates \in [Requests -> SUBSET Providers]
    /\ winner \in [Requests -> Providers \union {Nobody}]

TypeOK == ConfigOK /\ TableOK /\ RequestOK /\ up \in BOOLEAN

\* The member of S that comes first in the sequence s.
FirstOf(S, s) == CHOOSE p \in S : \A q \in S \ {p} : Before(p, q, s)

\* Config.GetActiveProvider: the stored provider while it is enabled, else the
\* first enabled one, else none.
Default ==
    IF active \in enabled THEN active
    ELSE IF enabled = {} THEN Nobody
    ELSE FirstOf(enabled, order)

\* FailoverState.IsQuarantinedAt, now.
IsQuarantined(p) == quarantine[p].kind = Credential \/ quarantine[p].left > 0

Init ==
    /\ order = InitialOrder
    /\ enabled \in SUBSET Listed(InitialOrder)
    /\ active \in Listed(InitialOrder) \union {Nobody}
    /\ auto \in BOOLEAN
    /\ edits = 0
    /\ quarantine = [p \in Providers |-> NoRow]
    /\ event = NoEvent
    /\ owed = NoEvent
    /\ calls = {}
    /\ up = TRUE
    /\ pc = [r \in Requests |-> "idle"]
    /\ snapshot = [r \in Requests |-> NoSnapshot]
    /\ failed = [r \in Requests |-> Nobody]
    /\ kind = [r \in Requests |-> "none"]
    /\ candidates = [r \in Requests |-> {}]
    /\ winner = [r \in Requests |-> Nobody]

\* A failover manager call may take m.mu.
ManagerFree == owed = NoEvent

Move(r, stage) == pc' = [pc EXCEPT ![r] = stage]

\* The request returns: nothing of it is kept.
Finish(r) ==
    /\ Move(r, "idle")
    /\ snapshot' = [snapshot EXCEPT ![r] = NoSnapshot]
    /\ failed' = [failed EXCEPT ![r] = Nobody]
    /\ kind' = [kind EXCEPT ![r] = "none"]
    /\ candidates' = [candidates EXCEPT ![r] = {}]
    /\ winner' = [winner EXCEPT ![r] = Nobody]

-------------------------------------------------------------------------------
\* ServeHTTP loads the configuration, ResolveRoute falls back to the default
\* provider.  With auto off the request will not fail over and keeps nothing.
RouteToDefault(r) ==
    /\ pc[r] = "idle"
    /\ Default # Nobody
    /\ Move(r, "forwarding")
    /\ failed' = [failed EXCEPT ![r] = Default]
    /\ snapshot' = IF auto
                   THEN [snapshot EXCEPT ![r] = [order |-> order, enabled |-> enabled]]
                   ELSE snapshot
    /\ event' = NoEvent
    /\ UNCHANGED <<config, table, kind, candidates, winner>>

\* The model is one some enabled provider exposes: a fixed route.
RouteToExposed(r) ==
    /\ pc[r] = "idle"
    /\ \E p \in enabled : failed' = [failed EXCEPT ![r] = p]
    /\ Move(r, "forwarding")
    /\ event' = NoEvent
    /\ UNCHANGED <<config, table, snapshot, kind, candidates, winner>>

\* shouldFailover and shouldFailoverOnError, of the configuration loaded above.
MayFailOver(r) == snapshot[r] # NoSnapshot

\* The upstream call ends in something that is passed on to the client: a
\* response below 400, one that ClassifyResponse does not call eligible, a
\* refusal of the rate limit queue, or any failure of a request that may not
\* fail over.
Answer(r) ==
    /\ pc[r] = "forwarding"
    /\ Finish(r)
    /\ event' = NoEvent
    /\ UNCHANGED <<config, table>>

\* ClassifyResponse or ClassifyError finds an eligible failure.
Fail(r) ==
    /\ pc[r] = "forwarding"
    /\ MayFailOver(r)
    /\ \E k \in Kinds : kind' = [kind EXCEPT ![r] = k]
    /\ Move(r, "quarantining")
    /\ event' = NoEvent
    /\ UNCHANGED <<config, table, snapshot, failed, candidates, winner>>

\* The state kind k written for provider p now.
Quarantined(p, k) ==
    IF k = Credential
    THEN quarantine' = [quarantine EXCEPT ![p] = Row(Credential, 0)]
    ELSE \E n \in 1 .. MaxLeft : quarantine' = [quarantine EXCEPT ![p] = Row(k, n)]

QuarantineFailed(r) ==
    /\ pc[r] = "quarantining"
    /\ ManagerFree
    /\ IF quarantine[failed[r]].kind = Credential /\ kind[r] # Credential
       THEN UNCHANGED quarantine
       ELSE Quarantined(failed[r], kind[r])
    /\ kind' = [kind EXCEPT ![r] = "none"]
    /\ Move(r, "selecting")
    /\ event' = NoEvent
    /\ UNCHANGED <<config, calls, owed, snapshot, failed, candidates, winner>>

\* A selection that trusts the quarantine alone to exclude the failed provider.
SelectCandidatesWithFailed(r) ==
    /\ pc[r] = "selecting"
    /\ ManagerFree
    /\ LET chosen == {p \in snapshot[r].enabled : ~ IsQuarantined(p)}
       IN  /\ candidates' = [candidates EXCEPT ![r] = chosen]
           /\ Move(r, IF chosen = {} THEN "exhausted" ELSE "replaying")
    /\ event' = NoEvent
    /\ UNCHANGED <<config, table, snapshot, failed, kind, winner>>

SelectCandidates(r) ==
    /\ pc[r] = "selecting"
    /\ ManagerFree
    /\ LET chosen == {p \in snapshot[r].enabled \ {failed[r]} : ~ IsQuarantined(p)}
       IN  /\ candidates' = [candidates EXCEPT ![r] = chosen]
           /\ Move(r, IF chosen = {} THEN "exhausted" ELSE "replaying")
    /\ event' = NoEvent
    /\ UNCHANGED <<config, table, snapshot, failed, kind, winner>>

SameModel(p, r) == MappedModel[p] = MappedModel[failed[r]]

\* The head of SelectCandidates' list: the candidates that map the model as
\* the failed provider did, in configuration order, then the others.
NextCandidate(r) ==
    LET same == {p \in candidates[r] : SameModel(p, r)}
    IN  FirstOf(IF same = {} THEN candidates[r] ELSE same, snapshot[r].order)

\* runCandidateReplay: the candidate's response is below 400.
CandidateAnswers(r) ==
    /\ pc[r] = "replaying"
    /\ winner' = [winner EXCEPT ![r] = NextCandidate(r)]
    /\ candidates' = [candidates EXCEPT ![r] = @ \ {NextCandidate(r)}]
    /\ Move(r, "committing")
    /\ event' = NoEvent
    /\ UNCHANGED <<config, table, snapshot, failed, kind>>

\* Its queue refuses, the call errs, or the response is 400 or above.
CandidateFails(r) ==
    /\ pc[r] = "replaying"
    /\ LET rest == candidates[r] \ {NextCandidate(r)}
       IN  /\ candidates' = [candidates EXCEPT ![r] = rest]
           /\ Move(r, IF rest = {} THEN "exhausted" ELSE "replaying")
    /\ event' = NoEvent
    /\ UNCHANGED <<config, table, snapshot, failed, kind, winner>>

\* A switch that looks only at the candidate, not at who the default is by now.
CommitSwitchUncompared(r) ==
    /\ pc[r] = "committing"
    /\ ManagerFree
    /\ IF winner[r] \in enabled
       THEN /\ active' = winner[r]
            /\ owed' = Event("switched", "failure", failed[r], winner[r])
       ELSE UNCHANGED <<active, owed>>
    /\ event' = NoEvent
    /\ Finish(r)
    /\ UNCHANGED <<order, enabled, auto, edits, quarantine, calls>>

\* CommitSwitch: inside Update, if the effective default is still the provider
\* that failed and the winner is still there and enabled.  What Update returns
\* is dropped, so the row is owed even when the save failed.
CommitSwitch(r) ==
    /\ pc[r] = "committing"
    /\ ManagerFree
    /\ IF Default = failed[r] /\ winner[r] \in enabled
       THEN /\ \E saved \in SaveOutcomes : active' = IF saved THEN winner[r] ELSE active
            /\ owed' = Event("switched", "failure", failed[r], winner[r])
       ELSE UNCHANGED <<active, owed>>
    /\ event' = NoEvent
    /\ Finish(r)
    /\ UNCHANGED <<order, enabled, auto, edits, quarantine, calls>>

\* The manager call under way adds its row and lets go of m.mu.
InsertEvent ==
    /\ owed # NoEvent
    /\ event' = owed
    /\ owed' = NoEvent
    /\ UNCHANGED <<config, quarantine, calls, request>>

\* No candidate is left: the original failure is passed on to the client.
RecordExhausted(r) ==
    /\ pc[r] = "exhausted"
    /\ ManagerFree
    /\ event' = Event("exhausted", "failure", failed[r], Nobody)
    /\ Finish(r)
    /\ UNCHANGED <<config, table>>

-------------------------------------------------------------------------------
\* One save of the configuration by the admin.
Save == edits < MaxEdits /\ edits' = edits + 1 /\ event' = NoEvent /\ UNCHANGED request

\* An import that appends what it should have found listed.
AddProviderTwice(p) ==
    /\ Save
    /\ order' = Append(order, p)
    /\ enabled' = enabled \union {p}
    /\ UNCHANGED <<active, auto, table>>

\* createProvider with a fresh identifier, or the import of one not listed.
\* Only createProvider activates the first provider.
AddProvider(p) ==
    /\ Save
    /\ p \notin Listed(order)
    /\ order' = Append(order, p)
    /\ \/ /\ quarantine[p] = NoRow
          /\ enabled' = enabled \union {p}
          /\ active' = IF order = <<>> THEN p ELSE active
       \/ /\ enabled' \in {enabled, enabled \union {p}}
          /\ UNCHANGED active
    /\ UNCHANGED <<auto, table>>

\* updateProvider: it leaves ActiveProviderID alone, and has
\* ClearCredentialFailure called when the token changed.
UpdateProvider(p) ==
    /\ Save
    /\ p \in Listed(order)
    /\ enabled' \in {enabled \ {p}, enabled \union {p}}
    /\ calls' \in {calls, calls \union {<<"credential", p>>}}
    /\ UNCHANGED <<order, active, auto, quarantine, owed>>

\* handleProviderToggle: disabling the stored default clears it.
ToggleProvider(p) ==
    /\ Save
    /\ p \in Listed(order)
    /\ enabled' = IF p \in enabled THEN enabled \ {p} ELSE enabled \union {p}
    /\ active' = IF p \in enabled /\ active = p THEN Nobody ELSE active
    /\ UNCHANGED <<order, auto, table>>

\* deleteProvider: the first one left becomes the stored default, enabled or not.
DeleteProvider(p) ==
    /\ Save
    /\ \E i \in DOMAIN order :
         /\ order[i] = p
         /\ order' = [j \in 1 .. Len(order) - 1 |-> order[IF j < i THEN j ELSE j + 1]]
    /\ enabled' = enabled \ {p}
    /\ active' = IF active # p THEN active
                 ELSE IF order' = <<>> THEN Nobody ELSE Head(order')
    /\ calls' = calls \union {<<"delete", p>>}
    /\ UNCHANGED <<auto, quarantine, owed>>

\* handleProviderActivate.
ActivateProvider(p) ==
    /\ Save
    /\ p \in enabled
    /\ active' = p
    /\ UNCHANGED <<order, enabled, auto, table>>

\* handleProviderOrder: a permutation, and the effective default is stored when
\* the stored one is not enabled, lest the new order choose another.
ReorderProviders ==
    /\ Save
    /\ order' \in [DOMAIN order -> Listed(order)]
    /\ \A i, j \in DOMAIN order : order'[i] = order'[j] => i = j
    /\ Listed(order') = Listed(order)
    /\ active' = IF active \in enabled \/ Default = Nobody THEN active ELSE Default
    /\ UNCHANGED <<enabled, auto, table>>

\* putFailoverSettings.
SetAutoFailover ==
    /\ Save
    /\ auto' \in BOOLEAN
    /\ UNCHANGED <<order, enabled, active, table>>

\* ClearCredentialFailure, with tokenChanged or testSucceeded.
ClearCredentialFailure(p) ==
    /\ ManagerFree
    /\ IF quarantine[p].kind = Credential
       THEN /\ quarantine' = [quarantine EXCEPT ![p] = NoRow]
            /\ owed' = Event("recovered", Credential, p, Nobody)
       ELSE UNCHANGED <<quarantine, owed>>
    /\ event' = NoEvent

\* updateProvider's second half.
TokenChanged(p) ==
    /\ <<"credential", p>> \in calls
    /\ calls' = calls \ {<<"credential", p>>}
    /\ ClearCredentialFailure(p)
    /\ UNCHANGED <<config, request>>

\* handleTestProviderByID finds p listed and asks it.
StartTest(p) ==
    /\ p \in Listed(order)
    /\ calls' = calls \union {<<"test", p>>}
    /\ event' = NoEvent
    /\ UNCHANGED <<config, quarantine, owed, request>>

\* p answers the test, and not with a 401.  It may have been deleted meanwhile.
TestSucceeds(p) ==
    /\ <<"test", p>> \in calls
    /\ calls' = calls \ {<<"test", p>>}
    /\ ClearCredentialFailure(p)
    /\ UNCHANGED <<config, request>>

\* p answers with a 401, or not at all: the manager is not called.
TestFails(p) ==
    /\ <<"test", p>> \in calls
    /\ calls' = calls \ {<<"test", p>>}
    /\ event' = NoEvent
    /\ UNCHANGED <<config, quarantine, owed, request>>

\* OnProviderDeleted.
OnProviderDeleted(p) ==
    /\ <<"delete", p>> \in calls
    /\ ManagerFree
    /\ calls' = calls \ {<<"delete", p>>}
    /\ quarantine' = [quarantine EXCEPT ![p] = NoRow]
    /\ event' = NoEvent
    /\ UNCHANGED <<config, owed, request>>

\* The quota hook's ReconcileQuotaSnapshot(p, true, reset).  A query started
\* before p was deleted may still report.
ReconcileExhausted(p) ==
    /\ ManagerFree
    /\ IF quarantine[p].kind = Credential
       THEN UNCHANGED quarantine
       ELSE Quarantined(p, Quota)
    /\ event' = NoEvent
    /\ UNCHANGED <<config, calls, owed, request>>

\* A report of recovered quota that lifts whatever keeps the provider out.
ReconcileRecoveredFromAll(p) ==
    /\ ManagerFree
    /\ IF quarantine[p] # NoRow
       THEN /\ quarantine' = [quarantine EXCEPT ![p] = NoRow]
            /\ owed' = Event("recovered", Quota, p, Nobody)
       ELSE UNCHANGED <<quarantine, owed>>
    /\ event' = NoEvent
    /\ UNCHANGED <<config, calls, request>>

\* ReconcileQuotaSnapshot(p, false, zero).
ReconcileRecovered(p) ==
    /\ ManagerFree
    /\ IF quarantine[p].kind = Quota
       THEN /\ quarantine' = [quarantine EXCEPT ![p] = NoRow]
            /\ owed' = Event("recovered", Quota, p, Nobody)
       ELSE UNCHANGED <<quarantine, owed>>
    /\ event' = NoEvent
    /\ UNCHANGED <<config, calls, request>>

\* Time passes.
Tick ==
    /\ quarantine' = [p \in Providers |->
                        Row(quarantine[p].kind,
                            IF quarantine[p].left > 0 THEN quarantine[p].left - 1 ELSE 0)]
    /\ event' = NoEvent
    /\ UNCHANGED <<config, calls, owed, request, up>>

\* The process ends, whatever it is doing: the database is all that is left.
Stop ==
    /\ up
    /\ up' = FALSE
    /\ calls' = {}
    /\ owed' = NoEvent
    /\ pc' = [r \in Requests |-> "idle"]
    /\ snapshot' = [r \in Requests |-> NoSnapshot]
    /\ failed' = [r \in Requests |-> Nobody]
    /\ kind' = [r \in Requests |-> "none"]
    /\ candidates' = [r \in Requests |-> {}]
    /\ winner' = [r \in Requests |-> Nobody]
    /\ event' = NoEvent
    /\ UNCHANGED <<config, quarantine>>

\* main starts it again.
Start ==
    /\ ~ up
    /\ up' = TRUE
    /\ event' = NoEvent
    /\ UNCHANGED <<config, table, request>>

-------------------------------------------------------------------------------
Serve(r) ==
    \/ RouteToDefault(r) \/ RouteToExposed(r) \/ Answer(r) \/ Fail(r)
    \/ QuarantineFailed(r) \/ SelectCandidates(r)
    \/ CandidateAnswers(r) \/ CandidateFails(r) \/ CommitSwitch(r) \/ RecordExhausted(r)

Admin(p) ==
    \/ AddProvider(p) \/ UpdateProvider(p) \/ ToggleProvider(p)
    \/ DeleteProvider(p) \/ ActivateProvider(p) \/ OnProviderDeleted(p)
    \/ TokenChanged(p) \/ StartTest(p) \/ TestSucceeds(p) \/ TestFails(p)

QuotaHook(p) == ReconcileExhausted(p) \/ ReconcileRecovered(p)

\* What the running process does.
Running ==
    \/ \E r \in Requests : Serve(r)
    \/ \E p \in Providers : Admin(p) \/ QuotaHook(p)
    \/ InsertEvent \/ ReorderProviders \/ SetAutoFailover

Next == (up /\ Running /\ UNCHANGED up) \/ Tick \/ Stop \/ Start

Spec == Init /\ [][Next]_vars

-------------------------------------------------------------------------------
\* What a request in failover relies on, whatever was saved meanwhile: it was
\* allowed to fail over when it loaded the configuration, the provider that
\* failed is not tried again, what is left to try was enabled in that
\* configuration, and there is something to try while it replays (handler.go:516-542).
FailoverIsSound ==
    \A r \in Requests :
        pc[r] \in {"quarantining", "selecting", "replaying", "committing", "exhausted"} =>
            /\ MayFailOver(r)
            /\ candidates[r] \subseteq snapshot[r].enabled \ {failed[r]}
            /\ pc[r] = "replaying" => candidates[r] # {}
            /\ pc[r] = "committing" =>
                 winner[r] \in snapshot[r].enabled \ ({failed[r]} \union candidates[r])

\* A step that may lift the invalid credential of p.
Lifts(p) ==
    \/ <<"delete", p>> \in calls \ calls'
    \/ /\ {<<"credential", p>>, <<"test", p>>} \intersect (calls \ calls') # {}
       /\ owed' = Event("recovered", Credential, p, Nobody)

\* An invalid credential keeps its provider out of the candidates until an
\* admin handler ends that deleted the provider, or that changed its token or
\* tested it; the latter two have the event list name the credential as what
\* recovered.  No other failure, no quota report, no passing of time and no end
\* of the process lifts it (manager.go:50-52, 163-185, 187-188).
CredentialSticks ==
    [][\A p \in Providers :
         quarantine[p].kind = Credential /\ quarantine'[p].kind # Credential =>
             Lifts(p)]_vars

\* The default provider moves only by a switch away from the provider that is
\* the default at that moment, so of several requests that saw it fail one wins,
\* or by a save of the admin that chooses another, takes it away or enables one:
\* adding, deleting or moving other providers does not move it.  The event list
\* tells each switch, and no other, before anything else of failover happens; a
\* row is lost only when the process ends between the two writes (manager.go:96-144,
\* provider_order_handler.go, config.go's GetActiveProvider).
Abstract == INSTANCE DefaultProvider
    WITH usable <- enabled, default <- Default, running <- up,
         untold <- IF owed.outcome = "switched" THEN owed ELSE NoEvent
ImplementsDefaultProvider == Abstract!DefaultSpec

\* The comment on CommitSwitch: a switched row is written when the switch
\* succeeded (manager.go:96-97).
SwitchedRowsAreTrue ==
    [][owed' # owed /\ owed'.outcome = "switched" => Default' = owed'.to]_vars
===============================================================================
