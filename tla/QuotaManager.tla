----------------------------- MODULE QuotaManager -----------------------------
(***************************************************************************)
(* Quota queries of the providers: providerquota/manager.go, the snapshot  *)
(* table it writes, and the admin handlers that invalidate what it wrote.  *)
(*                                                                         *)
(* A caller is a goroutine of the scheduler or of an admin request, one    *)
(* query after another; which providers are due is left to it, so that a   *)
(* query may start at any time.  What the admin saves is a version number: *)
(* card[p] is the address and token in force, settings[p] the quota query  *)
(* settings.  A query loads the provider twice, once for each, so it asks  *)
(* with a pair of versions.  Whether the provider is enabled and whether   *)
(* its settings make a query is left open: it may always turn out not to.  *)
(***************************************************************************)
EXTENDS Naturals, FiniteSets

CONSTANTS
    Providers,       \* provider identifiers
    Callers,         \* goroutines that query
    MaxConcurrency,  \* capacity of the semaphore
    MaxVersion,      \* bound on how often each provider is saved or imported
    Lapses           \* the ways in which settings change without isMaterialQuotaChange
                     \* noticing that the admin uses: "overlap", "secondSecret"

ASSUME QuotaAssumption ==
    /\ IsFiniteSet(Callers)
    /\ MaxConcurrency \in Nat \ {0}
    /\ MaxVersion \in Nat \ {0}
    /\ Lapses \subseteq {"overlap", "secondSecret"}

VARIABLES
    exists,       \* the providers in the configuration
    version,      \* the newest version of each provider
    card,         \* the version of its address and token
    settings,     \* the version of its quota settings
    loaded,       \* the settings an interval edit loaded and has yet to save, or 0
    born,         \* the version with which the provider was last added
    uncleaned,    \* saves whose handler has yet to call DeleteSnapshot
    generation,   \* snapshotGenerations
    snapshot,     \* the table provider_quota_snapshots
    inFlight,     \* the keys of m.inFlight, each <<provider, generation>>
    finished,     \* those of them whose done channel is closed
    pc,           \* where each caller is
    key,          \* the key the caller queries under
    asked,        \* the versions it loaded: of the card, of the quota settings
    success       \* whether upstream's answer is a success

config == <<exists, version, card, settings, loaded, born, uncleaned>>
flight == <<inFlight, finished>>
query == <<key, asked, success>>
vars == <<config, generation, snapshot, flight, pc, query>>

Places == {"idle", "joining", "waiting", "answered", "loading", "resolving",
           "acquiring", "querying", "persisting", "reporting", "finishing", "cleaning",
           "draftAcquiring", "drafting"}

Versions == 1 .. MaxVersion
Keys == Providers \X Nat
Nowhere == <<>>  \* the key of a caller that queries nothing
Unasked == <<0, 0>>

\* A row: the versions behind result_json and behind last_success_json.
NoSnapshot == [result |-> Unasked, lastSuccess |-> Unasked]

TypeOK ==
    /\ exists \subseteq Providers
    /\ version \in [Providers -> Versions]
    /\ card \in [Providers -> Versions]
    /\ settings \in [Providers -> Versions]
    /\ loaded \in [Providers -> Versions \union {0}]
    /\ born \in [Providers -> Versions]
    /\ uncleaned \in [Providers -> Nat]
    /\ generation \in [Providers -> Nat]
    /\ snapshot \in [Providers -> [result : Nat \X Nat, lastSuccess : Nat \X Nat]]
    /\ inFlight \subseteq Keys
    /\ finished \subseteq inFlight
    /\ pc \in [Callers -> Places]
    /\ key \in [Callers -> Keys \union {Nowhere}]
    /\ asked \in [Callers -> Nat \X Nat]
    /\ success \in [Callers -> BOOLEAN]

Init ==
    /\ exists = Providers
    /\ version = [p \in Providers |-> 1]
    /\ card = [p \in Providers |-> 1]
    /\ settings = [p \in Providers |-> 1]
    /\ loaded = [p \in Providers |-> 0]
    /\ born = [p \in Providers |-> 1]
    /\ uncleaned = [p \in Providers |-> 0]
    /\ generation = [p \in Providers |-> 0]
    /\ snapshot = [p \in Providers |-> NoSnapshot]
    /\ inFlight = {}
    /\ finished = {}
    /\ pc = [c \in Callers |-> "idle"]
    /\ key = [c \in Callers |-> Nowhere]
    /\ asked = [c \in Callers |-> Unasked]
    /\ success = [c \in Callers |-> FALSE]

Move(c, place) == pc' = [pc EXCEPT ![c] = place]

\* The caller's Query has returned.
Return(c) ==
    /\ Move(c, "idle")
    /\ key' = [key EXCEPT ![c] = Nowhere]
    /\ asked' = [asked EXCEPT ![c] = Unasked]
    /\ success' = [success EXCEPT ![c] = FALSE]

-------------------------------------------------------------------------------
\* Query, first lock: the generation it will deduplicate and persist under.
Begin(c) ==
    /\ pc[c] = "idle"
    /\ \E p \in Providers : key' = [key EXCEPT ![c] = <<p, generation[p]>>]
    /\ Move(c, "joining")
    /\ UNCHANGED <<config, generation, snapshot, flight, asked, success>>

\* A join that never looks for a query under way.
LeadAlways(c) ==
    /\ pc[c] = "joining"
    /\ inFlight' = inFlight \union {key[c]}
    /\ Move(c, "loading")
    /\ UNCHANGED <<config, generation, snapshot, finished, query>>

\* Query, second lock: nobody queries under this key, so this caller does.
Lead(c) ==
    /\ pc[c] = "joining"
    /\ key[c] \notin inFlight
    /\ inFlight' = inFlight \union {key[c]}
    /\ Move(c, "loading")
    /\ UNCHANGED <<config, generation, snapshot, finished, query>>

\* ... or the caller waits for the one that does.
Follow(c) ==
    /\ pc[c] = "joining"
    /\ key[c] \in inFlight
    /\ Move(c, IF key[c] \in finished THEN "answered" ELSE "waiting")
    /\ UNCHANGED <<config, generation, snapshot, flight, query>>

\* The shared result, or the end of the follower's own context.
FollowerReturns(c) ==
    /\ pc[c] \in {"waiting", "answered"}
    /\ Return(c)
    /\ UNCHANGED <<config, generation, snapshot, flight>>

Provider(c) == key[c][1]

\* executeQuery, first load: the card's address and token, if there is a card.
LoadCard(c) ==
    /\ pc[c] = "loading"
    /\ asked' = [asked EXCEPT ![c] =
                   <<IF Provider(c) \in exists THEN card[Provider(c)] ELSE 0, @[2]>>]
    /\ Move(c, "resolving")
    /\ UNCHANGED <<config, generation, snapshot, flight, key, success>>

\* executeQuery, second load: the quota settings, from which the plan follows.
LoadQuotaConfig(c) ==
    /\ pc[c] = "resolving"
    /\ Provider(c) \in exists
    /\ asked' = [asked EXCEPT ![c] = <<@[1], settings[Provider(c)]>>]
    /\ Move(c, "acquiring")
    /\ UNCHANGED <<config, generation, snapshot, flight, key, success>>

\* The provider is gone, disabled or has no enabled quota query, or the plan
\* does not resolve: a result that is returned and not stored.
NotConfigured(c) ==
    /\ pc[c] = "resolving"
    /\ Move(c, "finishing")
    /\ UNCHANGED <<config, generation, snapshot, flight, query>>

Running == {c \in Callers : pc[c] \in {"querying", "persisting", "reporting", "drafting"}}

AcquireSlot(c) ==
    /\ pc[c] = "acquiring"
    /\ Cardinality(Running) < MaxConcurrency
    /\ Move(c, "querying")
    /\ UNCHANGED <<config, generation, snapshot, flight, query>>

\* The leader's context ends while it waits for the semaphore, or the script
\* executor errs: its error is every follower's too, and nothing is stored.
QueryErrs(c) ==
    /\ pc[c] \in {"acquiring", "querying"}
    /\ Move(c, "finishing")
    /\ UNCHANGED <<config, generation, snapshot, flight, query>>

\* Upstream answers, well or badly.
UpstreamAnswers(c) ==
    /\ pc[c] = "querying"
    /\ \E ok \in BOOLEAN : success' = [success EXCEPT ![c] = ok]
    /\ Move(c, "persisting")
    /\ UNCHANGED <<config, generation, snapshot, flight, key, asked>>

\* SaveUpsert: a failure leaves last_success_json as it is.
Row(c) ==
    [result |-> asked[c],
     lastSuccess |-> IF success[c] THEN asked[c] ELSE snapshot[Provider(c)].lastSuccess]

\* A persist that does not compare generations.
PersistAnyway(c) ==
    /\ pc[c] = "persisting"
    /\ Provider(c) \in exists
    /\ snapshot' = [snapshot EXCEPT ![Provider(c)] = Row(c)]
    /\ Move(c, "reporting")
    /\ UNCHANGED <<config, generation, flight, query>>

\* executeQuery, under snapshotMu: nothing was invalidated since the query
\* began, and the row is stored.
Persist(c) ==
    /\ pc[c] = "persisting"
    /\ generation[Provider(c)] = key[c][2]
    /\ Provider(c) \in exists
    /\ snapshot' = [snapshot EXCEPT ![Provider(c)] = Row(c)]
    /\ Move(c, "reporting")
    /\ UNCHANGED <<config, generation, flight, query>>

\* The table refuses the row: the foreign key of a deleted provider, or an error
\* of the database.
PersistFails(c) ==
    /\ pc[c] = "persisting"
    /\ generation[Provider(c)] = key[c][2]
    /\ Move(c, "finishing")
    /\ UNCHANGED <<config, generation, snapshot, flight, query>>

\* The result was invalidated: nothing is stored, which is not an error, so the
\* hook is called all the same.
PersistInvalidated(c) ==
    /\ pc[c] = "persisting"
    /\ generation[Provider(c)] # key[c][2]
    /\ Move(c, "reporting")
    /\ UNCHANGED <<config, generation, snapshot, flight, query>>

\* The snapshot hook, outside the lock: what it does is Failover's QuotaHook.
CallHook(c) ==
    /\ pc[c] = "reporting"
    /\ Move(c, "finishing")
    /\ UNCHANGED <<config, generation, snapshot, flight, query>>

\* A leader that forgets to close its done channel.
FinishSilently(c) ==
    /\ pc[c] = "finishing"
    /\ Move(c, "cleaning")
    /\ UNCHANGED <<config, generation, snapshot, flight, query>>

\* A leader that takes its entry out of the map before it closes the channel.
FinishForgetting(c) ==
    /\ pc[c] = "finishing"
    /\ inFlight' = inFlight \ {key[c]}
    /\ finished' = finished \union {key[c]}
    /\ Move(c, "cleaning")
    /\ UNCHANGED <<config, generation, snapshot, query>>

\* Query: close(entry.done) frees whoever waits on it.
Finish(c) ==
    /\ pc[c] = "finishing"
    /\ finished' = finished \union {key[c]}
    /\ pc' = [d \in Callers |->
                IF d = c THEN "cleaning"
                ELSE IF pc[d] = "waiting" /\ key[d] = key[c] THEN "answered" ELSE pc[d]]
    /\ UNCHANGED <<config, generation, snapshot, inFlight, query>>

\* Query, third lock.
Forget(c) ==
    /\ pc[c] = "cleaning"
    /\ inFlight' = inFlight \ {key[c]}
    /\ finished' = finished \ {key[c]}
    /\ Return(c)
    /\ UNCHANGED <<config, generation, snapshot>>

\* A draft query shares nothing but the semaphore and stores nothing.
BeginDraft(c) ==
    /\ pc[c] = "idle"
    /\ Move(c, "draftAcquiring")
    /\ UNCHANGED <<config, generation, snapshot, flight, query>>

AcquireDraft(c) ==
    /\ pc[c] = "draftAcquiring"
    /\ Cardinality(Running) < MaxConcurrency
    /\ Move(c, "drafting")
    /\ UNCHANGED <<config, generation, snapshot, flight, query>>

DraftReturns(c) ==
    /\ pc[c] \in {"draftAcquiring", "drafting"}
    /\ Move(c, "idle")
    /\ UNCHANGED <<config, generation, snapshot, flight, query>>

-------------------------------------------------------------------------------
\* A save under the configuration lock; snapshots and queries do not see it.
Save(p) ==
    /\ version[p] < MaxVersion
    /\ version' = [version EXCEPT ![p] = @ + 1]
    /\ UNCHANGED <<loaded, generation, snapshot, flight, pc, query>>

\* No interval edit of p is between its load and its save.
NoOverlap(p) == "overlap" \in Lapses \/ loaded[p] = 0

\* updateProvider changes the address or the token; DeleteSnapshot follows.
UpdateCard(p) ==
    /\ Save(p)
    /\ p \in exists
    /\ card' = [card EXCEPT ![p] = version'[p]]
    /\ uncleaned' = [uncleaned EXCEPT ![p] = @ + 1]
    /\ UNCHANGED <<exists, settings, born>>

\* updateProviderUsage makes a material change; DeleteSnapshot follows.
UpdateUsage(p) ==
    /\ Save(p)
    /\ NoOverlap(p)
    /\ p \in exists
    /\ settings' = [settings EXCEPT ![p] = version'[p]]
    /\ uncleaned' = [uncleaned EXCEPT ![p] = @ + 1]
    /\ UNCHANGED <<exists, card, born>>

\* updateProviderUsage changes script_api_key_2 and nothing else: the query asks
\* with it, isMaterialQuotaChange does not compare it, nothing will be deleted.
UpdateSecondSecret(p) ==
    /\ "secondSecret" \in Lapses
    /\ Save(p)
    /\ NoOverlap(p)
    /\ p \in exists
    /\ settings' = [settings EXCEPT ![p] = version'[p]]
    /\ UNCHANGED <<exists, card, born, uncleaned>>

\* updateProviderUsage changes no more than the interval of what it loaded, so
\* nothing will be deleted.
LoadForInterval(p) ==
    /\ p \in exists
    /\ loaded[p] = 0
    /\ loaded' = [loaded EXCEPT ![p] = settings[p]]
    /\ UNCHANGED <<exists, version, card, settings, born, uncleaned>>
    /\ UNCHANGED <<generation, snapshot, flight, pc, query>>

\* Its save, in a critical section of its own, writes all of what it loaded.
SaveInterval(p) ==
    /\ loaded[p] # 0
    /\ loaded' = [loaded EXCEPT ![p] = 0]
    /\ settings' = IF p \in exists THEN [settings EXCEPT ![p] = loaded[p]] ELSE settings
    /\ UNCHANGED <<exists, version, card, born, uncleaned>>
    /\ UNCHANGED <<generation, snapshot, flight, pc, query>>

\* An import overwrites p, its card and its settings; DeleteSnapshot follows.
OverwriteProvider(p) ==
    /\ Save(p)
    /\ NoOverlap(p)
    /\ p \in exists
    /\ card' = [card EXCEPT ![p] = version'[p]]
    /\ settings' = [settings EXCEPT ![p] = version'[p]]
    /\ uncleaned' = [uncleaned EXCEPT ![p] = @ + 1]
    /\ UNCHANGED <<exists, born>>

\* An import adds an identifier that was deleted: nothing follows.
ImportProvider(p) ==
    /\ Save(p)
    /\ NoOverlap(p)
    /\ p \notin exists
    /\ exists' = exists \union {p}
    /\ card' = [card EXCEPT ![p] = version'[p]]
    /\ settings' = [settings EXCEPT ![p] = version'[p]]
    /\ born' = [born EXCEPT ![p] = version'[p]]
    /\ UNCHANGED uncleaned

\* deleteProvider: the foreign key cascades to the snapshot.
DeleteProvider(p) ==
    /\ p \in exists
    /\ exists' = exists \ {p}
    /\ snapshot' = [snapshot EXCEPT ![p] = NoSnapshot]
    /\ UNCHANGED <<version, card, settings, loaded, born, uncleaned>>
    /\ UNCHANGED <<generation, flight, pc, query>>

\* DeleteSnapshot, called by a handler that saved before.
DeleteSnapshot(p) ==
    /\ uncleaned[p] > 0
    /\ uncleaned' = [uncleaned EXCEPT ![p] = @ - 1]
    /\ generation' = [generation EXCEPT ![p] = @ + 1]
    /\ snapshot' = [snapshot EXCEPT ![p] = NoSnapshot]
    /\ UNCHANGED <<exists, version, card, settings, loaded, born, flight, pc, query>>

-------------------------------------------------------------------------------
Progress(c) ==
    \/ Lead(c) \/ Follow(c) \/ LoadCard(c) \/ LoadQuotaConfig(c) \/ NotConfigured(c)
    \/ UpstreamAnswers(c) \/ Persist(c) \/ PersistFails(c) \/ PersistInvalidated(c)
    \/ CallHook(c) \/ Finish(c) \/ Forget(c)
    \/ (pc[c] = "answered" /\ FollowerReturns(c))
    \/ (pc[c] = "drafting" /\ DraftReturns(c))

Step(c) ==
    \/ Begin(c) \/ Lead(c) \/ Follow(c) \/ FollowerReturns(c)
    \/ LoadCard(c) \/ LoadQuotaConfig(c) \/ NotConfigured(c)
    \/ AcquireSlot(c) \/ QueryErrs(c) \/ UpstreamAnswers(c)
    \/ Persist(c) \/ PersistFails(c) \/ PersistInvalidated(c) \/ CallHook(c)
    \/ Finish(c) \/ Forget(c) \/ BeginDraft(c) \/ AcquireDraft(c) \/ DraftReturns(c)

Admin(p) ==
    \/ UpdateCard(p) \/ UpdateUsage(p) \/ UpdateSecondSecret(p)
    \/ LoadForInterval(p) \/ SaveInterval(p) \/ OverwriteProvider(p) \/ ImportProvider(p)
    \/ DeleteProvider(p) \/ DeleteSnapshot(p)

Next == (\E c \in Callers : Step(c)) \/ (\E p \in Providers : Admin(p))

Spec == Init /\ [][Next]_vars

(***************************************************************************)
(* A goroutine that can run does, and upstream calls have a timeout.  The  *)
(* semaphore is a channel, and Go serves blocked senders in turn, so one   *)
(* that can send again and again does.  No context is assumed to end.      *)
(***************************************************************************)
Fairness ==
    \A c \in Callers :
        /\ WF_vars(Progress(c))
        /\ SF_vars(AcquireSlot(c)) /\ SF_vars(AcquireDraft(c))

FairSpec == Spec /\ Fairness

-------------------------------------------------------------------------------
Leading == {"loading", "resolving", "acquiring", "querying", "persisting", "reporting",
            "finishing", "cleaning"}

\* One query under way per provider and generation: a key is in the map exactly
\* while one caller leads under it, and whoever waits on it waits on a leader
\* that has yet to close the channel (manager.go:134-166).
SingleFlight ==
    /\ \A k \in inFlight : \E c \in Callers : pc[c] \in Leading /\ key[c] = k
    /\ \A c \in Callers :
         /\ pc[c] \in Leading =>
              /\ key[c] \in inFlight
              /\ key[c] \in finished <=> pc[c] = "cleaning"
              /\ \A d \in Callers : pc[d] \in Leading /\ key[d] = key[c] => d = c
         /\ pc[c] = "waiting" => key[c] \in inFlight \ finished

\* Once the handlers that changed a provider have returned, what the table holds
\* was asked with the card and the settings in force, unless it was asked before
\* the provider was deleted and added anew (manager.go:290-297, 427-433;
\* sdd-docs/features/2026-06-27-provider-quota-query/spec.md:330).
SnapshotIsCurrent ==
    \A p \in Providers : uncleaned[p] = 0 =>
        \A a \in {snapshot[p].result, snapshot[p].lastSuccess} \ {Unasked} :
            \/ a = <<card[p], settings[p]>>
            \/ a[1] < born[p]

\* Every query returns, though no context ever ends (manager.go:122-167).
QueriesReturn == \A c \in Callers : pc[c] # "idle" ~> pc[c] = "idle"
===============================================================================
