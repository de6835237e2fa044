---------------------------- MODULE FailoverProofs ----------------------------
(***************************************************************************)
(* The safety of Failover for any providers, requests, cooldowns and       *)
(* number of saves.  The part of the invariant that concerns the           *)
(* configuration, the one that concerns the tables and the one that        *)
(* concerns the requests do not need each other, so each step is proved to *)
(* preserve them one by one.                                               *)
(***************************************************************************)
EXTENDS Failover, SequenceTheorems, WellFoundedInduction, TLAPS

\* What makes FailoverIsSound inductive: a routed request knows its provider,
\* one about to quarantine it knows why, one that has not chosen candidates
\* holds none, and a snapshot lists what it enables.
RequestsKnow ==
    \A r \in Requests :
        /\ pc[r] # "idle" => failed[r] \in Providers
        /\ pc[r] = "quarantining" => kind[r] \in Kinds
        /\ pc[r] \in {"idle", "forwarding"} => candidates[r] = {}
        /\ snapshot[r].enabled \subseteq Listed(snapshot[r].order)

RequestInv == RequestOK /\ FailoverIsSound /\ RequestsKnow

IInv == ConfigOK /\ TableOK /\ RequestInv /\ up \in BOOLEAN

-------------------------------------------------------------------------------
LEMMA LeastExists ==
    ASSUME NEW T, T \subseteq Nat, T # {}
    PROVE  \E i \in T : \A j \in T : i <= j
<1> DEFINE R == {ss \in Nat \X Nat : ss[1] < ss[2]}
<1>1. IsWellFoundedOn(R, Nat)
  BY NatLessThanWellFounded DEF OpToRel
<1>2. \A i, j \in Nat : j < i => <<j, i>> \in R
  OBVIOUS
<1>3. \A i, j \in Nat : ~ (j < i) => i <= j
  OBVIOUS
<1> HIDE DEF R
<1>4. \E i \in T : \A j \in T : ~ (<<j, i>> \in R)
  BY <1>1, WFMin, Zenon
<1> QED
  BY <1>2, <1>3, <1>4

\* The first of some listed providers is one of them, and before the others.
LEMMA FirstOfIsOne ==
    ASSUME NEW s \in Seq(Providers), NEW S, S \subseteq Listed(s), S # {}
    PROVE  /\ FirstOf(S, s) \in S
           /\ \A q \in S \ {FirstOf(S, s)} : Before(FirstOf(S, s), q, s)
<1> DEFINE T == {i \in DOMAIN s : s[i] \in S}
<1>1. T \subseteq Nat /\ T # {}
  BY DEF Listed
<1>2. PICK i \in T : \A j \in T : i <= j
  BY <1>1, LeastExists
<1>3. \A q \in S \ {s[i]} : Before(s[i], q, s)
  <2> TAKE q \in S \ {s[i]}
  <2>1. PICK j \in DOMAIN s : s[j] = q
    BY DEF Listed
  <2>2. i < j
    BY <1>2, <2>1
  <2> QED
    BY <2>1, <2>2, <1>2 DEF Before
<1>4. s[i] \in S
  BY <1>2
<1> QED
  BY <1>3, <1>4 DEF FirstOf

\* There is a default provider while any is enabled.
LEMMA DefaultIsEnabled ==
    ASSUME ConfigOK
    PROVE  IF enabled = {} THEN Default = Nobody ELSE Default \in enabled
BY FirstOfIsOne DEF ConfigOK, Default

\* In an order without repetition only one provider is before all others.
LEMMA OneIsFirst ==
    ASSUME NEW s \in Seq(Providers), \A i, j \in DOMAIN s : s[i] = s[j] => i = j,
           NEW S, NEW p \in S, \A q \in S \ {p} : Before(p, q, s)
    PROVE  FirstOf(S, s) = p
<1> DEFINE f == FirstOf(S, s)
<1>1. f \in S /\ \A q \in S \ {f} : Before(f, q, s)
  BY DEF FirstOf
<1> HIDE DEF f
<1>2. SUFFICES ASSUME f # p PROVE FALSE
  BY DEF f
<1>3. PICK i \in DOMAIN s, j \in DOMAIN s : i < j /\ s[i] = p /\ s[j] = f
  BY <1>1, <1>2 DEF Before
<1>4. PICK k \in DOMAIN s, l \in DOMAIN s : k < l /\ s[k] = f /\ s[l] = p
  BY <1>1, <1>2 DEF Before
<1>5. i = l /\ j = k
  BY <1>3, <1>4
<1> QED
  BY <1>3, <1>4, <1>5

LEMMA NextCandidateIsOne ==
    ASSUME RequestInv, NEW r \in Requests, pc[r] = "replaying"
    PROVE  NextCandidate(r) \in candidates[r]
<1> DEFINE same == {p \in candidates[r] : SameModel(p, r)}
           from == IF same = {} THEN candidates[r] ELSE same
<1>1. candidates[r] # {} /\ candidates[r] \subseteq snapshot[r].enabled
  BY DEF RequestInv, FailoverIsSound
<1>2. candidates[r] \subseteq Listed(snapshot[r].order)
  BY <1>1 DEF RequestInv, RequestsKnow
<1>3. snapshot[r].order \in Seq(Providers)
  BY DEF RequestInv, RequestOK
<1>4. from # {} /\ from \subseteq candidates[r]
  BY <1>1
<1>5. FirstOf(from, snapshot[r].order) \in from
  BY <1>2, <1>3, <1>4, FirstOfIsOne
<1> QED
  BY <1>4, <1>5 DEF NextCandidate

LEMMA InitIInv == Init => IInv
<1> SUFFICES ASSUME Init PROVE IInv
  OBVIOUS
<1>1. ConfigOK
  BY FailoverAssumption DEF Init, ConfigOK, Listed
<1>2. TableOK
  BY FailoverAssumption DEF Init, TableOK, NoRow, Row, Rows, EventRows
<1>3. RequestInv
  BY DEF Init, RequestInv, RequestOK, FailoverIsSound, RequestsKnow, Stages, NoSnapshot, Listed
<1> QED
  BY <1>1, <1>2, <1>3 DEF Init, IInv

-------------------------------------------------------------------------------
\* The rows the manager writes are rows.
LEMMA QuarantinedRow ==
    ASSUME TableOK, NEW p \in Providers, NEW k \in Kinds, Quarantined(p, k)
    PROVE  quarantine' \in [Providers -> Rows]
BY FailoverAssumption DEF TableOK, Quarantined, Rows, Row, Kinds

LEMMA NoRowIsRow == NoRow \in Rows
BY DEF Rows

LEMMA NoEventIsRow == NoEvent \in EventRows
BY DEF EventRows

LEMMA RecoveredIsRow ==
    ASSUME NEW p \in Providers
    PROVE  /\ Event("recovered", Quota, p, Nobody) \in EventRows
           /\ Event("recovered", Credential, p, Nobody) \in EventRows
BY DEF EventRows

\* A request that returns leaves the others as they are.
LEMMA FinishKeeps ==
    ASSUME RequestInv, NEW r \in Requests, Finish(r)
    PROVE  RequestInv'
<1> USE DEF RequestInv, Finish, Move
<1>1. RequestOK'
  BY DEF RequestOK, Stages, NoSnapshot
<1>2. \A q \in Requests : q # r =>
        /\ pc'[q] = pc[q] /\ snapshot'[q] = snapshot[q] /\ failed'[q] = failed[q]
        /\ kind'[q] = kind[q] /\ candidates'[q] = candidates[q] /\ winner'[q] = winner[q]
  BY DEF RequestOK
<1>3. pc'[r] = "idle" /\ snapshot'[r] = NoSnapshot /\ candidates'[r] = {}
  BY DEF RequestOK
<1>4. FailoverIsSound'
  BY <1>2, <1>3 DEF FailoverIsSound, MayFailOver
<1>5. RequestsKnow'
  BY <1>2, <1>3 DEF RequestsKnow, NoSnapshot, Listed
<1> QED
  BY <1>1, <1>4, <1>5

LEMMA SameRequests ==
    ASSUME RequestInv, UNCHANGED request
    PROVE  RequestInv'
BY DEF RequestInv, request, RequestOK, FailoverIsSound, RequestsKnow, MayFailOver

LEMMA SameConfig ==
    ASSUME ConfigOK, UNCHANGED config
    PROVE  ConfigOK'
BY DEF ConfigOK, config, Listed

-------------------------------------------------------------------------------
\* A request moves on: what it relies on holds at the next stage.
LEMMA ServeKeepsRequests ==
    ASSUME IInv, NEW r \in Requests, Serve(r)
    PROVE  RequestInv'
<1> USE DEF IInv, RequestInv
<1>1. CASE RouteToDefault(r)
  <2>1. failed'[r] = Default /\ Default \in Providers
    BY <1>1, DefaultIsEnabled DEF RouteToDefault, RequestOK, ConfigOK, Listed
  <2>2. RequestOK'
    BY <1>1, <2>1 DEF RouteToDefault, RequestOK, Move, Stages, ConfigOK, Listed
  <2>3. FailoverIsSound'
    BY <1>1 DEF RouteToDefault, RequestOK, Move, FailoverIsSound, MayFailOver
  <2>4. RequestsKnow'
    BY <1>1, <2>1 DEF RouteToDefault, RequestOK, Move, RequestsKnow, ConfigOK, Listed
  <2> QED
    BY <2>2, <2>3, <2>4
<1>2. CASE RouteToExposed(r)
  <2>1. enabled \subseteq Providers
    BY DEF ConfigOK, Listed
  <2>2. RequestOK'
    BY <1>2, <2>1 DEF RouteToExposed, RequestOK, Move, Stages
  <2>3. FailoverIsSound'
    <3>1. /\ pc' = [pc EXCEPT ![r] = "forwarding"]
          /\ UNCHANGED <<snapshot, candidates, winner>>
          /\ \A q \in Requests : q # r => failed'[q] = failed[q]
      BY <1>2 DEF RouteToExposed, RequestOK, Move
    <3> QED
      BY <3>1 DEF RequestOK, FailoverIsSound, MayFailOver
  <2>4. RequestsKnow'
    BY <1>2, <2>1 DEF RouteToExposed, RequestOK, Move, RequestsKnow
  <2> QED
    BY <2>2, <2>3, <2>4
<1>3. CASE Answer(r)
  BY <1>3, FinishKeeps DEF Answer
<1>4. CASE Fail(r)
  <2>1. RequestOK'
    BY <1>4 DEF Fail, RequestOK, Move, Stages
  <2>2. FailoverIsSound'
    <3>1. /\ pc' = [pc EXCEPT ![r] = "quarantining"]
          /\ UNCHANGED <<snapshot, failed, candidates, winner>>
          /\ pc[r] = "forwarding" /\ MayFailOver(r)
      BY <1>4 DEF Fail, Move
    <3>2. candidates[r] = {}
      BY <3>1 DEF RequestsKnow
    <3> QED
      BY <3>1, <3>2 DEF RequestOK, FailoverIsSound, MayFailOver
  <2>3. RequestsKnow'
    BY <1>4 DEF Fail, RequestOK, Move, RequestsKnow
  <2> QED
    BY <2>1, <2>2, <2>3
<1>5. CASE QuarantineFailed(r)
  <2>1. RequestOK'
    BY <1>5 DEF QuarantineFailed, RequestOK, Move, Stages
  <2>2. FailoverIsSound'
    BY <1>5 DEF QuarantineFailed, RequestOK, Move, FailoverIsSound, MayFailOver
  <2>3. RequestsKnow'
    BY <1>5 DEF QuarantineFailed, RequestOK, Move, RequestsKnow
  <2> QED
    BY <2>1, <2>2, <2>3
<1>6. CASE SelectCandidates(r)
  <2> DEFINE chosen == {p \in snapshot[r].enabled \ {failed[r]} : ~ IsQuarantined(p)}
  <2>1. /\ candidates' = [candidates EXCEPT ![r] = chosen]
        /\ pc' = [pc EXCEPT ![r] = IF chosen = {} THEN "exhausted" ELSE "replaying"]
        /\ UNCHANGED <<snapshot, failed, kind, winner>>
        /\ pc[r] = "selecting"
    BY <1>6 DEF SelectCandidates, Move
  <2>2. chosen \subseteq snapshot[r].enabled \ {failed[r]} /\ chosen \in SUBSET Providers
    BY DEF RequestOK
  <2> HIDE DEF chosen
  <2>3. RequestOK'
    BY <2>1, <2>2 DEF RequestOK, Stages
  <2>4. FailoverIsSound'
    BY <2>1, <2>2 DEF RequestOK, FailoverIsSound, MayFailOver
  <2>5. RequestsKnow'
    BY <2>1 DEF RequestOK, RequestsKnow
  <2> QED
    BY <2>3, <2>4, <2>5
<1>7. CASE CandidateAnswers(r)
  <2>1. NextCandidate(r) \in candidates[r]
    BY <1>7, NextCandidateIsOne DEF CandidateAnswers
  <2>2. RequestOK'
    BY <1>7, <2>1 DEF CandidateAnswers, RequestOK, Move, Stages
  <2>3. FailoverIsSound'
    BY <1>7, <2>1 DEF CandidateAnswers, RequestOK, Move, FailoverIsSound, MayFailOver
  <2>4. RequestsKnow'
    BY <1>7 DEF CandidateAnswers, RequestOK, Move, RequestsKnow
  <2> QED
    BY <2>2, <2>3, <2>4
<1>8. CASE CandidateFails(r)
  <2> DEFINE rest == candidates[r] \ {NextCandidate(r)}
  <2>1. /\ candidates' = [candidates EXCEPT ![r] = rest]
        /\ pc' = [pc EXCEPT ![r] = IF rest = {} THEN "exhausted" ELSE "replaying"]
        /\ UNCHANGED <<snapshot, failed, kind, winner>>
        /\ pc[r] = "replaying"
    BY <1>8 DEF CandidateFails, Move
  <2>2. rest \subseteq candidates[r]
    OBVIOUS
  <2> HIDE DEF rest
  <2>3. RequestOK'
    BY <2>1, <2>2 DEF RequestOK, Stages
  <2>4. FailoverIsSound'
    BY <2>1, <2>2 DEF RequestOK, FailoverIsSound, MayFailOver
  <2>5. RequestsKnow'
    BY <2>1 DEF RequestOK, RequestsKnow
  <2> QED
    BY <2>3, <2>4, <2>5
<1>9. CASE CommitSwitch(r)
  BY <1>9, FinishKeeps DEF CommitSwitch
<1>10. CASE RecordExhausted(r)
  BY <1>10, FinishKeeps DEF RecordExhausted
<1> QED
  BY <1>1, <1>2, <1>3, <1>4, <1>5, <1>6, <1>7, <1>8, <1>9, <1>10 DEF Serve

\* What a request does to the configuration and the tables.
LEMMA ServeKeepsTypes ==
    ASSUME IInv, NEW r \in Requests, Serve(r)
    PROVE  ConfigOK' /\ TableOK'
<1> USE DEF IInv
<1>1. ASSUME event' = NoEvent, UNCHANGED <<config, table>>
      PROVE  ConfigOK' /\ TableOK'
  BY <1>1, SameConfig, NoEventIsRow DEF TableOK, table
<1>2. CASE QuarantineFailed(r)
  <2>1. failed[r] \in Providers /\ kind[r] \in Kinds
    BY <1>2 DEF QuarantineFailed, RequestInv, RequestsKnow
  <2>2. quarantine' \in [Providers -> Rows]
    BY <1>2, <2>1, QuarantinedRow DEF QuarantineFailed, TableOK
  <2> QED
    BY <1>2, <2>2, SameConfig, NoEventIsRow DEF QuarantineFailed, TableOK
<1>3. CASE CommitSwitch(r)
  <2>1. failed[r] \in Providers
    BY <1>3 DEF CommitSwitch, RequestInv, RequestsKnow
  <2>2. active' \in Listed(order) \union {Nobody}
    BY <1>3 DEF CommitSwitch, ConfigOK
  <2>3. ConfigOK'
    BY <1>3, <2>2 DEF CommitSwitch, ConfigOK, Listed
  <2>4. owed' \in EventRows
    <3>1. CASE UNCHANGED owed
      BY <3>1 DEF TableOK
    <3>2. CASE winner[r] \in enabled /\ owed' = Event("switched", "failure", failed[r], winner[r])
      <4>1. winner[r] \in Providers
        BY <3>2 DEF ConfigOK, Listed
      <4> QED
        BY <2>1, <3>2, <4>1 DEF EventRows
    <3> QED
      BY <1>3, <3>1, <3>2 DEF CommitSwitch
  <2>5. TableOK'
    BY <1>3, <2>4, NoEventIsRow DEF CommitSwitch, TableOK
  <2> QED
    BY <2>3, <2>5
<1>4. CASE RecordExhausted(r)
  <2>1. failed[r] \in Providers
    BY <1>4 DEF RecordExhausted, RequestInv, RequestsKnow
  <2>2. event' \in EventRows
    BY <1>4, <2>1 DEF RecordExhausted, EventRows
  <2> QED
    BY <1>4, <2>2, SameConfig DEF RecordExhausted, TableOK, table
<1> QED
  BY <1>1, <1>2, <1>3, <1>4 DEF Serve, RouteToDefault, RouteToExposed, Answer, Fail,
     SelectCandidates, CandidateAnswers, CandidateFails

\* A save of the admin leaves a configuration whose providers are listed once
\* and enabled only when listed.
LEMMA AdminKeepsTypes ==
    ASSUME IInv, NEW p \in Providers, Admin(p)
    PROVE  ConfigOK' /\ TableOK'
<1> USE DEF IInv
<1>1. CASE AddProvider(p)
  <2>1. \A i \in 1 .. Len(order) : order'[i] = order[i]
    BY <1>1 DEF AddProvider, ConfigOK
  <2>2. /\ order' \in Seq(Providers)
        /\ Len(order') = Len(order) + 1
        /\ order'[Len(order) + 1] = p
    BY <1>1 DEF AddProvider, ConfigOK
  <2>3. \A i, j \in DOMAIN order' : order'[i] = order'[j] => i = j
    BY <1>1, <2>1, <2>2 DEF AddProvider, ConfigOK, Listed
  <2>4. Listed(order') = Listed(order) \union {p}
    BY <2>1, <2>2 DEF Listed, ConfigOK
  <2>5. ConfigOK'
    BY <1>1, <2>2, <2>3, <2>4, FailoverAssumption DEF AddProvider, Save, ConfigOK
  <2>6. TableOK'
    BY <1>1, NoEventIsRow DEF AddProvider, Save, TableOK, table
  <2> QED
    BY <2>5, <2>6
<1>2. CASE UpdateProvider(p)
  BY <1>2, FailoverAssumption, NoEventIsRow
  DEF UpdateProvider, Save, ConfigOK, TableOK, Listed
<1>3. CASE ToggleProvider(p)
  <2>1. ConfigOK'
    BY <1>3, FailoverAssumption DEF ToggleProvider, Save, ConfigOK, Listed
  <2>2. TableOK'
    BY <1>3, NoEventIsRow DEF ToggleProvider, Save, TableOK, table
  <2> QED
    BY <2>1, <2>2
<1>4. CASE DeleteProvider(p)
  <2>1. PICK i \in DOMAIN order :
          /\ order[i] = p
          /\ order' = [j \in 1 .. Len(order) - 1 |-> order[IF j < i THEN j ELSE j + 1]]
    BY <1>4 DEF DeleteProvider
  <2>2. /\ order \in Seq(Providers) /\ Len(order) \in Nat
        /\ DOMAIN order = 1 .. Len(order) /\ i \in 1 .. Len(order)
        /\ \A j \in 1 .. Len(order) : order[j] \in Providers
    BY DEF ConfigOK
  <2>3. \A j, k \in 1 .. Len(order) : order[j] = order[k] => j = k
    BY <2>2 DEF ConfigOK
  <2>4. /\ order' \in Seq(Providers)
        /\ DOMAIN order' = 1 .. Len(order')
        /\ \A j, k \in DOMAIN order' : order'[j] = order'[k] => j = k
    <3>1. \A j \in 1 .. Len(order) - 1 : (IF j < i THEN j ELSE j + 1) \in 1 .. Len(order)
      BY <2>2
    <3>2. order' \in [1 .. Len(order) - 1 -> Providers] /\ Len(order) - 1 \in Nat
      BY <2>1, <2>2, <3>1
    <3>3. order' \in Seq(Providers) /\ DOMAIN order' = 1 .. Len(order) - 1
      BY <3>2, SeqDef
    <3>4. ASSUME NEW j \in DOMAIN order', NEW k \in DOMAIN order', order'[j] = order'[k]
          PROVE  j = k
      <4>1. (IF j < i THEN j ELSE j + 1) = (IF k < i THEN k ELSE k + 1)
        BY <2>1, <2>3, <3>1, <3>3, <3>4
      <4> QED
        BY <2>2, <3>3, <4>1
    <3> QED
      BY <3>3, <3>4
  <2>5. Listed(order) \ {p} \subseteq Listed(order')
    <3>1. SUFFICES ASSUME NEW j \in 1 .. Len(order), order[j] # p
                   PROVE  \E k \in DOMAIN order' : order'[k] = order[j]
      BY <2>2 DEF Listed
    <3>2. j # i /\ DOMAIN order' = 1 .. Len(order) - 1
      BY <2>1, <3>1
    <3>3. CASE j < i
      <4>1. j \in 1 .. Len(order) - 1
        BY <2>2, <3>3
      <4> QED
        BY <2>1, <3>2, <3>3, <4>1
    <3>4. CASE ~ (j < i)
      <4>1. j - 1 \in 1 .. Len(order) - 1 /\ ~ (j - 1 < i) /\ (j - 1) + 1 = j
        BY <2>2, <3>2, <3>4
      <4> QED
        BY <2>1, <3>2, <4>1
    <3> QED
      BY <3>3, <3>4
  <2>6. active' \in Listed(order') \union {Nobody}
    <3>1. order' # <<>> => Head(order') \in Listed(order')
      BY <2>4 DEF Listed
    <3> QED
      BY <1>4, <2>5, <3>1 DEF DeleteProvider, ConfigOK
  <2>7. ConfigOK'
    <3>1. enabled' \subseteq Listed(order')
      BY <1>4, <2>5 DEF DeleteProvider, ConfigOK
    <3>2. auto' \in BOOLEAN /\ edits' \in 0 .. MaxEdits
      BY <1>4, FailoverAssumption DEF DeleteProvider, Save, ConfigOK
    <3> QED
      BY <2>4, <2>6, <3>1, <3>2 DEF ConfigOK
  <2>8. TableOK'
    BY <1>4, NoEventIsRow DEF DeleteProvider, Save, TableOK
  <2> QED
    BY <2>7, <2>8
<1>5. CASE ActivateProvider(p)
  <2>1. ConfigOK'
    BY <1>5, FailoverAssumption DEF ActivateProvider, Save, ConfigOK, Listed
  <2>2. TableOK'
    BY <1>5, NoEventIsRow DEF ActivateProvider, Save, TableOK, table
  <2> QED
    BY <2>1, <2>2
<1>6. ASSUME ClearCredentialFailure(p), UNCHANGED config, calls' \subseteq calls
      PROVE  ConfigOK' /\ TableOK'
  BY <1>6, SameConfig, NoRowIsRow, NoEventIsRow, RecoveredIsRow
  DEF ClearCredentialFailure, TableOK
<1>7. CASE StartTest(p)
  BY <1>7, SameConfig, NoEventIsRow DEF StartTest, TableOK
<1>8. CASE TestFails(p)
  BY <1>8, SameConfig, NoEventIsRow DEF TestFails, TableOK
<1>9. CASE OnProviderDeleted(p)
  BY <1>9, SameConfig, NoRowIsRow, NoEventIsRow DEF OnProviderDeleted, TableOK
<1> QED
  BY <1>1, <1>2, <1>3, <1>4, <1>5, <1>6, <1>7, <1>8, <1>9
  DEF Admin, TokenChanged, TestSucceeds

LEMMA OthersKeepTypes ==
    ASSUME IInv,
           \/ \E p \in Providers : QuotaHook(p)
           \/ InsertEvent \/ ReorderProviders \/ SetAutoFailover \/ Tick \/ Stop \/ Start
    PROVE  ConfigOK' /\ TableOK'
<1> USE DEF IInv
<1>1. ASSUME NEW p \in Providers, ReconcileExhausted(p)
      PROVE  ConfigOK' /\ TableOK'
  <2>1. quarantine' \in [Providers -> Rows]
    BY <1>1, QuarantinedRow, FailoverAssumption DEF ReconcileExhausted, TableOK, Kinds
  <2> QED
    BY <1>1, <2>1, SameConfig, NoEventIsRow DEF ReconcileExhausted, TableOK
<1>2. ASSUME NEW p \in Providers, ReconcileRecovered(p)
      PROVE  ConfigOK' /\ TableOK'
  BY <1>2, SameConfig, NoRowIsRow, NoEventIsRow, RecoveredIsRow
  DEF ReconcileRecovered, TableOK
<1>3. CASE ReorderProviders
  <2>1. order' \in [1 .. Len(order) -> Providers]
    BY <1>3 DEF ReorderProviders, ConfigOK, Listed
  <2>2. order' \in Seq(Providers) /\ DOMAIN order' = DOMAIN order
    BY <2>1 DEF ConfigOK
  <2>3. active' \in Listed(order') \union {Nobody}
    <3>1. Default \in Listed(order) \union {Nobody}
      BY DefaultIsEnabled DEF ConfigOK
    <3> QED
      BY <1>3, <3>1 DEF ReorderProviders, ConfigOK
  <2>4. ConfigOK'
    BY <1>3, <2>2, <2>3, FailoverAssumption DEF ReorderProviders, Save, ConfigOK
  <2>5. TableOK'
    BY <1>3, NoEventIsRow DEF ReorderProviders, Save, TableOK, table
  <2> QED
    BY <2>4, <2>5
<1>4. CASE SetAutoFailover
  <2>1. ConfigOK'
    BY <1>4, FailoverAssumption DEF SetAutoFailover, Save, ConfigOK, Listed
  <2>2. TableOK'
    BY <1>4, NoEventIsRow DEF SetAutoFailover, Save, TableOK, table
  <2> QED
    BY <2>1, <2>2
<1>5. CASE Tick
  <2>1. \A p \in Providers : quarantine'[p] \in Rows
    BY <1>5, FailoverAssumption DEF Tick, TableOK, Rows, Row, NoRow
  <2>2. quarantine' \in [Providers -> Rows]
    BY <1>5, <2>1 DEF Tick
  <2> QED
    BY <1>5, <2>2, SameConfig, NoEventIsRow DEF Tick, TableOK
<1>6. CASE Stop \/ Start
  BY <1>6, SameConfig, NoEventIsRow DEF Stop, Start, TableOK, table
<1>7. CASE InsertEvent
  BY <1>7, SameConfig, NoEventIsRow DEF InsertEvent, TableOK
<1> QED
  BY <1>1, <1>2, <1>3, <1>4, <1>5, <1>6, <1>7 DEF QuotaHook

-------------------------------------------------------------------------------
LEMMA NextIInv == IInv /\ [Next]_vars => IInv'
<1> SUFFICES ASSUME IInv, [Next]_vars PROVE IInv'
  OBVIOUS
<1> USE DEF IInv
<1>1. up' \in BOOLEAN
  BY DEF Next, Tick, Stop, Start, vars
<1>2. ASSUME NEW r \in Requests, Serve(r) PROVE IInv'
  BY <1>1, <1>2, ServeKeepsRequests, ServeKeepsTypes
<1>3. ASSUME NEW p \in Providers, Admin(p) PROVE IInv'
  <2>1. UNCHANGED request
    BY <1>3 DEF Admin, AddProvider, UpdateProvider, ToggleProvider, DeleteProvider,
       ActivateProvider, TokenChanged, StartTest, TestSucceeds, TestFails,
       OnProviderDeleted, Save
  <2> QED
    BY <1>1, <1>3, <2>1, AdminKeepsTypes, SameRequests
<1>4. CASE \/ \E p \in Providers : QuotaHook(p)
           \/ InsertEvent \/ ReorderProviders \/ SetAutoFailover \/ Tick \/ Start
  <2>1. UNCHANGED request
    BY <1>4 DEF QuotaHook, ReconcileExhausted, ReconcileRecovered, InsertEvent,
       ReorderProviders, SetAutoFailover, Tick, Start, Save
  <2> QED
    BY <1>1, <1>4, <2>1, OthersKeepTypes, SameRequests
<1>5. CASE Stop
  <2>1. RequestInv'
    BY <1>5 DEF Stop, RequestInv, RequestOK, FailoverIsSound, RequestsKnow, Stages,
       NoSnapshot, Listed
  <2> QED
    BY <1>1, <1>5, <2>1, OthersKeepTypes
<1>6. CASE UNCHANGED vars
  BY <1>1, <1>6, SameConfig, SameRequests DEF TableOK, vars, table
<1> QED
  BY <1>2, <1>3, <1>4, <1>5, <1>6 DEF Next, Running

\* The invariant that makes the two below provable.
THEOREM Inductive == Spec => []IInv
BY InitIInv, NextIInv, PTL DEF Spec

\* Configuration, tables and requests keep their types.
THEOREM TypeCorrect == Spec => []TypeOK
<1>1. IInv => TypeOK
  BY DEF IInv, TypeOK, RequestInv
<1> QED
  BY <1>1, Inductive, PTL

\* Whatever is saved while a request fails over, it never goes back to the
\* provider that failed it, nor to one it was not configured with.
THEOREM RequestsFailOverSoundly == Spec => []FailoverIsSound
<1>1. IInv => FailoverIsSound
  BY DEF IInv, RequestInv
<1> QED
  BY <1>1, Inductive, PTL

-------------------------------------------------------------------------------
\* No step but the end of a deletion, of a token change or of a test lifts an
\* invalid credential.
LEMMA CredentialStep ==
    ASSUME IInv, [Next]_vars, NEW p \in Providers,
           quarantine[p].kind = Credential, quarantine'[p].kind # Credential
    PROVE  Lifts(p)
<1>1. quarantine' # quarantine
  OBVIOUS
<1>2. quarantine \in [Providers -> Rows]
  BY DEF IInv, TableOK
<1>3. ASSUME NEW r \in Requests, Serve(r) PROVE FALSE
  <2>1. CASE QuarantineFailed(r)
    <3>1. Quarantined(failed[r], kind[r]) /\ ~ (failed[r] = p /\ kind[r] # Credential)
      BY <1>1, <2>1 DEF QuarantineFailed
    <3>2. CASE kind[r] = Credential
      BY <1>2, <3>1, <3>2 DEF Quarantined, Row
    <3>3. CASE kind[r] # Credential
      <4>1. failed[r] # p
        BY <3>1, <3>3
      <4>2. PICK n \in 1 .. MaxLeft :
              quarantine' = [quarantine EXCEPT ![failed[r]] = Row(kind[r], n)]
        BY <3>1, <3>3 DEF Quarantined
      <4> QED
        BY <1>2, <4>1, <4>2
    <3> QED
      BY <3>2, <3>3
  <2> QED
    BY <1>1, <1>3, <2>1 DEF Serve, RouteToDefault, RouteToExposed, Answer, Fail,
       SelectCandidates, CandidateAnswers, CandidateFails, CommitSwitch, RecordExhausted, table
<1>4. ASSUME NEW q \in Providers, Admin(q) PROVE Lifts(p)
  <2>1. ASSUME ClearCredentialFailure(q)
        PROVE  p = q /\ owed' = Event("recovered", Credential, p, Nobody)
    BY <1>1, <1>2, <2>1 DEF ClearCredentialFailure
  <2>2. CASE TokenChanged(q)
    BY <2>1, <2>2 DEF TokenChanged, Lifts
  <2>3. CASE TestSucceeds(q)
    BY <2>1, <2>3 DEF TestSucceeds, Lifts
  <2>4. CASE OnProviderDeleted(q)
    <3>1. p = q
      BY <1>2, <2>4 DEF OnProviderDeleted
    <3> QED
      BY <2>4, <3>1 DEF OnProviderDeleted, Lifts
  <2> QED
    BY <1>1, <1>4, <2>2, <2>3, <2>4 DEF Admin, AddProvider, UpdateProvider,
       ToggleProvider, DeleteProvider, ActivateProvider, StartTest, TestFails, table
<1>5. ASSUME NEW q \in Providers, QuotaHook(q) PROVE FALSE
  <2>1. Quota # Credential
    BY DEF Quota, Credential
  <2>2. CASE ReconcileExhausted(q)
    BY <1>2, <2>1, <2>2 DEF ReconcileExhausted, Quarantined, Row
  <2>3. CASE ReconcileRecovered(q)
    BY <1>2, <2>1, <2>3 DEF ReconcileRecovered
  <2> QED
    BY <1>5, <2>2, <2>3 DEF QuotaHook
<1>6. CASE Tick
  BY <1>6 DEF Tick, Row
<1> QED
  BY <1>1, <1>3, <1>4, <1>5, <1>6 DEF Next, Running, InsertEvent, ReorderProviders,
     SetAutoFailover, Stop, Start, vars, table

\* An invalid credential outlasts time, other failures, quota reports and the
\* end of the process, until the handler of a deletion, of a changed token or of
\* a successful test makes its call.
THEOREM CredentialStaysInvalid == Spec => CredentialSticks
<1>1. IInv /\ [Next]_vars =>
        [\A p \in Providers :
           quarantine[p].kind = Credential /\ quarantine'[p].kind # Credential =>
             Lifts(p)]_vars
  BY CredentialStep
<1> QED
  BY <1>1, Inductive, PTL DEF Spec, CredentialSticks

-------------------------------------------------------------------------------
\* The default stays, or is taken away, or the admin chose or enabled another.
DefaultFollows ==
    \/ Default' = Default
    \/ Default \notin enabled'
    \/ order' = order /\ (enabled' = enabled \/ Default' \in enabled' \ enabled)

\* With no enabled default stored, the default is the first enabled provider.
LEMMA FirstIsDefault ==
    ASSUME ConfigOK, active \notin enabled, enabled # {}
    PROVE  /\ Default \in enabled
           /\ \A q \in enabled \ {Default} : Before(Default, q, order)
BY FirstOfIsOne DEF ConfigOK, Default

LEMMA DefaultIsFirst ==
    ASSUME ConfigOK, active \notin enabled, NEW d \in enabled,
           \A q \in enabled \ {d} : Before(d, q, order)
    PROVE  Default = d
<1>1. FirstOf(enabled, order) = d
  BY OneIsFirst DEF ConfigOK
<1> QED
  BY <1>1 DEF Default

\* A provider added last changes nothing for those before it.
LEMMA AddFollows ==
    ASSUME ConfigOK, ConfigOK', NEW p \in Providers, AddProvider(p)
    PROVE  DefaultFollows
<1>1. p \notin Listed(order) /\ order' = Append(order, p)
      /\ enabled' \in {enabled, enabled \union {p}}
  BY DEF AddProvider
<1>2. CASE Default \notin enabled
  BY <1>1, <1>2, DefaultIsEnabled, FailoverAssumption DEF DefaultFollows, ConfigOK, Listed
<1>3. CASE active \in enabled
  <2>1. order # <<>>
    BY <1>3 DEF ConfigOK, Listed
  <2> QED
    BY <1>1, <1>3, <2>1 DEF AddProvider, Default, DefaultFollows
<1>4. CASE active \notin enabled /\ Default \in enabled
  <2>1. order # <<>> /\ enabled \subseteq Listed(order)
    BY <1>4 DEF ConfigOK, Listed
  <2>2. active' = active /\ active \notin enabled'
    BY <1>1, <1>4, <2>1, FailoverAssumption DEF AddProvider, ConfigOK
  <2>3. \A i \in DOMAIN order : i \in DOMAIN order' /\ order'[i] = order[i] /\ i < Len(order) + 1
    BY <1>1 DEF ConfigOK
  <2>4. Len(order) + 1 \in DOMAIN order' /\ order'[Len(order) + 1] = p
    BY <1>1 DEF ConfigOK
  <2>5. \A q \in enabled \ {Default} : Before(Default, q, order)
    BY <1>4, FirstIsDefault
  <2>6. ASSUME NEW q \in enabled' \ {Default} PROVE Before(Default, q, order')
    <3>1. CASE q \in enabled
      BY <2>3, <2>5, <2>6, <3>1 DEF Before
    <3>2. CASE q = p
      <4>1. PICK i \in DOMAIN order : order[i] = Default
        BY <1>4, <2>1 DEF Listed
      <4> QED
        BY <2>3, <2>4, <3>2, <4>1 DEF Before
    <3> QED
      BY <1>1, <2>6, <3>1, <3>2
  <2>7. Default \in enabled'
    BY <1>1, <1>4
  <2>8. FirstOf(enabled', order') = Default
    BY <2>6, <2>7, OneIsFirst DEF ConfigOK
  <2> QED
    BY <2>2, <2>7, <2>8 DEF Default, DefaultFollows
<1> QED
  BY <1>2, <1>3, <1>4

\* Enabling or disabling one provider moves the default to it or away from it.
LEMMA TurnFollows ==
    ASSUME ConfigOK, ConfigOK', NEW p \in Providers, order' = order,
           enabled' \in {enabled \ {p}, enabled \union {p}},
           active' = active \/ (p \in enabled /\ active = p)
    PROVE  DefaultFollows
<1>1. CASE enabled' = enabled
  BY <1>1 DEF DefaultFollows
<1>2. CASE p \notin enabled /\ enabled' = enabled \union {p}
  <2>1. active' = active
    BY <1>2
  <2>2. CASE active \in enabled'
    BY <1>2, <2>1, <2>2 DEF Default, DefaultFollows
  <2>3. CASE active \notin enabled'
    <3>1. Default' \in enabled' /\ \A q \in enabled' \ {Default'} : Before(Default', q, order)
      BY <1>2, <2>1, <2>3, FirstOfIsOne DEF ConfigOK, Default
    <3>2. CASE Default' = p
      BY <1>2, <3>1, <3>2 DEF DefaultFollows
    <3>3. CASE Default' # p
      <4>1. Default' \in enabled /\ \A q \in enabled \ {Default'} : Before(Default', q, order)
        BY <1>2, <3>1, <3>3
      <4>2. Default = Default'
        BY <1>2, <2>3, <4>1, DefaultIsFirst
      <4> QED
        BY <4>2 DEF DefaultFollows
    <3> QED
      BY <3>2, <3>3
  <2> QED
    BY <2>2, <2>3
<1>3. CASE p \in enabled /\ enabled' = enabled \ {p}
  <2>1. CASE Default = p
    BY <1>3, <2>1 DEF DefaultFollows
  <2>2. CASE Default # p
    <3>1. active # p
      BY <1>3, <2>2 DEF Default
    <3>2. active' = active
      BY <3>1
    <3>3. CASE active \in enabled
      BY <1>3, <3>1, <3>2, <3>3 DEF Default, DefaultFollows
    <3>4. CASE active \notin enabled
      <4>1. Default \in enabled /\ \A q \in enabled \ {Default} : Before(Default, q, order)
        BY <1>3, <3>4, FirstIsDefault
      <4>2. Default \in enabled' /\ \A q \in enabled' \ {Default} : Before(Default, q, order')
        BY <1>3, <2>2, <4>1
      <4>3. FirstOf(enabled', order') = Default
        BY <4>2, OneIsFirst DEF ConfigOK
      <4> QED
        BY <1>3, <3>2, <3>4, <4>2, <4>3 DEF Default, DefaultFollows
    <3> QED
      BY <3>3, <3>4
  <2> QED
    BY <2>1, <2>2
<1> QED
  BY <1>1, <1>2, <1>3

\* Deleting another provider than the default keeps it, also when the deleted
\* one was stored: the head of the list then takes its place, and is the
\* default only if it was.
LEMMA DeleteFollows ==
    ASSUME ConfigOK, ConfigOK', NEW p \in Providers, DeleteProvider(p)
    PROVE  DefaultFollows
<1>1. PICK i \in DOMAIN order :
        /\ order[i] = p
        /\ order' = [j \in 1 .. Len(order) - 1 |-> order[IF j < i THEN j ELSE j + 1]]
  BY DEF DeleteProvider
<1>2. enabled' = enabled \ {p}
  BY DEF DeleteProvider
<1>3. CASE Default = p \/ Default \notin enabled
  BY <1>2, <1>3 DEF DefaultFollows
<1>4. CASE Default # p /\ active \in enabled
  BY <1>2, <1>4 DEF DeleteProvider, Default, DefaultFollows
<1>5. CASE Default # p /\ active \notin enabled /\ Default \in enabled
  <2>1. /\ order \in Seq(Providers) /\ Len(order) \in Nat
        /\ DOMAIN order = 1 .. Len(order) /\ i \in 1 .. Len(order)
    BY DEF ConfigOK
  <2>2. ASSUME NEW x, NEW y, x # p, y # p, Before(x, y, order)
        PROVE  Before(x, y, order')
    <3>1. PICK k \in DOMAIN order, l \in DOMAIN order :
            k < l /\ order[k] = x /\ order[l] = y
      BY <2>2 DEF Before
    <3> DEFINE At(n) == IF n < i THEN n ELSE n - 1
    <3>2. k # i /\ l # i
      BY <1>1, <2>2, <3>1
    <3>3. DOMAIN order' = 1 .. Len(order) - 1
      BY <1>1
    <3>4. At(k) \in DOMAIN order' /\ At(l) \in DOMAIN order' /\ At(k) < At(l)
      BY <2>1, <3>1, <3>2, <3>3
    <3>5. order'[At(k)] = order[k] /\ order'[At(l)] = order[l]
      <4>1. \A n \in 1 .. Len(order) : n # i => (IF At(n) < i THEN At(n) ELSE At(n) + 1) = n
        BY <2>1
      <4> QED
        BY <1>1, <2>1, <3>2, <3>3, <3>4, <4>1
    <3> QED
      BY <3>1, <3>4, <3>5 DEF Before
  <2>3. \A q \in enabled \ {Default} : Before(Default, q, order)
    BY <1>5, FirstIsDefault
  <2>4. Default \in enabled' /\ \A q \in enabled' \ {Default} : Before(Default, q, order')
    BY <1>2, <1>5, <2>2, <2>3
  <2>5. FirstOf(enabled', order') = Default
    BY <2>4, OneIsFirst DEF ConfigOK
  <2>6. CASE active' \notin enabled'
    BY <2>4, <2>5, <2>6 DEF Default, DefaultFollows
  <2>7. CASE active' \in enabled'
    <3>1. active = p /\ order' # <<>> /\ active' = Head(order')
      <4>1. active = p
        BY <1>2, <1>5, <2>7 DEF DeleteProvider
      <4>2. Nobody \notin enabled'
        BY FailoverAssumption DEF ConfigOK, Listed
      <4> QED
        BY <2>7, <4>1, <4>2 DEF DeleteProvider
    <3>2. order' \in Seq(Providers) /\ active' = order'[1] /\ 1 \in DOMAIN order'
      BY <3>1 DEF ConfigOK
    <3>3. \A j \in DOMAIN order' : order'[j] = active' => j = 1
      BY <3>2 DEF ConfigOK
    <3>4. active' = Default
      <4>1. SUFFICES ASSUME Before(Default, active', order') PROVE FALSE
        BY <2>4, <2>7
      <4>2. PICK k \in DOMAIN order', l \in DOMAIN order' : k < l /\ order'[l] = active'
        BY <4>1 DEF Before
      <4> QED
        BY <3>2, <3>3, <4>2
    <3> QED
      BY <2>7, <3>4 DEF Default, DefaultFollows
  <2> QED
    BY <2>6, <2>7
<1> QED
  BY <1>3, <1>4, <1>5

LEMMA ReorderFollows ==
    ASSUME ConfigOK, ReorderProviders
    PROVE  DefaultFollows
<1>1. enabled' = enabled
  BY DEF ReorderProviders
<1>2. CASE active \in enabled
  BY <1>1, <1>2 DEF ReorderProviders, Default, DefaultFollows
<1>3. CASE active \notin enabled /\ enabled # {}
  <2>1. Default \in enabled /\ Default # Nobody
    BY <1>3, DefaultIsEnabled, FailoverAssumption DEF ConfigOK, Listed
  <2>2. active' = Default
    BY <1>3, <2>1 DEF ReorderProviders
  <2> QED
    BY <1>1, <2>1, <2>2 DEF Default, DefaultFollows
<1>4. CASE enabled = {}
  BY <1>1, <1>4 DEF Default, DefaultFollows
<1> QED
  BY <1>2, <1>3, <1>4

-------------------------------------------------------------------------------
\* The switch that is owed, as DefaultProvider sees it.
Untold == IF owed.outcome = "switched" THEN owed ELSE NoEvent

LEMMA SameNoEvent == Abstract!NoEvent = NoEvent
BY DEF Abstract!NoEvent, Abstract!Row, NoEvent, Event

LEMMA NoneUntold == owed = NoEvent => Untold = NoEvent
BY DEF Untold, NoEvent, Event

\* A step that neither saves, switches nor writes a row.
LEMMA QuietOnly ==
    ASSUME UNCHANGED <<config, up>>, event' = NoEvent, Untold' = Untold
    PROVE  Abstract!DefaultNext
<1>1. UNCHANGED <<enabled, order, Default, edits>>
  BY DEF config, Default
<1> QED
  BY <1>1, SameNoEvent DEF Abstract!DefaultNext, Abstract!Quiet, Abstract!configured, Untold

\* A step that writes a row that is not about a switch.
LEMMA NotesOnly ==
    ASSUME up, UNCHANGED <<config, up>>, Untold = NoEvent, Untold' = NoEvent,
           NEW p \in Providers,
           \/ event' = Event("exhausted", "failure", p, Nobody)
           \/ event' \in {Event("recovered", k, p, Nobody) : k \in {Quota, Credential}}
    PROVE  Abstract!DefaultNext
<1>1. UNCHANGED <<enabled, order, Default, edits>>
  BY DEF config, Default
<1>2. event' \in Abstract!Notes
  BY DEF Abstract!Notes, Abstract!Row, Event, Quota, Credential
<1> QED
  BY <1>1, <1>2, SameNoEvent DEF Abstract!DefaultNext, Abstract!Note, Abstract!configured, Untold

\* A step that saves leaves a default as long as a provider is enabled.
LEMMA SavesOnly ==
    ASSUME ConfigOK', up, UNCHANGED <<owed, up>>, Save, DefaultFollows
    PROVE  Abstract!DefaultNext
<1>1. IF enabled' = {} THEN Default' = Nobody ELSE Default' \in enabled'
  BY FirstOfIsOne DEF ConfigOK, Default
<1>2. enabled' \in SUBSET Providers
  BY DEF ConfigOK, Listed
<1> QED
  BY <1>1, <1>2, SameNoEvent DEF Abstract!DefaultNext, Abstract!Save, Abstract!HasDefault,
     DefaultFollows, Save

\* The switch of CommitSwitch, when the save succeeds.
LEMMA CommitSwitches ==
    ASSUME IInv, SaveOutcomes = {TRUE}, up, UNCHANGED up,
           NEW r \in Requests, CommitSwitch(r)
    PROVE  Abstract!DefaultNext
<1>1. failed[r] # winner[r]
  BY DEF CommitSwitch, IInv, RequestInv, FailoverIsSound
<1>2. CASE Default = failed[r] /\ winner[r] \in enabled
  <2>1. active' = winner[r] /\ owed' = Event("switched", "failure", Default, winner[r])
    BY <1>2 DEF CommitSwitch
  <2>2. UNCHANGED <<enabled, order, edits>> /\ event' = NoEvent /\ owed = NoEvent
    BY DEF CommitSwitch, ManagerFree
  <2>3. Default' = winner[r] /\ winner[r] \in enabled \ {Default}
    BY <1>1, <1>2, <2>1, <2>2 DEF Default
  <2>4. Untold = NoEvent /\ Untold' = owed'
    BY <2>1, <2>2, NoneUntold DEF Untold, Event
  <2>5. Abstract!Switch
    BY <2>1, <2>2, <2>3, <2>4, SameNoEvent DEF Abstract!Switch, Abstract!Row, Event, Untold
  <2> QED
    BY <2>5 DEF Abstract!DefaultNext
<1>3. CASE ~ (Default = failed[r] /\ winner[r] \in enabled)
  <2>1. UNCHANGED <<config, owed>> /\ event' = NoEvent
    BY <1>3 DEF CommitSwitch, config
  <2> QED
    BY <2>1, QuietOnly DEF Untold
<1> QED
  BY <1>2, <1>3

\* The row that is owed becomes the row written.
LEMMA InsertTells ==
    ASSUME IInv, up, UNCHANGED up, InsertEvent
    PROVE  Abstract!DefaultNext
<1>1. UNCHANGED config /\ event' = owed /\ owed' = NoEvent /\ owed # NoEvent
  BY DEF InsertEvent
<1>2. UNCHANGED <<enabled, order, Default, edits>>
  BY <1>1 DEF config, Default
<1>3. Untold' = NoEvent
  BY <1>1 DEF Untold, NoEvent, Event
<1>4. CASE owed.outcome = "switched"
  <2>1. Untold = owed
    BY <1>4 DEF Untold
  <2> QED
    BY <1>1, <1>2, <1>3, <2>1, SameNoEvent
    DEF Abstract!DefaultNext, Abstract!Tell, Abstract!configured, Untold
<1>5. CASE owed.outcome # "switched"
  <2>1. Untold = NoEvent
    BY <1>5 DEF Untold
  <2>2. PICK p \in Providers :
          \/ owed = Event("exhausted", "failure", p, Nobody)
          \/ owed \in {Event("recovered", k, p, Nobody) : k \in {Quota, Credential}}
    BY <1>1, <1>5 DEF IInv, TableOK, EventRows, Event
  <2> QED
    BY <1>1, <1>3, <2>1, <2>2, NotesOnly
<1> QED
  BY <1>4, <1>5

\* A step of the running process.
LEMMA RunningFollows ==
    ASSUME IInv, ConfigOK', SaveOutcomes = {TRUE}, up, UNCHANGED up, Running
    PROVE  Abstract!DefaultNext
<1>1. ASSUME NEW r \in Requests, Serve(r) PROVE Abstract!DefaultNext
  <2>1. CASE CommitSwitch(r)
    BY <2>1, CommitSwitches
  <2>2. CASE RecordExhausted(r)
    <3>1. failed[r] \in Providers
      BY <2>2 DEF RecordExhausted, IInv, RequestInv, RequestsKnow
    <3>2. owed = NoEvent /\ owed' = NoEvent
      BY <2>2 DEF RecordExhausted, ManagerFree, table
    <3> QED
      BY <2>2, <3>1, <3>2, NotesOnly, NoneUntold DEF RecordExhausted, Untold
  <2> QED
    BY <1>1, <2>1, <2>2, QuietOnly DEF Serve, RouteToDefault, RouteToExposed, Answer,
       Fail, QuarantineFailed, SelectCandidates, CandidateAnswers, CandidateFails, table, Untold
<1>2. ASSUME NEW p \in Providers, Admin(p) PROVE Abstract!DefaultNext
  <2>1. CASE Save /\ UNCHANGED owed
    <3>1. DefaultFollows
      <4>1. CASE ActivateProvider(p)
        BY <4>1 DEF ActivateProvider, DefaultFollows
      <4>2. CASE UpdateProvider(p)
        BY <4>2, TurnFollows DEF UpdateProvider, IInv
      <4>3. CASE ToggleProvider(p)
        BY <4>3, TurnFollows DEF ToggleProvider, IInv
      <4> QED
        BY <1>2, <2>1, <4>1, <4>2, <4>3, AddFollows, DeleteFollows
        DEF IInv, Admin, Save, OnProviderDeleted, TokenChanged, StartTest, TestSucceeds,
            TestFails, config
    <3> QED
      BY <2>1, <3>1, SavesOnly
  <2>2. CASE UNCHANGED config /\ event' = NoEvent /\ Untold' = Untold
    BY <2>2, QuietOnly
  <2>3. ASSUME ClearCredentialFailure(p), UNCHANGED config
        PROVE  Abstract!DefaultNext
    <3>1. event' = NoEvent /\ owed = NoEvent
          /\ owed' \in {NoEvent, Event("recovered", Credential, p, Nobody)}
      BY <2>3 DEF ClearCredentialFailure, ManagerFree
    <3>2. Untold = NoEvent /\ Untold' = NoEvent
      BY <3>1 DEF Untold, NoEvent, Event
    <3> QED
      BY <2>3, <3>1, <3>2, QuietOnly
  <2> QED
    BY <1>2, <2>1, <2>2, <2>3 DEF Admin, AddProvider, UpdateProvider, ToggleProvider,
       DeleteProvider, ActivateProvider, TokenChanged, StartTest, TestSucceeds, TestFails,
       OnProviderDeleted, table, Untold
<1>3. ASSUME NEW p \in Providers, QuotaHook(p) PROVE Abstract!DefaultNext
  <2>1. UNCHANGED config /\ event' = NoEvent /\ owed = NoEvent
        /\ owed' \in {NoEvent, Event("recovered", Quota, p, Nobody)}
    BY <1>3 DEF QuotaHook, ReconcileExhausted, ReconcileRecovered, ManagerFree
  <2>2. Untold = NoEvent /\ Untold' = NoEvent
    BY <2>1 DEF Untold, NoEvent, Event
  <2> QED
    BY <2>1, <2>2, QuietOnly
<1>4. CASE ReorderProviders
  BY <1>4, SavesOnly, ReorderFollows DEF IInv, ReorderProviders, table
<1>5. CASE SetAutoFailover
  <2>1. DefaultFollows
    BY <1>5 DEF SetAutoFailover, DefaultFollows
  <2> QED
    BY <1>5, <2>1, SavesOnly DEF SetAutoFailover, table
<1> QED
  BY <1>1, <1>2, <1>3, <1>4, <1>5, InsertTells DEF Running

\* While saves succeed, requests, admin and quota reports together, and the end
\* of the process between any two writes, do to the default provider and to the
\* list of switches only what DefaultProvider says.
THEOREM Refinement == SaveOutcomes = {TRUE} => (Spec => ImplementsDefaultProvider)
<1> SUFFICES ASSUME SaveOutcomes = {TRUE} PROVE Spec => ImplementsDefaultProvider
  OBVIOUS
<1>1. Init => Abstract!DefaultInit
  <2> SUFFICES ASSUME Init PROVE Abstract!DefaultInit
    OBVIOUS
  <2>1. ConfigOK
    BY InitIInv DEF IInv
  <2> QED
    BY <2>1, DefaultIsEnabled, SameNoEvent, NoneUntold
    DEF Init, ConfigOK, Listed, Untold, Abstract!DefaultInit, Abstract!HasDefault
<1>2. IInv /\ IInv' /\ [Next]_vars => [Abstract!DefaultNext]_Abstract!defaultVars
  <2> SUFFICES ASSUME IInv, IInv', [Next]_vars
               PROVE  Abstract!DefaultNext \/ UNCHANGED Abstract!defaultVars
    OBVIOUS
  <2>1. CASE up /\ Running /\ UNCHANGED up
    BY <2>1, RunningFollows DEF IInv
  <2>2. CASE Tick
    BY <2>2, QuietOnly DEF Tick, Untold
  <2>3. CASE Stop
    <3>1. UNCHANGED <<enabled, order, Default, edits>>
      BY <2>3 DEF Stop, config, Default
    <3>2. Untold' = NoEvent
      BY <2>3 DEF Stop, Untold, NoEvent, Event
    <3> QED
      BY <2>3, <3>1, <3>2, SameNoEvent
      DEF Stop, Abstract!DefaultNext, Abstract!EndProcess, Abstract!configured, Untold
  <2>4. CASE Start
    <3>1. UNCHANGED <<enabled, order, Default, edits, owed>>
      BY <2>4 DEF Start, config, table, Default
    <3> QED
      BY <2>4, <3>1, SameNoEvent
      DEF Start, Abstract!DefaultNext, Abstract!StartProcess, Abstract!configured
  <2>5. CASE UNCHANGED vars
    BY <2>5 DEF vars, config, table, Default, Abstract!defaultVars, Abstract!configured
  <2> QED
    BY <2>1, <2>2, <2>3, <2>4, <2>5 DEF Next
<1> QED
  BY <1>1, <1>2, Inductive, PTL DEF Spec, ImplementsDefaultProvider, Abstract!DefaultSpec
===============================================================================
