--------------------------- MODULE QuotaManagerProofs ---------------------------
(***************************************************************************)
(* What QuotaManager promises, for any providers, callers and capacity.    *)
(*                                                                         *)
(* The single flight needs only that a caller past Begin has a key.  That  *)
(* the table is current needs the invariant to follow a query from its two *)
(* loads to its row: as long as its generation is the provider's and no    *)
(* handler has yet to invalidate, what it loaded is in force or older than *)
(* the provider itself.                                                    *)
(***************************************************************************)
EXTENDS QuotaManager, TLAPS

\* Where a caller has a key, has loaded the card, and has loaded the settings.
Keyed == Leading \union {"joining", "waiting", "answered"}
Carded == Leading \ {"loading"}
Settled == {"acquiring", "querying", "persisting", "reporting"}

\* A caller's key names a provider and a generation no newer than its own.
KeysFit ==
    \A c \in Callers : pc[c] \in Keyed =>
        /\ key[c] \in Keys
        /\ key[c][2] <= generation[key[c][1]]

\* No card, in force or loaded, is newer than the newest version.
LoadsFit ==
    /\ \A p \in Providers : card[p] <= version[p]
    /\ \A c \in Callers : pc[c] \in Carded => asked[c][1] <= version[key[c][1]]

\* A deleted provider has no row.
RowsFit == \A p \in Providers \ exists : snapshot[p] = NoSnapshot

\* An interval edit will write the settings in force.
EditsFit ==
    \A p \in exists : loaded[p] # 0 => loaded[p] = settings[p]

\* Nothing changed under the caller that was not invalidated.
Undisturbed(c) ==
    /\ key[c][2] = generation[key[c][1]]
    /\ uncleaned[key[c][1]] = 0

LoadsCurrent ==
    \A c \in Callers : pc[c] \in Carded /\ Undisturbed(c) =>
        /\ \/ asked[c][1] = card[key[c][1]]
           \/ asked[c][1] < born[key[c][1]]
        /\ pc[c] \in Settled =>
             \/ asked[c] = <<card[key[c][1]], settings[key[c][1]]>>
             \/ asked[c][1] < born[key[c][1]]

CurrentInv == LoadsFit /\ RowsFit /\ EditsFit /\ LoadsCurrent /\ SnapshotIsCurrent

-------------------------------------------------------------------------------
\* A pair of numbers has two numbers.
LEMMA PairOfNats ==
    \A x \in Nat \X Nat : x[1] \in Nat /\ x[2] \in Nat /\ x = <<x[1], x[2]>>
OBVIOUS

\* Every step keeps the types, and the key of a caller fits.
LEMMA NextTyped ==
    ASSUME TypeOK, KeysFit, SingleFlight, [Next]_vars
    PROVE  (TypeOK /\ KeysFit)'
<1>1. ASSUME NEW c \in Callers, Step(c) PROVE (TypeOK /\ KeysFit)'
  <2>1. CASE Begin(c)
    <3>1. PICK q \in Providers : key' = [key EXCEPT ![c] = <<q, generation[q]>>]
      BY <2>1 DEF Begin
    <3>2. pc' = [pc EXCEPT ![c] = "joining"] /\ UNCHANGED <<config, generation, snapshot, flight, asked, success>>
      BY <2>1 DEF Begin, Move
    <3>3. key' \in [Callers -> Keys \union {Nowhere}]
      BY <3>1 DEF TypeOK, Keys
    <3>4. TypeOK'
      BY <3>2, <3>3 DEF config, flight, TypeOK, Places, Keys, Versions
    <3>5. KeysFit'
      BY <3>1, <3>2 DEF config, KeysFit, Keyed, Leading, TypeOK, Keys
    <3> QED BY <3>4, <3>5
  <2>2. CASE Lead(c)
    BY <2>2 DEF Lead, Move, Provider, config, flight, query, TypeOK, KeysFit, Keyed, Leading, Keys, Places, Unasked
  <2>3. CASE Follow(c)
    BY <2>3 DEF Follow, Move, Provider, config, flight, query, TypeOK, KeysFit, Keyed, Leading, Keys, Places, Unasked
  <2>4. CASE FollowerReturns(c)
    BY <2>4 DEF FollowerReturns, Move, Return, Provider, config, flight, query, TypeOK, KeysFit, Keyed, Leading, Keys, Places, Unasked
  <2>5. CASE LoadCard(c)
    <3>1. Provider(c) \in Providers
      BY <2>5 DEF LoadCard, KeysFit, Keyed, Leading, Keys, Provider
    <3>2. <<IF Provider(c) \in exists THEN card[Provider(c)] ELSE 0, asked[c][2]>> \in Nat \X Nat
      BY <3>1, PairOfNats DEF TypeOK, Versions
    <3>3. asked' \in [Callers -> Nat \X Nat]
      BY <2>5, <3>2 DEF LoadCard, TypeOK
    <3>4. TypeOK'
      BY <2>5, <3>3 DEF LoadCard, Move, config, flight, TypeOK, Places
    <3>5. KeysFit'
      BY <2>5 DEF LoadCard, Move, config, KeysFit, Keyed, Leading, TypeOK
    <3> QED BY <3>4, <3>5
  <2>6. CASE LoadQuotaConfig(c)
    <3>1. Provider(c) \in Providers
      BY <2>6 DEF LoadQuotaConfig, KeysFit, Keyed, Leading, Keys, Provider
    <3>2. <<asked[c][1], settings[Provider(c)]>> \in Nat \X Nat
      BY <3>1, PairOfNats DEF TypeOK, Versions
    <3>3. asked' \in [Callers -> Nat \X Nat]
      BY <2>6, <3>2 DEF LoadQuotaConfig, TypeOK
    <3>4. TypeOK'
      BY <2>6, <3>3 DEF LoadQuotaConfig, Move, config, flight, TypeOK, Places
    <3>5. KeysFit'
      BY <2>6 DEF LoadQuotaConfig, Move, config, KeysFit, Keyed, Leading, TypeOK
    <3> QED BY <3>4, <3>5
  <2>7. CASE NotConfigured(c)
    BY <2>7 DEF NotConfigured, Move, Provider, config, flight, query, TypeOK, KeysFit, Keyed, Leading, Keys, Places, Unasked
  <2>8. CASE AcquireSlot(c)
    BY <2>8 DEF AcquireSlot, Move, Provider, config, flight, query, TypeOK, KeysFit, Keyed, Leading, Keys, Places, Unasked
  <2>9. CASE QueryErrs(c)
    BY <2>9 DEF QueryErrs, Move, Provider, config, flight, query, TypeOK, KeysFit, Keyed, Leading, Keys, Places, Unasked
  <2>10. CASE UpstreamAnswers(c)
    <3>1. success' \in [Callers -> BOOLEAN]
      BY <2>10 DEF UpstreamAnswers, TypeOK
    <3>2. pc' = [pc EXCEPT ![c] = "persisting"] /\ UNCHANGED <<config, generation, snapshot, flight, key, asked>>
      BY <2>10 DEF UpstreamAnswers, Move
    <3>3. TypeOK'
      BY <3>1, <3>2 DEF config, flight, TypeOK, Places
    <3>4. KeysFit'
      BY <2>10, <3>2 DEF UpstreamAnswers, config, KeysFit, Keyed, Leading, TypeOK
    <3> QED BY <3>3, <3>4
  <2>11. CASE Persist(c)
    BY <2>11 DEF Persist, Move, Row, Provider, config, flight, query, TypeOK, KeysFit, Keyed, Leading, Keys, Places, Unasked
  <2>12. CASE PersistFails(c)
    BY <2>12 DEF PersistFails, Move, Provider, config, flight, query, TypeOK, KeysFit, Keyed, Leading, Keys, Places, Unasked
  <2>13. CASE PersistInvalidated(c)
    BY <2>13 DEF PersistInvalidated, Move, Provider, config, flight, query, TypeOK, KeysFit, Keyed, Leading, Keys, Places, Unasked
  <2>14. CASE CallHook(c)
    BY <2>14 DEF CallHook, Move, Provider, config, flight, query, TypeOK, KeysFit, Keyed, Leading, Keys, Places, Unasked
  <2>15. CASE Finish(c)
    <3>1. pc' \in [Callers -> Places]
      BY <2>15 DEF Finish, TypeOK, Places
    <3>2. \A d \in Callers : pc'[d] \in Keyed => pc[d] \in Keyed
      BY <2>15 DEF Finish, TypeOK, Keyed, Leading
    <3>3. TypeOK'
      BY <2>15, <3>1 DEF Finish, config, query, TypeOK, SingleFlight, Leading
    <3>4. KeysFit'
      BY <2>15, <3>2 DEF Finish, config, query, KeysFit
    <3> QED BY <3>3, <3>4
  <2>16. CASE Forget(c)
    BY <2>16 DEF Forget, Move, Return, Provider, config, flight, query, TypeOK, KeysFit, Keyed, Leading, Keys, Places, Unasked
  <2>17. CASE BeginDraft(c)
    BY <2>17 DEF BeginDraft, Move, Provider, config, flight, query, TypeOK, KeysFit, Keyed, Leading, Keys, Places, Unasked
  <2>18. CASE AcquireDraft(c)
    BY <2>18 DEF AcquireDraft, Move, Provider, config, flight, query, TypeOK, KeysFit, Keyed, Leading, Keys, Places, Unasked
  <2>19. CASE DraftReturns(c)
    BY <2>19 DEF DraftReturns, Move, Provider, config, flight, query, TypeOK, KeysFit, Keyed, Leading, Keys, Places, Unasked
  <2> QED BY <1>1, <2>1, <2>2, <2>3, <2>4, <2>5, <2>6, <2>7, <2>8, <2>9, <2>10, <2>11, <2>12, <2>13, <2>14, <2>15, <2>16, <2>17, <2>18, <2>19 DEF Step
<1>2. ASSUME NEW p \in Providers, Admin(p) PROVE (TypeOK /\ KeysFit)'
  <2>1. CASE UpdateCard(p)
    <3>1. version'[p] \in Versions /\ version' \in [Providers -> Versions]
      BY <2>1, QuotaAssumption DEF UpdateCard, Save, TypeOK, Versions
    <3>2. TypeOK'
      BY <2>1, <3>1 DEF UpdateCard, Save, flight, query, TypeOK
    <3>3. KeysFit'
      BY <2>1 DEF UpdateCard, Save, flight, query, KeysFit
    <3> QED BY <3>2, <3>3
  <2>2. CASE UpdateUsage(p)
    <3>1. version'[p] \in Versions /\ version' \in [Providers -> Versions]
      BY <2>2, QuotaAssumption DEF UpdateUsage, Save, TypeOK, Versions
    <3>2. TypeOK'
      BY <2>2, <3>1 DEF UpdateUsage, Save, flight, query, TypeOK
    <3>3. KeysFit'
      BY <2>2 DEF UpdateUsage, Save, flight, query, KeysFit
    <3> QED BY <3>2, <3>3
  <2>3. CASE LoadForInterval(p)
    BY <2>3 DEF LoadForInterval, config, flight, query, TypeOK, KeysFit, Keyed, Leading, Keys, Places, Unasked
  <2>4. CASE SaveInterval(p)
    BY <2>4 DEF SaveInterval, config, flight, query, TypeOK, KeysFit, Keyed, Leading, Keys, Places, Unasked
  <2>5. CASE OverwriteProvider(p)
    <3>1. version'[p] \in Versions /\ version' \in [Providers -> Versions]
      BY <2>5, QuotaAssumption DEF OverwriteProvider, Save, TypeOK, Versions
    <3>2. TypeOK'
      BY <2>5, <3>1 DEF OverwriteProvider, Save, flight, query, TypeOK
    <3>3. KeysFit'
      BY <2>5 DEF OverwriteProvider, Save, flight, query, KeysFit
    <3> QED BY <3>2, <3>3
  <2>6. CASE ImportProvider(p)
    <3>1. version'[p] \in Versions /\ version' \in [Providers -> Versions]
      BY <2>6, QuotaAssumption DEF ImportProvider, Save, TypeOK, Versions
    <3>2. TypeOK'
      BY <2>6, <3>1 DEF ImportProvider, Save, flight, query, TypeOK
    <3>3. KeysFit'
      BY <2>6 DEF ImportProvider, Save, flight, query, KeysFit
    <3> QED BY <3>2, <3>3
  <2>7. CASE DeleteProvider(p)
    <3>1. NoSnapshot \in [result : Nat \X Nat, lastSuccess : Nat \X Nat]
      BY DEF NoSnapshot, Unasked
    <3>2. TypeOK'
      BY <2>7, <3>1 DEF DeleteProvider, flight, query, TypeOK
    <3>3. KeysFit'
      BY <2>7 DEF DeleteProvider, flight, query, KeysFit
    <3> QED BY <3>2, <3>3
  <2>8. CASE DeleteSnapshot(p)
    <3>1. uncleaned' \in [Providers -> Nat] /\ generation' \in [Providers -> Nat]
      BY <2>8 DEF DeleteSnapshot, TypeOK
    <3>2. NoSnapshot \in [result : Nat \X Nat, lastSuccess : Nat \X Nat]
      BY DEF NoSnapshot, Unasked
    <3>3. TypeOK'
      BY <2>8, <3>1, <3>2 DEF DeleteSnapshot, flight, query, TypeOK
    <3>4. KeysFit'
      BY <2>8 DEF DeleteSnapshot, flight, query, KeysFit, TypeOK, Keys
    <3> QED BY <3>3, <3>4
  <2>9. CASE UpdateSecondSecret(p)
    <3>1. version'[p] \in Versions /\ version' \in [Providers -> Versions]
      BY <2>9, QuotaAssumption DEF UpdateSecondSecret, Save, TypeOK, Versions
    <3>2. TypeOK'
      BY <2>9, <3>1 DEF UpdateSecondSecret, Save, flight, query, TypeOK
    <3>3. KeysFit'
      BY <2>9 DEF UpdateSecondSecret, Save, flight, query, KeysFit
    <3> QED BY <3>2, <3>3
  <2> QED BY <1>2, <2>1, <2>2, <2>3, <2>4, <2>5, <2>6, <2>7, <2>8, <2>9 DEF Admin
<1>3. CASE UNCHANGED vars
  BY <1>3 DEF vars, config, flight, query, TypeOK, KeysFit
<1> QED BY <1>1, <1>2, <1>3 DEF Next

\* What SingleFlight sees of a step: who leads, who cleans, who waits, on what.
QuietStep ==
    /\ UNCHANGED flight
    /\ \A d \in Callers :
         /\ pc'[d] \in Leading <=> pc[d] \in Leading
         /\ pc'[d] = "cleaning" <=> pc[d] = "cleaning"
         /\ pc'[d] = "waiting" => pc[d] = "waiting"
         /\ pc'[d] \in Leading \union {"waiting"} => key'[d] = key[d]

LEMMA QuietKeepsFlight ==
    ASSUME SingleFlight, QuietStep
    PROVE  SingleFlight'
BY DEF SingleFlight, QuietStep, flight, Leading

\* Every step keeps one leader per key.
LEMMA NextSingleFlight ==
    ASSUME TypeOK, SingleFlight, [Next]_vars
    PROVE  SingleFlight'
<1>1. ASSUME NEW c \in Callers, Step(c) PROVE SingleFlight'
  <2>1. CASE Begin(c)
    BY <2>1, QuietKeepsFlight DEF Begin, Move, QuietStep, flight, query, TypeOK, Leading
  <2>2. CASE FollowerReturns(c)
    BY <2>2, QuietKeepsFlight DEF FollowerReturns, Return, Move, QuietStep, flight, query, TypeOK, Leading
  <2>3. CASE LoadCard(c)
    BY <2>3, QuietKeepsFlight DEF LoadCard, Move, QuietStep, flight, query, TypeOK, Leading
  <2>4. CASE LoadQuotaConfig(c)
    BY <2>4, QuietKeepsFlight DEF LoadQuotaConfig, Move, QuietStep, flight, query, TypeOK, Leading
  <2>5. CASE NotConfigured(c)
    BY <2>5, QuietKeepsFlight DEF NotConfigured, Move, QuietStep, flight, query, TypeOK, Leading
  <2>6. CASE AcquireSlot(c)
    BY <2>6, QuietKeepsFlight DEF AcquireSlot, Move, QuietStep, flight, query, TypeOK, Leading
  <2>7. CASE QueryErrs(c)
    BY <2>7, QuietKeepsFlight DEF QueryErrs, Move, QuietStep, flight, query, TypeOK, Leading
  <2>8. CASE UpstreamAnswers(c)
    BY <2>8, QuietKeepsFlight DEF UpstreamAnswers, Move, QuietStep, flight, query, TypeOK, Leading
  <2>9. CASE Persist(c)
    BY <2>9, QuietKeepsFlight DEF Persist, Move, QuietStep, flight, query, TypeOK, Leading
  <2>10. CASE PersistFails(c)
    BY <2>10, QuietKeepsFlight DEF PersistFails, Move, QuietStep, flight, query, TypeOK, Leading
  <2>11. CASE PersistInvalidated(c)
    BY <2>11, QuietKeepsFlight DEF PersistInvalidated, Move, QuietStep, flight, query, TypeOK, Leading
  <2>12. CASE CallHook(c)
    BY <2>12, QuietKeepsFlight DEF CallHook, Move, QuietStep, flight, query, TypeOK, Leading
  <2>13. CASE BeginDraft(c)
    BY <2>13, QuietKeepsFlight DEF BeginDraft, Move, QuietStep, flight, query, TypeOK, Leading
  <2>14. CASE AcquireDraft(c)
    BY <2>14, QuietKeepsFlight DEF AcquireDraft, Move, QuietStep, flight, query, TypeOK, Leading
  <2>15. CASE DraftReturns(c)
    BY <2>15, QuietKeepsFlight DEF DraftReturns, Move, QuietStep, flight, query, TypeOK, Leading
  <2>16. CASE Lead(c)
    BY <2>16 DEF Lead, Move, flight, query, TypeOK, SingleFlight, Leading
  <2>17. CASE Follow(c)
    <3>1. /\ UNCHANGED <<inFlight, finished, key>>
          /\ key[c] \in inFlight
          /\ pc' = [pc EXCEPT ![c] = IF key[c] \in finished THEN "answered" ELSE "waiting"]
      BY <2>17 DEF Follow, Move, flight, query
    <3>2. /\ \A d \in Callers : pc'[d] \in Leading <=> pc[d] \in Leading
          /\ \A d \in Callers : pc'[d] = "cleaning" <=> pc[d] = "cleaning"
      BY <2>17, <3>1 DEF Follow, TypeOK, Leading
    <3>3. \A d \in Callers : pc'[d] = "waiting" => key[d] \in inFlight \ finished
      BY <3>1 DEF TypeOK, SingleFlight
    <3> QED
      BY <3>1, <3>2, <3>3 DEF SingleFlight
  <2>18. CASE Finish(c)
    BY <2>18 DEF Finish, flight, query, TypeOK, SingleFlight, Leading
  <2>19. CASE Forget(c)
    BY <2>19 DEF Forget, Return, Move, flight, query, TypeOK, SingleFlight, Leading
  <2> QED BY <1>1, <2>1, <2>2, <2>3, <2>4, <2>5, <2>6, <2>7, <2>8, <2>9, <2>10, <2>11, <2>12, <2>13, <2>14, <2>15, <2>16, <2>17, <2>18, <2>19 DEF Step
<1>2. ASSUME NEW p \in Providers, Admin(p) PROVE SingleFlight'
  <2>1. UNCHANGED <<flight, pc, key>>
    BY <1>2 DEF Admin, UpdateCard, UpdateUsage, UpdateSecondSecret, LoadForInterval,
                SaveInterval, OverwriteProvider, ImportProvider, DeleteProvider, DeleteSnapshot, Save, query
  <2> QED BY <2>1, QuietKeepsFlight DEF QuietStep
<1>3. CASE UNCHANGED vars
  BY <1>3, QuietKeepsFlight DEF vars, query, QuietStep
<1> QED BY <1>1, <1>2, <1>3 DEF Next

\* What CurrentInv sees of a step of a caller that neither loads nor stores.
AsideStep ==
    /\ UNCHANGED <<config, generation, snapshot>>
    /\ \A d \in Callers :
         /\ pc'[d] \in Carded => /\ pc[d] \in Carded
                                 /\ key'[d] = key[d] /\ asked'[d] = asked[d]
         /\ pc'[d] \in Settled => pc[d] \in Settled

LEMMA AsideKeepsCurrent ==
    ASSUME CurrentInv, AsideStep
    PROVE  CurrentInv'
<1>1. LoadsFit' /\ RowsFit' /\ EditsFit'
  BY DEF CurrentInv, AsideStep, LoadsFit, RowsFit, EditsFit, config
<1>2. LoadsCurrent'
  BY DEF CurrentInv, AsideStep, LoadsCurrent, Undisturbed, config
<1>3. SnapshotIsCurrent'
  BY DEF CurrentInv, AsideStep, SnapshotIsCurrent, config
<1> QED BY <1>1, <1>2, <1>3 DEF CurrentInv

\* A save keeps the table current as long as DeleteSnapshot is yet to come.
LEMMA SaveKeepsCurrent ==
    ASSUME NEW p \in Providers,
           TypeOK, KeysFit, CurrentInv,
           Save(p), UNCHANGED <<exists, born>>,
           loaded[p] = 0 \/ UNCHANGED settings,
           uncleaned' = [uncleaned EXCEPT ![p] = @ + 1],
           card' = card \/ card' = [card EXCEPT ![p] = version'[p]],
           settings' = settings \/ settings' = [settings EXCEPT ![p] = version'[p]]
    PROVE  CurrentInv'
<1>1. uncleaned'[p] # 0 /\ version'[p] > version[p] /\ UNCHANGED <<loaded, generation, snapshot, pc, key, asked>>
  BY DEF TypeOK, Versions, Save, query
<1>2. \A q \in Providers \ {p} :
         /\ uncleaned'[q] = uncleaned[q] /\ version'[q] = version[q]
         /\ card'[q] = card[q] /\ settings'[q] = settings[q]
  BY DEF TypeOK, Save
<1>3. \A c \in Callers : pc[c] \in Carded => key[c][1] \in Providers
  BY DEF KeysFit, Keyed, Carded, Keys
<1>4. LoadsFit'
  <2>1. card'[p] <= version'[p]
    BY <1>1 DEF CurrentInv, LoadsFit, TypeOK, Versions, Save
  <2>2. \A c \in Callers : pc[c] \in Carded => asked[c][1] <= version'[key[c][1]]
    BY <1>1, <1>2, <1>3, PairOfNats DEF CurrentInv, LoadsFit, TypeOK, Versions, Save
  <2> QED BY <1>1, <1>2, <2>1, <2>2 DEF CurrentInv, LoadsFit
<1>5. RowsFit' /\ EditsFit'
  BY <1>1, <1>2 DEF CurrentInv, RowsFit, EditsFit, TypeOK
<1>6. LoadsCurrent'
  BY <1>1, <1>2, <1>3 DEF CurrentInv, LoadsCurrent, Undisturbed
<1>7. SnapshotIsCurrent'
  BY <1>1, <1>2 DEF CurrentInv, SnapshotIsCurrent
<1> QED BY <1>4, <1>5, <1>6, <1>7 DEF CurrentInv

\* A query that loads or stores keeps the table current.
LEMMA QueryKeepsCurrent ==
    ASSUME NEW c \in Callers, TypeOK, KeysFit, CurrentInv,
           LoadCard(c) \/ LoadQuotaConfig(c) \/ Persist(c)
    PROVE  CurrentInv'
<1> DEFINE P == Provider(c)
<1>0. P \in Providers /\ P = key[c][1]
  BY DEF LoadCard, LoadQuotaConfig, Persist, Provider, KeysFit, Keyed, Leading, Keys
<1>1. CASE LoadCard(c)
  <2>1. /\ asked'[c] = <<IF P \in exists THEN card[P] ELSE 0, asked[c][2]>>
        /\ pc'[c] = "resolving"
        /\ \A d \in Callers \ {c} : asked'[d] = asked[d] /\ pc'[d] = pc[d]
        /\ UNCHANGED <<config, generation, snapshot, key>>
    BY <1>1 DEF LoadCard, Move, TypeOK
  <2>2. LoadsFit' /\ RowsFit' /\ EditsFit'
    <3>1. asked'[c][1] <= version[P]
      BY <1>0, <2>1 DEF CurrentInv, LoadsFit, TypeOK, Versions
    <3> QED BY <1>0, <2>1, <3>1 DEF CurrentInv, LoadsFit, RowsFit, EditsFit, config
  <2>3. LoadsCurrent'
    <3>1. asked'[c][1] = card[P] \/ asked'[c][1] < born[P]
      BY <1>0, <2>1 DEF TypeOK, Versions
    <3> QED BY <1>0, <2>1, <3>1 DEF CurrentInv, LoadsCurrent, Undisturbed, Settled, config
  <2>4. SnapshotIsCurrent'
    BY <2>1 DEF CurrentInv, SnapshotIsCurrent, config
  <2> QED BY <2>2, <2>3, <2>4 DEF CurrentInv
<1>2. CASE LoadQuotaConfig(c)
  <2>1. /\ asked'[c] = <<asked[c][1], settings[P]>>
        /\ pc[c] = "resolving" /\ pc'[c] = "acquiring"
        /\ \A d \in Callers \ {c} : asked'[d] = asked[d] /\ pc'[d] = pc[d]
        /\ UNCHANGED <<config, generation, snapshot, key>>
    BY <1>2 DEF LoadQuotaConfig, Move, TypeOK
  <2>2. LoadsFit' /\ RowsFit' /\ EditsFit'
    BY <2>1 DEF CurrentInv, LoadsFit, RowsFit, EditsFit, config, Carded, Leading
  <2>3. LoadsCurrent'
    BY <1>0, <2>1 DEF CurrentInv, LoadsCurrent, Undisturbed, Carded, Leading, config
  <2>4. SnapshotIsCurrent'
    BY <2>1 DEF CurrentInv, SnapshotIsCurrent, config
  <2> QED BY <2>2, <2>3, <2>4 DEF CurrentInv
<1>3. CASE Persist(c)
  <2>1. /\ P \in exists /\ generation[P] = key[c][2]
        /\ pc[c] = "persisting" /\ pc'[c] = "reporting"
        /\ \A d \in Callers \ {c} : pc'[d] = pc[d]
        /\ UNCHANGED <<config, generation, key, asked>>
        /\ snapshot' = [snapshot EXCEPT ![P] = Row(c)]
    BY <1>3 DEF Persist, Move, TypeOK, query
  <2>2. LoadsFit' /\ RowsFit' /\ EditsFit'
    BY <2>1 DEF CurrentInv, LoadsFit, RowsFit, EditsFit, config, Carded, Leading, TypeOK
  <2>3. LoadsCurrent'
    BY <2>1 DEF CurrentInv, LoadsCurrent, Undisturbed, Carded, Settled, Leading, config
  <2>4. uncleaned[P] = 0 =>
           asked[c] = <<card[P], settings[P]>> \/ asked[c][1] < born[P]
    BY <1>0, <2>1 DEF CurrentInv, LoadsCurrent, Undisturbed, Carded, Settled, Leading
  <2>5. /\ \A q \in Providers \ {P} : snapshot'[q] = snapshot[q]
        /\ snapshot'[P].result = asked[c]
        /\ snapshot'[P].lastSuccess \in {asked[c], snapshot[P].lastSuccess}
    BY <1>0, <2>1 DEF Row, TypeOK
  <2>6. SnapshotIsCurrent'
    <3> SUFFICES ASSUME NEW q \in Providers, uncleaned[q] = 0,
                        NEW a \in {snapshot'[q].result, snapshot'[q].lastSuccess} \ {Unasked}
                 PROVE  a = <<card[q], settings[q]>> \/ a[1] < born[q]
      BY <2>1 DEF SnapshotIsCurrent, config
    <3>1. CASE q = P
      BY <1>0, <2>4, <2>5, <3>1 DEF CurrentInv, SnapshotIsCurrent
    <3>2. CASE q # P
      BY <2>5, <3>2 DEF CurrentInv, SnapshotIsCurrent
    <3> QED BY <3>1, <3>2
  <2> QED BY <2>2, <2>3, <2>6 DEF CurrentInv
<1> QED BY <1>1, <1>2, <1>3

\* So does an import of a deleted provider: whatever was asked is older.
LEMMA ImportKeepsCurrent ==
    ASSUME NEW p \in Providers, Lapses = {},
           TypeOK, KeysFit, CurrentInv, ImportProvider(p)
    PROVE  CurrentInv'
<1>1. /\ version'[p] > version[p] /\ version'[p] = born'[p] /\ card'[p] = version'[p]
      /\ loaded[p] = 0 /\ p \notin exists /\ exists' = exists \union {p}
      /\ UNCHANGED <<uncleaned, loaded, generation, snapshot, pc, key, asked>>
  BY DEF ImportProvider, Save, NoOverlap, TypeOK, Versions, query
<1>2. \A q \in Providers \ {p} :
         /\ version'[q] = version[q] /\ born'[q] = born[q]
         /\ card'[q] = card[q] /\ settings'[q] = settings[q]
  BY DEF ImportProvider, Save, TypeOK
<1>3. \A c \in Callers : pc[c] \in Carded =>
         /\ key[c][1] \in Providers
         /\ key[c][1] = p => asked[c][1] < born'[p]
  <2> SUFFICES ASSUME NEW c \in Callers, pc[c] \in Carded
               PROVE  /\ key[c][1] \in Providers
                      /\ key[c][1] = p => asked[c][1] < born'[p]
    OBVIOUS
  <2>1. asked[c][1] \in Nat /\ version[p] \in Nat /\ born'[p] = version[p] + 1
    BY PairOfNats DEF ImportProvider, Save, TypeOK, Versions
  <2>2. key[c][1] \in Providers
    BY DEF KeysFit, Keyed, Carded, Keys
  <2>3. asked[c][1] <= version[key[c][1]]
    BY DEF CurrentInv, LoadsFit
  <2> QED BY <2>1, <2>2, <2>3
<1>4. born'[p] \in Nat
  BY <1>1 DEF ImportProvider, Save, TypeOK, Versions
<1>5. LoadsFit'
  <2>1. \A q \in Providers : card'[q] <= version'[q]
    BY <1>1, <1>2, <1>4 DEF CurrentInv, LoadsFit
  <2>2. ASSUME NEW c \in Callers, pc[c] \in Carded PROVE asked[c][1] <= version'[key[c][1]]
    <3>1. CASE key[c][1] = p
      <4>1. asked[c][1] \in Nat
        BY PairOfNats DEF TypeOK
      <4> QED BY <1>1, <1>3, <1>4, <2>2, <3>1, <4>1
    <3>2. CASE key[c][1] # p
      BY <1>2, <1>3, <2>2, <3>2 DEF CurrentInv, LoadsFit
    <3> QED BY <3>1, <3>2
  <2> QED BY <1>1, <2>1, <2>2 DEF LoadsFit
<1>6. RowsFit' /\ EditsFit'
  BY <1>1, <1>2 DEF CurrentInv, RowsFit, EditsFit, TypeOK
<1>7. LoadsCurrent'
  BY <1>1, <1>2, <1>3 DEF CurrentInv, LoadsCurrent, Undisturbed, Carded, Settled, Leading
<1>8. SnapshotIsCurrent'
  <2>1. snapshot'[p] = NoSnapshot
    BY <1>1 DEF CurrentInv, RowsFit
  <2> QED BY <1>1, <1>2, <2>1 DEF CurrentInv, SnapshotIsCurrent, NoSnapshot
<1> QED BY <1>5, <1>6, <1>7, <1>8 DEF CurrentInv

\* What deletes rows keeps what is left current.
LEMMA DeletionKeepsCurrent ==
    ASSUME NEW p \in Providers, TypeOK, KeysFit, CurrentInv,
           DeleteProvider(p) \/ DeleteSnapshot(p)
    PROVE  CurrentInv'
<1>1. /\ UNCHANGED <<version, card, settings, loaded, born, pc, key, asked>>
      /\ exists' \subseteq exists
      /\ exists' # exists => exists' = exists \ {p}
      /\ snapshot' = [snapshot EXCEPT ![p] = NoSnapshot]
  BY DEF DeleteProvider, DeleteSnapshot, query
<1>2. LoadsFit' /\ RowsFit' /\ EditsFit'
  BY <1>1 DEF CurrentInv, LoadsFit, RowsFit, EditsFit, TypeOK
<1>3. LoadsCurrent'
  <2>1. CASE DeleteProvider(p)
    BY <1>1, <2>1 DEF DeleteProvider, CurrentInv, LoadsCurrent, Undisturbed
  <2>2. CASE DeleteSnapshot(p)
    <3>1. /\ generation'[p] = generation[p] + 1
          /\ \A q \in Providers \ {p} : generation'[q] = generation[q] /\ uncleaned'[q] = uncleaned[q]
      BY <2>2 DEF DeleteSnapshot, TypeOK
    <3>2. \A c \in Callers : pc[c] \in Carded =>
             /\ key[c][1] \in Providers /\ key[c][2] \in Nat
             /\ key[c][2] <= generation[key[c][1]]
      BY DEF KeysFit, Keyed, Carded, Keys
    <3>3. \A c \in Callers : pc[c] \in Carded /\ Undisturbed(c)' => key[c][1] # p
      BY <1>1, <3>1, <3>2 DEF Undisturbed, TypeOK
    <3> QED BY <1>1, <3>1, <3>2, <3>3 DEF CurrentInv, LoadsCurrent, Undisturbed, Carded, Settled, Leading
  <2> QED BY <2>1, <2>2
<1>4. SnapshotIsCurrent'
  <2>1. \A q \in Providers \ {p} : snapshot'[q] = snapshot[q] /\ uncleaned'[q] = uncleaned[q]
    BY <1>1 DEF DeleteProvider, DeleteSnapshot, TypeOK
  <2>2. snapshot'[p] = NoSnapshot
    BY <1>1 DEF TypeOK
  <2> QED BY <1>1, <2>1, <2>2 DEF CurrentInv, SnapshotIsCurrent, NoSnapshot
<1> QED BY <1>2, <1>3, <1>4 DEF CurrentInv

\* An interval edit that nothing overlaps writes back what is there.
LEMMA IntervalKeepsCurrent ==
    ASSUME NEW p \in Providers, TypeOK, KeysFit, CurrentInv,
           LoadForInterval(p) \/ SaveInterval(p)
    PROVE  CurrentInv'
<1>1. UNCHANGED <<exists, version, card, settings, born, uncleaned, generation, snapshot, pc, key, asked>>
  BY DEF LoadForInterval, SaveInterval, CurrentInv, EditsFit, TypeOK, query
<1>2. EditsFit'
  BY <1>1 DEF LoadForInterval, SaveInterval, CurrentInv, EditsFit, TypeOK
<1> QED BY <1>1, <1>2 DEF CurrentInv, LoadsFit, RowsFit, LoadsCurrent, Undisturbed, SnapshotIsCurrent

\* Every step keeps the table current, if no edit overlaps an interval edit or
\* changes the second secret alone.
LEMMA NextCurrent ==
    ASSUME Lapses = {}, TypeOK, KeysFit, CurrentInv, [Next]_vars
    PROVE  CurrentInv'
<1>1. ASSUME NEW c \in Callers, Step(c) PROVE CurrentInv'
  <2>1. CASE Begin(c)
    BY <2>1, AsideKeepsCurrent DEF Begin, Move, AsideStep, query, TypeOK, Carded, Settled, Leading
  <2>2. CASE Lead(c)
    BY <2>2, AsideKeepsCurrent DEF Lead, Move, AsideStep, query, TypeOK, Carded, Settled, Leading
  <2>3. CASE Follow(c)
    BY <2>3, AsideKeepsCurrent DEF Follow, Move, AsideStep, query, TypeOK, Carded, Settled, Leading
  <2>4. CASE FollowerReturns(c)
    BY <2>4, AsideKeepsCurrent DEF FollowerReturns, Return, Move, AsideStep, query, TypeOK, Carded, Settled, Leading
  <2>5. CASE NotConfigured(c)
    BY <2>5, AsideKeepsCurrent DEF NotConfigured, Move, AsideStep, query, TypeOK, Carded, Settled, Leading
  <2>6. CASE AcquireSlot(c)
    BY <2>6, AsideKeepsCurrent DEF AcquireSlot, Move, AsideStep, query, TypeOK, Carded, Settled, Leading
  <2>7. CASE QueryErrs(c)
    BY <2>7, AsideKeepsCurrent DEF QueryErrs, Move, AsideStep, query, TypeOK, Carded, Settled, Leading
  <2>8. CASE UpstreamAnswers(c)
    BY <2>8, AsideKeepsCurrent DEF UpstreamAnswers, Move, AsideStep, query, TypeOK, Carded, Settled, Leading
  <2>9. CASE PersistFails(c)
    BY <2>9, AsideKeepsCurrent DEF PersistFails, Move, AsideStep, query, TypeOK, Carded, Settled, Leading
  <2>10. CASE PersistInvalidated(c)
    BY <2>10, AsideKeepsCurrent DEF PersistInvalidated, Move, AsideStep, query, TypeOK, Carded, Settled, Leading
  <2>11. CASE CallHook(c)
    BY <2>11, AsideKeepsCurrent DEF CallHook, Move, AsideStep, query, TypeOK, Carded, Settled, Leading
  <2>12. CASE Finish(c)
    BY <2>12, AsideKeepsCurrent DEF Finish, AsideStep, query, TypeOK, Carded, Settled, Leading
  <2>13. CASE Forget(c)
    BY <2>13, AsideKeepsCurrent DEF Forget, Return, Move, AsideStep, query, TypeOK, Carded, Settled, Leading
  <2>14. CASE BeginDraft(c)
    BY <2>14, AsideKeepsCurrent DEF BeginDraft, Move, AsideStep, query, TypeOK, Carded, Settled, Leading
  <2>15. CASE AcquireDraft(c)
    BY <2>15, AsideKeepsCurrent DEF AcquireDraft, Move, AsideStep, query, TypeOK, Carded, Settled, Leading
  <2>16. CASE DraftReturns(c)
    BY <2>16, AsideKeepsCurrent DEF DraftReturns, Move, AsideStep, query, TypeOK, Carded, Settled, Leading
  <2> QED BY <1>1, QueryKeepsCurrent, <2>1, <2>2, <2>3, <2>4, <2>5, <2>6, <2>7, <2>8, <2>9, <2>10, <2>11, <2>12, <2>13, <2>14, <2>15, <2>16 DEF Step
<1>2. ASSUME NEW p \in Providers, Admin(p) PROVE CurrentInv'
  <2>1. CASE UpdateCard(p)
    BY <2>1, SaveKeepsCurrent DEF UpdateCard
  <2>2. CASE UpdateUsage(p)
    BY <2>2, SaveKeepsCurrent DEF UpdateUsage, NoOverlap
  <2>3. CASE OverwriteProvider(p)
    BY <2>3, SaveKeepsCurrent DEF OverwriteProvider, NoOverlap
  <2>4. ~ UpdateSecondSecret(p)
    BY DEF UpdateSecondSecret
  <2> QED BY <1>2, <2>1, <2>2, <2>3, <2>4, ImportKeepsCurrent, DeletionKeepsCurrent,
             IntervalKeepsCurrent DEF Admin
<1>3. CASE UNCHANGED vars
  BY <1>3, AsideKeepsCurrent DEF vars, query, AsideStep
<1> QED BY <1>1, <1>2, <1>3 DEF Next

-------------------------------------------------------------------------------
\* The invariant holds initially.
LEMMA InitInv ==
    ASSUME Init
    PROVE  TypeOK /\ KeysFit /\ SingleFlight /\ CurrentInv
<1>1. TypeOK
  BY QuotaAssumption DEF Init, TypeOK, Places, Versions, NoSnapshot, Unasked, Nowhere
<1>2. KeysFit /\ SingleFlight
  BY DEF Init, KeysFit, SingleFlight, Keyed, Leading
<1>3. CurrentInv
  BY DEF Init, CurrentInv, LoadsFit, RowsFit, EditsFit, LoadsCurrent, SnapshotIsCurrent,
         Carded, Leading, NoSnapshot
<1> QED BY <1>1, <1>2, <1>3

\* Typed states stay typed, and keys stay in step with the generations.
THEOREM FlightInductive == Spec => [](TypeOK /\ KeysFit /\ SingleFlight)
<1>1. Init => TypeOK /\ KeysFit /\ SingleFlight
  BY InitInv
<1>2. TypeOK /\ KeysFit /\ SingleFlight /\ [Next]_vars => (TypeOK /\ KeysFit /\ SingleFlight)'
  BY NextTyped, NextSingleFlight
<1> QED BY <1>1, <1>2, PTL DEF Spec

\* Type correctness.
THEOREM TypeCorrect == Spec => []TypeOK
BY FlightInductive, PTL

\* However callers, saves and deletions interleave, no two queries of one
\* provider and generation are under way at once, and a follower waits only on
\* a leader that will close its channel (manager.go:134-166).
THEOREM QueriesAreDeduplicated == Spec => []SingleFlight
BY FlightInductive, PTL

\* As long as no save of the settings falls between the load and the save of an
\* interval edit and none changes the second secret alone, no query puts back an invalidated result (manager.go:290-297).
THEOREM TableIsCurrent ==
    Lapses = {} => (Spec => []SnapshotIsCurrent)
<1> SUFFICES ASSUME Lapses = {} PROVE Spec => []SnapshotIsCurrent
  OBVIOUS
<1>1. Init => CurrentInv
  BY InitInv
<1>2. TypeOK /\ KeysFit /\ CurrentInv /\ [Next]_vars => CurrentInv'
  BY NextCurrent
<1>3. CurrentInv => SnapshotIsCurrent
  BY DEF CurrentInv
<1> QED BY <1>1, <1>2, <1>3, FlightInductive, PTL DEF Spec
================================================================================
