---------------------------- MODULE PageListsProofs ----------------------------
(***************************************************************************)
(* Proofs about the two lists the page keeps of the server's data.         *)
(*                                                                         *)
(* SessionData: its shape, that spinners have a request, that the list     *)
(* beside the selector fits it, and that the cache implements LatestWins,  *)
(* for any number of projects and requests.                                *)
(*                                                                         *)
(* ProviderList: its shape, that an order brought back from the page keeps *)
(* the server's default provider, and that a form closes only over what    *)
(* was stored, for any list, file and number of actions.  The shape needs  *)
(* that the server never runs out of ids: it holds an entry for each id it *)
(* drew, an action draws at most one id per entry of the file and one      *)
(* more, and a request that may still draw has reserved its share.         *)
(***************************************************************************)
EXTENDS SessionData, ProviderList, SequenceTheorems, FiniteSetTheorems,
        WellFoundedInduction, TLAPS

CacheType == [list : Lists, loading : BOOLEAN, error : BOOLEAN, loaded : BOOLEAN]
BrowserType == [shown : BOOLEAN, list : Lists, loading : BOOLEAN, error : BOOLEAN,
                selected : Paths, picked : BOOLEAN]

-----------------------------------------------------------------------------
(* The lists *)

\* A list of a request is a list, and so is the empty one.
LEMMA ListType ==
    /\ NoList \in Lists
    /\ \A q \in Paths, n \in Numbers :
           List(q, n) \in Lists /\ List(q, n).project = q /\ List(q, n).at = n
BY DEF NoList, List, Lists, Paths

\* The number of a list is a number.
LEMMA ListNumber == NoList.at = 0 /\ NoList.project = All
BY DEF NoList, List

LEMMA EmptyCacheType ==
    /\ EmptyCache \in CacheType
    /\ EmptyCache.list = NoList /\ EmptyCache.loading = FALSE /\ EmptyCache.error = FALSE
BY ListType DEF EmptyCache, CacheType

LEMMA BrowserShape ==
    ASSUME NEW l \in Lists, NEW s \in BOOLEAN, NEW e \in BOOLEAN
    PROVE  /\ Browser(l, s, e) \in BrowserType
           /\ Browser(l, s, e).shown = TRUE
           /\ Browser(l, s, e).loading = s
           /\ Browser(l, s, e).picked = FALSE
BY DEF Browser, BrowserType, Paths

LEMMA NoBrowserShape ==
    /\ NoBrowser \in BrowserType
    /\ NoBrowser.shown = FALSE /\ NoBrowser.loading = FALSE /\ NoBrowser.picked = FALSE
BY ListType DEF NoBrowser, Browser, BrowserType, Paths

\* What the watchers make of the browser when the cache becomes new.
LEMMA FollowShape ==
    ASSUME browser \in BrowserType, cache \in CacheType,
           NEW new \in CacheType, NEW w \in BOOLEAN
    PROVE  /\ Follow(new, w) \in BrowserType
           /\ Follow(new, w).shown = browser.shown
           /\ Follow(new, w).selected = browser.selected
           /\ Follow(new, w).picked = browser.picked
           /\ ~browser.shown => Follow(new, w) = browser
           /\ browser.shown =>
                /\ Follow(new, w).list = IF w THEN new.list ELSE browser.list
                /\ Follow(new, w).loading =
                       IF new.loading # cache.loading THEN new.loading ELSE browser.loading
                /\ Follow(new, w).error =
                       IF new.error # cache.error THEN new.error ELSE browser.error
<1> DEFINE list == IF w THEN new.list ELSE browser.list
           loading == IF new.loading # cache.loading THEN new.loading ELSE browser.loading
           error == IF new.error # cache.error THEN new.error ELSE browser.error
<1>1. CASE browser.shown
  <2>1. list \in Lists /\ loading \in BOOLEAN /\ error \in BOOLEAN
    BY DEF BrowserType, CacheType
  <2>2. Follow(new, w) =
            [browser EXCEPT !.list = list, !.loading = loading, !.error = error]
    BY <1>1 DEF Follow
  <2> HIDE DEF list, loading, error
  <2>3. /\ Follow(new, w).list = list /\ Follow(new, w).loading = loading
        /\ Follow(new, w).error = error
        /\ Follow(new, w).shown = browser.shown /\ Follow(new, w).picked = browser.picked
        /\ Follow(new, w).selected = browser.selected
    BY <2>2 DEF BrowserType
  <2>4. Follow(new, w) \in BrowserType
    BY <2>1, <2>2 DEF BrowserType
  <2> QED
    BY <1>1, <2>3, <2>4 DEF list, loading, error
<1>2. CASE ~browser.shown
  BY <1>2 DEF Follow, BrowserType, CacheType
<1> QED
  BY <1>1, <1>2 DEF BrowserType

-----------------------------------------------------------------------------
(* The shape of the state *)

\* The number of the next request.
LEMMA NextNumber ==
    ASSUME TypeOK, issued < MaxRequests
    PROVE  issued + 1 \in Numbers /\ issued + 1 \in 0 .. MaxRequests
BY SessionAssumption DEF TypeOK, Numbers

LEMMA AskType ==
    ASSUME NEW n \in Numbers, NEW s \in {"projects", "list"}, NEW q \in Paths
    PROVE  /\ Ask(n, s, q) \in [at : Numbers, stage : {"projects", "list"}, project : Paths]
           /\ Ask(n, s, q).at = n /\ Ask(n, s, q).project = q /\ Ask(n, s, q).stage = s
BY DEF Ask

\* What a TypeOK state has, in the words of this module.
LEMMA Shape ==
    ASSUME TypeOK
    PROVE  /\ cache \in CacheType /\ browser \in BrowserType
           /\ browser.selected \in Paths /\ cache.list \in Lists
           /\ cache.loading \in BOOLEAN /\ cache.error \in BOOLEAN
           /\ ~browser.shown => asks = {} /\ asker = 0 /\ browser = NoBrowser
           /\ \A a \in asks : a.at \in Numbers /\ a.project \in Paths
BY DEF TypeOK, CacheType, BrowserType

\* LoadOnce leaves a cache and keeps its load.
LEMMA LoadOnceType ==
    ASSUME TypeOK, LoadOnce
    PROVE  /\ cache' \in CacheType /\ loads' \subseteq Numbers
           /\ issued' \in 0 .. MaxRequests /\ current' \in loads' \union {0}
<1>1. CASE cache.loaded \/ current # 0
  BY <1>1 DEF LoadOnce, cacheVars, TypeOK, CacheType
<1>2. CASE ~(cache.loaded \/ current # 0)
  <2>1. issued' = issued + 1 /\ issued' \in Numbers /\ issued' \in 0 .. MaxRequests
    BY <1>2, NextNumber DEF LoadOnce
  <2>2. cache' \in CacheType
    BY <1>2, Shape DEF LoadOnce, CacheType
  <2> QED
    BY <1>2, <2>1, <2>2 DEF LoadOnce, TypeOK
<1> QED
  BY <1>1, <1>2

(* The shape of the state holds in every state: a generation is held by a
   request in flight, whatever was superseded meanwhile. *)
THEOREM TypeCorrect == Spec => []TypeOK
<1>1. Init => TypeOK
  BY EmptyCacheType, NoBrowserShape, SessionAssumption
  DEF Init, TypeOK, CacheType, BrowserType
<1>2. TypeOK /\ [Next]_vars => TypeOK'
  <2> SUFFICES ASSUME TypeOK, [Next]_vars
               PROVE  TypeOK'
    OBVIOUS
  <2> USE Shape
  <2>1. ASSUME OpenTab PROVE TypeOK'
    <3>1. cache' \in CacheType /\ loads' \subseteq Numbers
          /\ issued' \in 0 .. MaxRequests /\ current' \in loads' \union {0}
      BY <2>1, LoadOnceType DEF OpenTab
    <3>2. browser' \in BrowserType /\ browser'.shown = TRUE
      BY <2>1, <3>1, BrowserShape DEF OpenTab, CacheType
    <3> QED
      BY <2>1, <3>1, <3>2 DEF OpenTab, TypeOK, CacheType, BrowserType
  <2>2. ASSUME CloseTab PROVE TypeOK'
    BY <2>2, NoBrowserShape DEF CloseTab, cacheVars, TypeOK, BrowserType
  <2>3. ASSUME NEW s \in {"projects", "list"}, NEW q \in Paths, Send(s, q) PROVE TypeOK'
    <3>1. browser' \in BrowserType /\ browser'.shown = TRUE
      BY <2>3 DEF Send, BrowserType
    <3>2. /\ asks' \subseteq [at : Numbers, stage : {"projects", "list"}, project : Paths]
          /\ asker' \in {a.at : a \in asks'}
      BY <2>3, NextNumber, AskType DEF Send, TypeOK
    <3> QED
      BY <2>3, <3>1, <3>2, NextNumber DEF Send, cacheVars, TypeOK, BrowserType
  <2>4. ASSUME Reload \/ \E q \in Paths : SelectProject(q) PROVE TypeOK'
    BY <2>3, <2>4 DEF Reload, SelectProject
  <2>5. ASSUME NEW n \in loads, LoadAnswered(n) \/ LoadFails(n) PROVE TypeOK'
    <3>1. List(All, n) \in Lists
      BY ListType DEF TypeOK, Paths
    <3>2. cache' \in CacheType
      BY <2>5, <3>1 DEF LoadAnswered, LoadFails, CacheType
    <3>3. /\ browser' \in BrowserType /\ browser'.shown = browser.shown
          /\ ~browser.shown => browser' = browser
      <4>1. CASE n # current
        BY <2>5, <4>1 DEF LoadAnswered, LoadFails
      <4>2. CASE browser' = Follow(cache', TRUE)
        BY <3>2, <4>2, FollowShape
      <4>3. CASE browser' = Follow(cache', FALSE)
        BY <3>2, <4>3, FollowShape
      <4> QED
        BY <2>5, <4>1, <4>2, <4>3 DEF LoadAnswered, LoadFails
    <3>4. loads' \subseteq Numbers /\ current' \in loads' \union {0}
      BY <2>5 DEF LoadAnswered, LoadFails, LoadEnds, TypeOK
    <3> QED
      BY <2>5, <3>2, <3>3, <3>4 DEF LoadAnswered, LoadFails, TypeOK, CacheType, BrowserType
  <2>6. ASSUME NEW a \in asks, ProjectsAnswered(a) PROVE TypeOK'
    <3>1. /\ asks' \subseteq [at : Numbers, stage : {"projects", "list"}, project : Paths]
          /\ asker \in {b.at : b \in asks'} \union {0}
      BY <2>6, AskType DEF ProjectsAnswered, Held, TypeOK
    <3>2. browser.shown
      BY <2>6
    <3> QED
      BY <2>6, <3>1, <3>2 DEF ProjectsAnswered, cacheVars, TypeOK
  <2>7. ASSUME NEW a \in asks, ListAnswered(a) PROVE TypeOK'
    <3>1. browser.shown
      BY <2>7
    <3>2. CASE Held(a)
      <4>1. List(a.project, a.at) \in Lists
        BY ListType
      <4>2. cache' \in CacheType
        BY <2>7, <3>2, <4>1, EmptyCacheType DEF ListAnswered, Refreshed, CacheType
      <4>3. browser' \in BrowserType /\ browser'.shown = TRUE
        BY <2>7, <3>1, <3>2, <4>2 DEF ListAnswered, BrowserType, CacheType
      <4> QED
        BY <2>7, <3>2, <4>2, <4>3
        DEF ListAnswered, BumpGeneration, TypeOK, CacheType, BrowserType
    <3>3. CASE ~Held(a)
      BY <2>7, <3>1, <3>3 DEF ListAnswered, Held, TypeOK
    <3> QED
      BY <3>2, <3>3
  <2>8. ASSUME NEW a \in asks, AskFails(a) PROVE TypeOK'
    <3>1. browser.shown
      BY <2>8
    <3>2. browser' \in BrowserType /\ browser'.shown = TRUE
      BY <2>8, <3>1 DEF AskFails, BrowserType
    <3>3. asks' \subseteq asks /\ asker' \in {b.at : b \in asks'} \union {0}
      BY <2>8 DEF AskFails, Held, TypeOK
    <3> QED
      BY <2>8, <3>2, <3>3 DEF AskFails, cacheVars, TypeOK, BrowserType
  <2>9. ASSUME Answers PROVE TypeOK'
    BY <2>5, <2>6, <2>7, <2>8, <2>9 DEF Answers
  <2>10. ASSUME Logout PROVE TypeOK'
    <3>1. /\ browser' \in BrowserType /\ browser'.shown = browser.shown
          /\ ~browser.shown => browser' = browser
      BY <2>10, EmptyCacheType, FollowShape DEF Logout
    <3> QED
      BY <2>10, <3>1, EmptyCacheType
      DEF Logout, Invalidate, BumpGeneration, TypeOK, CacheType, BrowserType
  <2>11. ASSUME Leave PROVE TypeOK'
    BY <2>11, EmptyCacheType, NoBrowserShape
    DEF Leave, Invalidate, BumpGeneration, TypeOK, CacheType, BrowserType
  <2>12. ASSUME Return PROVE TypeOK'
    BY <2>12 DEF Return, cacheVars, browserVars, TypeOK
  <2>13. CASE UNCHANGED vars
    BY <2>13 DEF vars, cacheVars, browserVars, TypeOK
  <2> QED
    BY <2>1, <2>2, <2>4, <2>9, <2>10, <2>11, <2>12, <2>13 DEF Next
<1> QED
  BY <1>1, <1>2, PTL DEF Spec

-----------------------------------------------------------------------------
(* The inductive invariant *)

\* Requests in flight were sent.
InFlightWasSent ==
    /\ loads \subseteq 1 .. issued
    /\ \A a \in asks : a.at \in 1 .. issued

\* The spinner of the cache turns exactly while a load holds its generation.
LoadingIsHeld == cache.loading <=> current # 0

\* The load of the cache is older than what the browser asked for.
LoadBeforeAsk == current # 0 /\ asker # 0 => current < asker

\* The request the browser waits for is about the project selected.
AskFits == \A a \in asks : a.at = asker => a.project = browser.selected

\* Once it was answered the list fits, or an error stands beside it.
PickedFits ==
    browser.picked /\ asker = 0 =>
        \/ browser.error
        \/ /\ current = 0
           /\ browser.list = NoList \/ browser.list.project = browser.selected

IInv ==
    /\ InFlightWasSent /\ LoadingIsHeld /\ SpinnerHasRequest
    /\ LoadBeforeAsk /\ AskFits /\ PickedFits

LEMMA InitInvariant == Init => IInv
BY EmptyCacheType, NoBrowserShape, ListNumber
DEF Init, IInv, InFlightWasSent, LoadingIsHeld, SpinnerHasRequest, LoadBeforeAsk, AskFits,
    PickedFits

\* A load that is sent is the newest request.
LEMMA LoadOnceInvariant ==
    ASSUME TypeOK, TypeOK', IInv, LoadOnce, UNCHANGED <<asks, asker>>, asker = 0
    PROVE  InFlightWasSent' /\ LoadingIsHeld' /\ LoadBeforeAsk'
<1>1. CASE cache.loaded \/ current # 0
  BY <1>1 DEF LoadOnce, cacheVars, IInv, InFlightWasSent, LoadingIsHeld, LoadBeforeAsk
<1>2. CASE ~(cache.loaded \/ current # 0)
  <2>1. issued' = issued + 1 /\ issued \in Nat /\ issued' # 0
    BY <1>2, SessionAssumption DEF LoadOnce, TypeOK
  <2>2. InFlightWasSent'
    BY <1>2, <2>1 DEF LoadOnce, IInv, InFlightWasSent
  <2>3. LoadingIsHeld'
    BY <1>2, <2>1, Shape DEF LoadOnce, LoadingIsHeld, CacheType
  <2> QED
    BY <2>2, <2>3 DEF LoadBeforeAsk
<1> QED
  BY <1>1, <1>2

LEMMA NextInvariant ==
    ASSUME TypeOK, TypeOK', IInv, [Next]_vars
    PROVE  IInv'
<1> USE Shape
<1>1. ASSUME OpenTab PROVE IInv'
  <2>1. asks = {} /\ asker = 0 /\ asks' = {} /\ asker' = 0
    BY <1>1 DEF OpenTab
  <2>2. InFlightWasSent' /\ LoadingIsHeld' /\ LoadBeforeAsk'
    BY <1>1, <2>1, LoadOnceInvariant DEF OpenTab
  <2>3. browser'.loading = cache'.loading /\ browser'.picked = FALSE
    BY <1>1, BrowserShape DEF OpenTab, TypeOK
  <2> QED
    BY <2>1, <2>2, <2>3 DEF IInv, LoadingIsHeld, SpinnerHasRequest, AskFits, PickedFits
<1>2. ASSUME CloseTab PROVE IInv'
  BY <1>2, NoBrowserShape
  DEF CloseTab, cacheVars, IInv, InFlightWasSent, LoadingIsHeld, SpinnerHasRequest,
      LoadBeforeAsk, AskFits, PickedFits
<1>3. ASSUME NEW s \in {"projects", "list"}, NEW q \in Paths, Send(s, q) PROVE IInv'
  <2>1. /\ issued' = issued + 1 /\ asker' = issued' /\ issued \in Nat
        /\ Ask(issued', s, q).at = issued' /\ Ask(issued', s, q).project = q
        /\ asks' = asks \union {Ask(issued', s, q)}
        /\ UNCHANGED <<cache, loads, current>>
    BY <1>3, NextNumber, AskType, SessionAssumption DEF Send, cacheVars, TypeOK
  <2>2. browser'.selected = q
    BY <1>3 DEF Send, BrowserType
  <2>3. InFlightWasSent'
    BY <2>1 DEF IInv, InFlightWasSent
  <2>4. LoadBeforeAsk'
    BY <2>1 DEF IInv, InFlightWasSent, LoadBeforeAsk, TypeOK
  <2>5. AskFits'
    BY <2>1, <2>2 DEF IInv, InFlightWasSent, AskFits
  <2>6. asker' # 0
    BY <2>1
  <2> QED
    BY <2>1, <2>3, <2>4, <2>5, <2>6
    DEF IInv, LoadingIsHeld, SpinnerHasRequest, PickedFits
<1>4. ASSUME Reload \/ \E q \in Paths : SelectProject(q) PROVE IInv'
  BY <1>3, <1>4 DEF Reload, SelectProject
<1>5. ASSUME NEW n \in loads, LoadAnswered(n) \/ LoadFails(n) PROVE IInv'
  <2>1. loads' \subseteq loads /\ UNCHANGED <<asks, asker, issued>>
    BY <1>5 DEF LoadAnswered, LoadFails
  <2>2. CASE n # current
    <3>1. UNCHANGED <<cache, browser, current>>
      BY <1>5, <2>2 DEF LoadAnswered, LoadFails, LoadEnds
    <3> QED
      BY <2>1, <3>1
      DEF IInv, InFlightWasSent, LoadingIsHeld, SpinnerHasRequest, LoadBeforeAsk, AskFits,
          PickedFits
  <2>3. CASE n = current
    <3>1. cache.loading = TRUE /\ current # 0
      BY <2>3 DEF IInv, LoadingIsHeld, TypeOK, Numbers
    <3>2. current' = 0
      BY <1>5, <2>3 DEF LoadAnswered, LoadFails, LoadEnds
    <3>3. CASE LoadAnswered(n)
      <4>1. /\ cache'.loading = FALSE /\ cache'.error = cache.error
            /\ browser' = Follow(cache', TRUE)
        BY <2>3, <3>3 DEF LoadAnswered, CacheType
      <4>2. /\ browser'.selected = browser.selected /\ browser'.picked = browser.picked
            /\ browser.shown => browser'.loading = FALSE /\ browser'.error = browser.error
            /\ ~browser.shown => browser' = browser
        BY <3>1, <4>1, FollowShape DEF TypeOK, CacheType
      <4> QED
        BY <2>1, <3>1, <3>2, <4>1, <4>2, NoBrowserShape
        DEF IInv, InFlightWasSent, LoadingIsHeld, SpinnerHasRequest, LoadBeforeAsk, AskFits,
            PickedFits
    <3>4. CASE LoadFails(n)
      <4>1. /\ cache'.loading = FALSE /\ cache'.error = TRUE
            /\ browser' = Follow(cache', FALSE)
        BY <2>3, <3>4 DEF LoadFails, CacheType
      <4>2. /\ browser'.selected = browser.selected /\ browser'.picked = browser.picked
            /\ browser.shown =>
                  browser'.loading = FALSE /\ browser'.error \in {browser.error, TRUE}
            /\ ~browser.shown => browser' = browser
        BY <3>1, <4>1, FollowShape DEF TypeOK, CacheType
      <4> QED
        BY <2>1, <3>1, <3>2, <4>1, <4>2, NoBrowserShape
        DEF IInv, InFlightWasSent, LoadingIsHeld, SpinnerHasRequest, LoadBeforeAsk, AskFits,
            PickedFits
    <3> QED
      BY <1>5, <3>3, <3>4
  <2> QED
    BY <2>2, <2>3
<1>6. ASSUME NEW a \in asks, ProjectsAnswered(a) PROVE IInv'
  <2>1. \A b \in asks' : b \in asks \/ (b.at = a.at /\ b.project = browser.selected)
    <3>1. /\ Ask(a.at, "list", browser.selected).at = a.at
          /\ Ask(a.at, "list", browser.selected).project = browser.selected
      BY DEF Ask
    <3> QED
      BY <1>6, <3>1 DEF ProjectsAnswered
  <2>2. UNCHANGED <<cache, loads, current, browser, asker, issued>>
    BY <1>6 DEF ProjectsAnswered, cacheVars
  <2> QED
    BY <2>1, <2>2
    DEF IInv, InFlightWasSent, LoadingIsHeld, SpinnerHasRequest, LoadBeforeAsk, AskFits,
        PickedFits
<1>7. ASSUME NEW a \in asks, ListAnswered(a) PROVE IInv'
  <2>1. CASE Held(a)
    <3>1. List(a.project, a.at).project = a.project /\ a.project = browser.selected
      BY <2>1, ListType DEF Held, IInv, AskFits
    <3>2. /\ cache'.list = List(a.project, a.at) /\ cache'.loading = FALSE
          /\ current' = 0 /\ asker' = 0 /\ loads' = loads /\ issued' = issued
          /\ asks' \subseteq asks
      BY <1>7, <2>1, EmptyCacheType DEF ListAnswered, Refreshed, BumpGeneration, CacheType
    <3>3. /\ browser'.list = cache'.list /\ browser'.loading = FALSE
          /\ browser'.selected = browser.selected
      BY <1>7, <2>1 DEF ListAnswered, BrowserType
    <3>4. AskFits'
      BY <3>2 DEF IInv, InFlightWasSent, AskFits
    <3> QED
      BY <3>1, <3>2, <3>3, <3>4
      DEF IInv, InFlightWasSent, LoadingIsHeld, SpinnerHasRequest, LoadBeforeAsk, PickedFits
  <2>2. CASE ~Held(a)
    BY <1>7, <2>2
    DEF ListAnswered, IInv, InFlightWasSent, LoadingIsHeld, SpinnerHasRequest,
        LoadBeforeAsk, AskFits, PickedFits
  <2> QED
    BY <2>1, <2>2
<1>8. ASSUME NEW a \in asks, AskFails(a) PROVE IInv'
  <2>1. asks' \subseteq asks /\ UNCHANGED <<cache, loads, current, issued>>
    BY <1>8 DEF AskFails, cacheVars
  <2>2. CASE Held(a)
    <3>1. /\ asker' = 0 /\ browser'.error = TRUE /\ browser'.loading = FALSE
          /\ browser'.selected = browser.selected
      BY <1>8, <2>2 DEF AskFails, BrowserType
    <3>2. AskFits'
      BY <2>1, <3>1 DEF IInv, InFlightWasSent, AskFits
    <3> QED
      BY <2>1, <3>1, <3>2
      DEF IInv, InFlightWasSent, LoadingIsHeld, SpinnerHasRequest, LoadBeforeAsk, PickedFits
  <2>3. CASE ~Held(a)
    BY <1>8, <2>1, <2>3
    DEF AskFails, IInv, InFlightWasSent, LoadingIsHeld, SpinnerHasRequest, LoadBeforeAsk,
        AskFits, PickedFits
  <2> QED
    BY <2>2, <2>3
<1>9. ASSUME Answers PROVE IInv'
  BY <1>5, <1>6, <1>7, <1>8, <1>9 DEF Answers
<1>10. ASSUME Logout PROVE IInv'
  <2>1. /\ cache'.loading = FALSE /\ current' = 0 /\ browser' = Follow(EmptyCache, TRUE)
        /\ UNCHANGED <<loads, asks, asker, issued>>
    BY <1>10, EmptyCacheType DEF Logout, Invalidate, BumpGeneration
  <2>2. /\ browser'.selected = browser.selected /\ browser'.picked = browser.picked
        /\ browser.shown =>
              /\ browser'.list = NoList
              /\ browser'.loading = IF cache.loading THEN FALSE ELSE browser.loading
        /\ ~browser.shown => browser' = browser
    <3>1. TRUE \in BOOLEAN /\ EmptyCache \in CacheType /\ EmptyCache.list = NoList
          /\ EmptyCache.loading = FALSE
      BY EmptyCacheType
    <3>2. CASE browser.shown
      <4>1. /\ browser'.selected = browser.selected /\ browser'.picked = browser.picked
            /\ browser'.list = NoList
            /\ browser'.loading =
                   IF EmptyCache.loading # cache.loading THEN EmptyCache.loading ELSE browser.loading
        BY <2>1, <3>1, <3>2, FollowShape
      <4>2. CASE cache.loading = TRUE
        BY <3>1, <3>2, <4>1, <4>2
      <4>3. CASE cache.loading = FALSE
        BY <3>1, <3>2, <4>1, <4>3
      <4> QED
        BY <4>2, <4>3
    <3>3. CASE ~browser.shown
      BY <2>1, <3>1, <3>3, FollowShape
    <3> QED
      BY <3>2, <3>3
  <2> QED
    BY <2>1, <2>2, NoBrowserShape
    DEF IInv, InFlightWasSent, LoadingIsHeld, SpinnerHasRequest, LoadBeforeAsk, AskFits,
        PickedFits
<1>11. ASSUME Leave PROVE IInv'
  BY <1>11, EmptyCacheType, NoBrowserShape
  DEF Leave, Invalidate, BumpGeneration, IInv, InFlightWasSent, LoadingIsHeld,
      SpinnerHasRequest, LoadBeforeAsk, AskFits, PickedFits
<1>12. ASSUME Return PROVE IInv'
  BY <1>12
  DEF Return, cacheVars, browserVars, IInv, InFlightWasSent, LoadingIsHeld,
      SpinnerHasRequest, LoadBeforeAsk, AskFits, PickedFits
<1>13. CASE UNCHANGED vars
  BY <1>13
  DEF vars, cacheVars, browserVars, IInv, InFlightWasSent, LoadingIsHeld,
      SpinnerHasRequest, LoadBeforeAsk, AskFits, PickedFits
<1> QED
  BY <1>1, <1>2, <1>4, <1>9, <1>10, <1>11, <1>12, <1>13 DEF Next

LEMMA Invariant == Spec => [](TypeOK /\ IInv)
<1>1. TypeOK /\ TypeOK' /\ IInv /\ [Next]_vars => IInv'
  BY NextInvariant
<1> QED
  BY <1>1, InitInvariant, TypeCorrect, PTL DEF Spec

(* A spinner, of the browser or of the cache, turns only while a request
   that will stop it holds its generation. *)
THEOREM SpinnersHaveRequests == Spec => []SpinnerHasRequest
<1>1. IInv => SpinnerHasRequest
  BY DEF IInv
<1> QED
  BY <1>1, Invariant, PTL

\* A browser in which nothing was chosen shows what the cache keeps.
SeedStays ==
    browser.shown /\ ~browser.picked => browser.selected = All /\ browser.list = cache.list

LEMMA SeedInvariant == TypeOK /\ TypeOK' /\ SeedStays /\ [Next]_vars => SeedStays'
<1> SUFFICES ASSUME TypeOK, TypeOK', SeedStays, [Next]_vars PROVE SeedStays'
  OBVIOUS
<1> USE Shape
<1>1. CASE OpenTab
  <2>1. /\ cache' \in CacheType
        /\ browser' = Browser(cache'.list, cache'.loading, cache'.error)
    BY <1>1 DEF OpenTab, TypeOK, CacheType
  <2> QED
    BY <2>1 DEF SeedStays, Browser, CacheType
<1>2. CASE CloseTab \/ Leave
  BY <1>2, NoBrowserShape DEF CloseTab, Leave, SeedStays
<1>3. CASE Reload \/ \E q \in Paths : SelectProject(q)
  BY <1>3 DEF Reload, SelectProject, Send, SeedStays, BrowserType
<1>4. ASSUME NEW new \in CacheType, cache' = new, NEW w \in BOOLEAN,
             w \/ new.list = cache.list, browser' = Follow(new, w)
      PROVE  SeedStays'
  BY <1>4, FollowShape DEF SeedStays
<1>5. CASE \E n \in loads : LoadAnswered(n) \/ LoadFails(n)
  <2>1. PICK n \in loads : LoadAnswered(n) \/ LoadFails(n)
    BY <1>5
  <2>2. CASE n # current
    BY <2>1, <2>2 DEF LoadAnswered, LoadFails, SeedStays
  <2>3. CASE n = current /\ LoadAnswered(n)
    <3>1. browser' = Follow(cache', TRUE) /\ cache' \in CacheType
      BY <2>3 DEF LoadAnswered, TypeOK, CacheType
    <3> QED
      BY <1>4, <3>1
  <2>4. CASE n = current /\ LoadFails(n)
    <3>1. browser' = Follow(cache', FALSE) /\ cache' \in CacheType /\ cache'.list = cache.list
      BY <2>4 DEF LoadFails, TypeOK, CacheType
    <3> QED
      BY <1>4, <3>1
  <2> QED
    BY <2>1, <2>2, <2>3, <2>4
<1>6. CASE \E a \in asks : ListAnswered(a)
  <2>1. PICK a \in asks : ListAnswered(a)
    BY <1>6
  <2> QED
    BY <2>1 DEF ListAnswered, SeedStays, BrowserType
<1>7. CASE \E a \in asks : ProjectsAnswered(a) \/ AskFails(a)
  <2>1. /\ cache' = cache /\ browser'.list = browser.list /\ browser'.picked = browser.picked
        /\ browser'.selected = browser.selected /\ browser'.shown = browser.shown
    BY <1>7 DEF ProjectsAnswered, AskFails, cacheVars, BrowserType
  <2> QED
    BY <2>1 DEF SeedStays
<1>8. CASE Logout
  <2>1. cache' = EmptyCache /\ browser' = Follow(EmptyCache, TRUE) /\ EmptyCache \in CacheType
    BY <1>8, EmptyCacheType DEF Logout, Invalidate
  <2> QED
    BY <1>4, <2>1
<1>9. CASE Return \/ UNCHANGED vars
  BY <1>9 DEF Return, vars, cacheVars, browserVars, SeedStays
<1> QED
  BY <1>1, <1>2, <1>3, <1>5, <1>6, <1>7, <1>8, <1>9 DEF Next, Answers

(* Once nothing is in flight and no error is shown, the list beside the
   selector is that of the project chosen; where none was chosen since the
   tab was opened, it is the list the cache keeps. *)
THEOREM ShownListsFit == Spec => []ShownListFits
<1>1. Init => SeedStays
  BY NoBrowserShape DEF Init, SeedStays
<1>2. Spec => []SeedStays
  BY <1>1, SeedInvariant, TypeCorrect, PTL DEF Spec
<1>3. IInv /\ SeedStays => ShownListFits
  BY DEF IInv, PickedFits, SeedStays, ShownListFits
<1> QED
  BY <1>2, <1>3, Invariant, PTL

-----------------------------------------------------------------------------
(* The cache is a latest-wins register *)

Open == {current, asker} \ {0}

\* The steps of the abstract register, in the words of the cache.
LEMMA CacheSteps ==
    /\ Cache!Send <=>
           /\ issued' = issued + 1 /\ Open' \in SUBSET (Open \union {issued'})
           /\ cache'.list.at = cache.list.at
    /\ \A r : Cache!Take(r) <=>
           /\ cache'.list.at = r /\ Open' \in SUBSET {s \in Open : r < s}
           /\ issued' = issued
    /\ Cache!GiveUp <=>
           /\ Open' \in SUBSET Open /\ issued' = issued /\ cache'.list.at = cache.list.at
    /\ Cache!Forget <=>
           /\ cache'.list.at = 0 /\ Open' \in SUBSET Open /\ issued' = issued
    /\ Cache!LatestNext <=>
           Cache!Send \/ (\E r \in Open : Cache!Take(r)) \/ Cache!GiveUp \/ Cache!Forget
BY DEF Cache!Send, Cache!Take, Cache!GiveUp, Cache!Forget, Cache!LatestNext, Open

LEMMA StepsRefine ==
    ASSUME TypeOK, IInv, [Next]_vars
    PROVE  [Cache!LatestNext]_<<issued, Open, cache.list.at>>
<1> SUFFICES \/ Cache!LatestNext
             \/ UNCHANGED <<issued, current, asker>> /\ cache'.list.at = cache.list.at
  BY DEF Open
<1> USE Shape
<1>1. ASSUME OpenTab PROVE Cache!GiveUp \/ Cache!Send
  <2>1. CASE cache.loaded \/ current # 0
    BY <1>1, <2>1, CacheSteps DEF OpenTab, LoadOnce, cacheVars, Open
  <2>2. CASE ~(cache.loaded \/ current # 0)
    <3>1. issued' = issued + 1 /\ current' = issued' /\ UNCHANGED asker
      BY <1>1, <2>2 DEF OpenTab, LoadOnce
    <3>2. cache'.list = cache.list
      BY <1>1, <2>2 DEF OpenTab, LoadOnce, CacheType
    <3> QED
      BY <3>1, <3>2, CacheSteps DEF Open
  <2> QED
    BY <2>1, <2>2
<1>2. ASSUME CloseTab PROVE Cache!GiveUp
  BY <1>2, CacheSteps DEF CloseTab, cacheVars, Open
<1>3. ASSUME NEW s \in {"projects", "list"}, NEW q \in Paths, Send(s, q) PROVE Cache!Send
  BY <1>3, CacheSteps DEF Send, cacheVars, Open
<1>4. ASSUME Reload \/ \E q \in Paths : SelectProject(q) PROVE Cache!Send
  BY <1>3, <1>4 DEF Reload, SelectProject
<1>5. ASSUME NEW n \in loads, LoadAnswered(n) \/ LoadFails(n)
      PROVE  \/ Cache!LatestNext
             \/ UNCHANGED <<issued, current, asker>> /\ cache'.list.at = cache.list.at
  <2>1. CASE n # current
    BY <1>5, <2>1 DEF LoadAnswered, LoadFails, LoadEnds
  <2>2. CASE n = current
    <3>1. n \in Open /\ current' = 0 /\ UNCHANGED <<asker, issued>>
      <4>1. n # 0
        BY DEF TypeOK, Numbers
      <4> QED
        BY <1>5, <2>2, <4>1 DEF LoadAnswered, LoadFails, LoadEnds, Open
    <3>2. Open' \subseteq {s \in Open : n < s}
      BY <2>2, <3>1 DEF Open, IInv, LoadBeforeAsk
    <3>3. CASE LoadAnswered(n)
      <4>1. cache'.list = List(All, n) /\ List(All, n).at = n
        BY <2>2, <3>3 DEF LoadAnswered, CacheType, List
      <4>2. Cache!Take(n)
        BY <3>1, <3>2, <4>1, CacheSteps
      <4> QED
        BY <3>1, <4>2, CacheSteps
    <3>4. CASE LoadFails(n)
      <4>1. cache'.list = cache.list
        BY <2>2, <3>4 DEF LoadFails, CacheType
      <4> QED
        BY <3>1, <3>2, <4>1, CacheSteps
    <3> QED
      BY <1>5, <3>3, <3>4
  <2> QED
    BY <2>1, <2>2
<1>6. ASSUME NEW a \in asks, ListAnswered(a), Held(a) PROVE \E r \in Open : Cache!Take(r)
  <2>1. a.at \in Open
    BY <1>6 DEF Held, Open, Numbers
  <2>2. cache'.list = List(a.project, a.at) /\ List(a.project, a.at).at = a.at
    BY <1>6, EmptyCacheType DEF ListAnswered, Refreshed, CacheType, List
  <2>3. Open' = {} /\ issued' = issued
    BY <1>6 DEF ListAnswered, BumpGeneration, Open
  <2> QED
    BY <2>1, <2>2, <2>3, CacheSteps
<1>7. ASSUME NEW a \in asks, ProjectsAnswered(a) \/ AskFails(a)
      PROVE  Cache!GiveUp
  BY <1>7, CacheSteps DEF ProjectsAnswered, AskFails, cacheVars, Open
<1>8. ASSUME NEW a \in asks, ListAnswered(a), ~Held(a)
      PROVE  UNCHANGED <<issued, current, asker>> /\ cache'.list.at = cache.list.at
  BY <1>8 DEF ListAnswered
<1>9. ASSUME Answers
      PROVE  \/ Cache!LatestNext
             \/ UNCHANGED <<issued, current, asker>> /\ cache'.list.at = cache.list.at
  BY <1>5, <1>6, <1>7, <1>8, <1>9, CacheSteps DEF Answers
<1>10. ASSUME Logout \/ Leave PROVE Cache!Forget
  <2>1. cache' = EmptyCache /\ current' = 0 /\ issued' = issued /\ asker' \in {asker, 0}
    BY <1>10 DEF Logout, Leave, Invalidate, BumpGeneration
  <2> QED
    BY <2>1, EmptyCacheType, ListNumber, CacheSteps DEF Open
<1>11. ASSUME Return \/ UNCHANGED vars
       PROVE  UNCHANGED <<issued, current, asker>> /\ cache'.list.at = cache.list.at
  BY <1>11 DEF Return, vars, cacheVars, browserVars
<1> QED
  BY <1>1, <1>2, <1>4, <1>9, <1>10, <1>11, CacheSteps DEF Next

(* The cache takes each answer once and never goes back to an older one,
   whatever the tab, the browser and the user do meanwhile. *)
THEOREM CacheImplementsLatestWins == Spec => ImplementsLatestWins
<1>1. Init => Cache!LatestInit
  BY EmptyCacheType, ListNumber DEF Init, Cache!LatestInit
<1>2. TypeOK /\ IInv /\ [Next]_vars => [Cache!LatestNext]_(Cache!latestVars)
  BY StepsRefine DEF Cache!latestVars, Open
<1> QED
  BY <1>1, <1>2, Invariant, PTL DEF Spec, ImplementsLatestWins, Cache!LatestSpec
-----------------------------------------------------------------------------
(* The invariant *)

\* What the server stores as a token.
Stored == {Blank, Initial, Typed}

Creates == {"duplicate", "import", "save"}

\* A request that may still use new ids.
IsCreating(k) == k # Idle /\ k.kind \in Creates /\ k.stage = "sent"
Creating(fetches) == {c \in Calls : IsCreating(fetches[c])}

PerAct == 1 + Len(File)

\* The generated ids from here on are not in use.
Unused(order, n) == \A i \in n + 1 .. Len(Fresh) : Fresh[i] \notin ToSet(order)

ServerFits ==
    /\ IsList(store)
    /\ made \in 0 .. Len(Fresh)
    /\ tokens \in [Ids -> Stored]
    /\ Unused(store.order, made)

\* There are ids enough for what the users asked for.
IdsLast == made + PerAct * Cardinality(Creating(calls)) <= PerAct * acts

IsForm(f, n) ==
    /\ f \in [number : Nat, who : Ids \union {None}, token : Stored \union {Mask, Undefined},
              revealed : BOOLEAN]
    /\ f = NoForm \/ f.number \in 1 .. n

CardsFit ==
    /\ IsList(providers) /\ active \in Ids \union {None}
    /\ tab \in BOOLEAN /\ timer = [handle |-> tab, fires |-> tab]
    /\ drag \in 0 .. Cardinality(Ids)
    /\ preview \in BOOLEAN
    /\ acts \in 0 .. MaxActs /\ fails \in 0 .. MaxFails

FormFits ==
    /\ IsForm(form, acts)
    /\ closing \subseteq stored /\ stored \subseteq 1 .. acts

\* An argument and the answer, by the kind of the request; n acts were made,
\* and the forms in taken were saved.
KindFits(k, n, taken) ==
    \/ k.kind \in CardEdits /\ k.arg \in Ids
    \/ k.kind \in {"load", "reload"} /\ (k.stage # "sent" => IsList(k.reply))
    \/ /\ k.kind = "reorder"
       /\ k.arg.ids \in Seq(Ids) /\ IsInjective(k.arg.ids) /\ IsList(k.arg.original)
       /\ k.stage # "sent" => IsList(k.reply)
    \/ k.kind = "import" /\ k.arg.strategy \in {"skip", "overwrite", "duplicate"}
    \/ /\ k.kind = "save"
       /\ k.arg.number \in 1 .. n /\ k.arg.who \in Ids \union {None}
       /\ k.arg.token \in Stored /\ k.arg.valid \in BOOLEAN
       /\ k.stage = "done" => k.arg.number \in taken
    \/ /\ k.kind = "reveal"
       /\ k.arg.number \in Nat \ {0} /\ k.arg.who \in Ids
       /\ k.stage # "sent" => k.reply \in Stored \union {Undefined}

IsCall(k, n, taken) ==
    /\ k = [kind |-> k.kind, arg |-> k.arg, stage |-> k.stage, reply |-> k.reply]
    /\ k.stage \in {"sent", "done", "refused"}
    /\ KindFits(k, n, taken)

CallsFit ==
    /\ calls = [c \in Calls |-> calls[c]]
    /\ \A c \in Calls : calls[c] = Idle \/ IsCall(calls[c], acts, stored)

ListIInv == ServerFits /\ IdsLast /\ CardsFit /\ FormFits /\ CallsFit
-----------------------------------------------------------------------------
(* Sequences without repetition *)

LEMMA Least ==
    ASSUME NEW S \in SUBSET Nat, S # {}
    PROVE  /\ \E m \in S : \A n \in S : m <= n
           /\ Min(S) \in S
<1>1. IsWellFoundedOn(OpToRel(<, Nat), Nat)
  BY NatLessThanWellFounded
<1>2. PICK m \in S : \A n \in S : <<n, m>> \notin OpToRel(<, Nat)
  BY <1>1, WFMin
<1>3. ASSUME NEW n \in S PROVE m <= n
  <2>1. ~ (n < m)
    BY <1>2 DEF OpToRel
  <2> QED
    BY <2>1
<1>4. \E x \in S : \A n \in S : x <= n
  BY <1>3
<1> QED
  BY <1>4 DEF Min

LEMMA OfSeq ==
    ASSUME NEW S, NEW s \in Seq(S)
    PROVE  /\ Len(s) \in Nat /\ DOMAIN s = 1 .. Len(s)
           /\ \A i \in 1 .. Len(s) : s[i] \in S /\ s[i] \in ToSet(s)
           /\ ToSet(s) \subseteq S
           /\ s = <<>> <=> Len(s) = 0
           /\ s = <<>> <=> ToSet(s) = {}
<1>1. Len(s) \in Nat /\ DOMAIN s = 1 .. Len(s) /\ s \in [1 .. Len(s) -> S]
  BY LenProperties
<1>2. \A i \in 1 .. Len(s) : s[i] \in S /\ s[i] \in ToSet(s)
  BY <1>1 DEF ToSet
<1>3. ToSet(s) \subseteq S
  BY <1>1 DEF ToSet
<1>4. s # <<>> => Len(s) \in Nat \ {0}
  BY EmptySeq
<1>5. Len(<<>>) = 0
  BY EmptySeq
<1>6. s = <<>> <=> Len(s) = 0
  BY <1>4, <1>5
<1>7. Len(s) = 0 <=> ToSet(s) = {}
  BY <1>1, <1>2 DEF ToSet
<1> QED
  BY <1>1, <1>2, <1>3, <1>6, <1>7

LEMMA Joined ==
    ASSUME NEW S, NEW s \in Seq(S), NEW t \in Seq(S)
    PROVE  /\ s \o t \in Seq(S)
           /\ Len(s \o t) = Len(s) + Len(t)
           /\ ToSet(s \o t) = ToSet(s) \union ToSet(t)
           /\ IsInjective(s) /\ IsInjective(t) /\ ToSet(s) \intersect ToSet(t) = {} =>
                 IsInjective(s \o t)
<1>1. /\ s \o t \in Seq(S)
      /\ Len(s \o t) = Len(s) + Len(t)
      /\ \A i \in 1 .. Len(s) + Len(t) :
            (s \o t)[i] = IF i <= Len(s) THEN s[i] ELSE t[i - Len(s)]
  BY ConcatProperties
<1>2. /\ Len(s) \in Nat /\ DOMAIN s = 1 .. Len(s)
      /\ Len(t) \in Nat /\ DOMAIN t = 1 .. Len(t)
      /\ DOMAIN (s \o t) = 1 .. Len(s) + Len(t)
  BY <1>1, LenProperties
<1>3. \A i \in 1 .. Len(s) : (s \o t)[i] = s[i] /\ i \in 1 .. Len(s) + Len(t)
  BY <1>1, <1>2
<1>4. \A i \in 1 .. Len(t) : (s \o t)[Len(s) + i] = t[i]
                             /\ Len(s) + i \in 1 .. Len(s) + Len(t)
  BY <1>1, <1>2
<1>5. \A k \in 1 .. Len(s) + Len(t) :
          k \in 1 .. Len(s) \/ (k > Len(s) /\ k - Len(s) \in 1 .. Len(t)
                                /\ (s \o t)[k] = t[k - Len(s)])
  BY <1>1, <1>2
<1>6. ToSet(s \o t) \subseteq ToSet(s) \union ToSet(t)
  BY <1>2, <1>3, <1>5 DEF ToSet
<1>7. ToSet(s) \subseteq ToSet(s \o t) /\ ToSet(t) \subseteq ToSet(s \o t)
  BY <1>2, <1>3, <1>4 DEF ToSet
<1>8. ASSUME IsInjective(s), IsInjective(t), ToSet(s) \intersect ToSet(t) = {},
             NEW i \in 1 .. Len(s) + Len(t), NEW j \in 1 .. Len(s) + Len(t),
             (s \o t)[i] = (s \o t)[j]
      PROVE  i = j
  <2>1. \A k \in 1 .. Len(s), l \in 1 .. Len(t) : s[k] # t[l]
    BY <1>8, <1>2 DEF ToSet
  <2>2. CASE i \in 1 .. Len(s) /\ j \in 1 .. Len(s)
    BY <2>2, <1>2, <1>3, <1>8 DEF IsInjective
  <2>3. CASE i > Len(s) /\ j > Len(s)
    <3>1. /\ i - Len(s) \in 1 .. Len(t) /\ j - Len(s) \in 1 .. Len(t)
          /\ t[i - Len(s)] = t[j - Len(s)]
      BY <2>3, <1>5, <1>8, <1>2
    <3>2. i - Len(s) = j - Len(s)
      BY <3>1, <1>8, <1>2 DEF IsInjective
    <3> QED
      BY <3>2, <1>2
  <2> QED
    BY <2>1, <2>2, <2>3, <1>3, <1>5, <1>8, <1>2
<1> QED
  BY <1>1, <1>2, <1>6, <1>7, <1>8 DEF IsInjective

\* The members of two joined sequences are those of both.
LEMMA JoinedApart ==
    ASSUME NEW S, NEW u \in Seq(S), NEW v \in Seq(S), IsInjective(u), IsInjective(v),
           \A x \in ToSet(u) : x \notin ToSet(v)
    PROVE  /\ u \o v \in Seq(S) /\ IsInjective(u \o v)
           /\ ToSet(u \o v) = ToSet(u) \union ToSet(v)
           /\ Len(u \o v) = Len(u) + Len(v)
<1>1. ToSet(u) \intersect ToSet(v) = {}
  OBVIOUS
<1> QED
  BY <1>1, Joined

LEMMA OneMember ==
    ASSUME NEW S, NEW e \in S
    PROVE  <<e>> \in Seq(S) /\ IsInjective(<<e>>) /\ ToSet(<<e>>) = {e}
BY DEF IsInjective, ToSet

\* A part of a sequence without repetition.
LEMMA Slice ==
    ASSUME NEW S, NEW s \in Seq(S), IsInjective(s),
           NEW m \in 1 .. Len(s) + 1, NEW n \in 0 .. Len(s)
    PROVE  /\ SubSeq(s, m, n) \in Seq(S) /\ IsInjective(SubSeq(s, m, n))
           /\ ToSet(SubSeq(s, m, n)) = {s[k] : k \in m .. n}
           /\ Len(SubSeq(s, m, n)) = IF m <= n THEN n - m + 1 ELSE 0
<1> DEFINE t == SubSeq(s, m, n)
<1>1. Len(s) \in Nat /\ DOMAIN s = 1 .. Len(s) /\ \A i \in 1 .. Len(s) : s[i] \in S
  BY OfSeq
<1>2. m \in Int /\ n \in Int /\ \A i \in m .. n : s[i] \in S /\ i \in 1 .. Len(s)
  BY <1>1
<1>3. /\ t \in Seq(S) /\ Len(t) = IF m <= n THEN n - m + 1 ELSE 0
      /\ \A i \in 1 .. n - m + 1 : t[i] = s[m + i - 1]
  BY <1>2, SubSeqProperties
<1> HIDE DEF t
<1>4. DOMAIN t = 1 .. n - m + 1
  <2>1. DOMAIN t = 1 .. Len(t)
    BY <1>3, LenProperties
  <2> QED
    BY <2>1, <1>2, <1>3
<1>5. \A i \in 1 .. n - m + 1 : m + i - 1 \in m .. n /\ t[i] = s[m + i - 1]
  BY <1>2, <1>3
<1>6. \A k \in m .. n : k - m + 1 \in 1 .. n - m + 1 /\ t[k - m + 1] = s[k]
  <2> TAKE k \in m .. n
  <2>1. k - m + 1 \in 1 .. n - m + 1 /\ m + (k - m + 1) - 1 = k
    BY <1>2
  <2> QED
    BY <2>1, <1>5
<1>7. ToSet(t) = {s[k] : k \in m .. n}
  <2>1. \A x \in ToSet(t) : x \in {s[k] : k \in m .. n}
    BY <1>4, <1>5 DEF ToSet
  <2>2. \A k \in m .. n : s[k] \in ToSet(t)
    BY <1>4, <1>6 DEF ToSet
  <2> QED
    BY <2>1, <2>2
<1>8. IsInjective(t)
  <2> SUFFICES ASSUME NEW i \in 1 .. n - m + 1, NEW j \in 1 .. n - m + 1, t[i] = t[j]
               PROVE  i = j
    BY <1>4 DEF IsInjective
  <2>1. s[m + i - 1] = s[m + j - 1] /\ m + i - 1 \in DOMAIN s /\ m + j - 1 \in DOMAIN s
    BY <1>1, <1>2, <1>5
  <2>2. m + i - 1 = m + j - 1
    BY <2>1 DEF IsInjective
  <2> QED
    BY <2>2, <1>2
<1> QED
  BY <1>3, <1>7, <1>8 DEF t

LEMMA Removed ==
    ASSUME NEW S, NEW s \in Seq(S), IsInjective(s), NEW i \in 1 .. Len(s)
    PROVE  /\ RemoveAt(s, i) \in Seq(S) /\ IsInjective(RemoveAt(s, i))
           /\ ToSet(RemoveAt(s, i)) = ToSet(s) \ {s[i]}
           /\ Len(RemoveAt(s, i)) = Len(s) - 1
<1> DEFINE u == SubSeq(s, 1, i - 1)
           v == SubSeq(s, i + 1, Len(s))
<1>1. Len(s) \in Nat /\ DOMAIN s = 1 .. Len(s)
  BY OfSeq
<1>2. /\ 1 \in 1 .. Len(s) + 1 /\ i - 1 \in 0 .. Len(s)
      /\ i + 1 \in 1 .. Len(s) + 1 /\ Len(s) \in 0 .. Len(s)
  BY <1>1
<1>3. /\ u \in Seq(S) /\ IsInjective(u) /\ ToSet(u) = {s[k] : k \in 1 .. i - 1}
      /\ Len(u) = IF 1 <= i - 1 THEN (i - 1) - 1 + 1 ELSE 0
  BY <1>2, Slice
<1>4. /\ v \in Seq(S) /\ IsInjective(v) /\ ToSet(v) = {s[k] : k \in i + 1 .. Len(s)}
      /\ Len(v) = IF i + 1 <= Len(s) THEN Len(s) - (i + 1) + 1 ELSE 0
  BY <1>2, Slice
<1>5. RemoveAt(s, i) = u \o v
  BY DEF RemoveAt
<1> HIDE DEF u, v
<1>6. \A k \in 1 .. Len(s), l \in 1 .. Len(s) : s[k] = s[l] => k = l
  BY <1>1 DEF IsInjective
<1>7. \A x \in ToSet(u) : x \notin ToSet(v)
  <2> SUFFICES ASSUME NEW k \in 1 .. i - 1, NEW l \in i + 1 .. Len(s), s[k] = s[l]
               PROVE  FALSE
    BY <1>3, <1>4
  <2>1. k \in 1 .. Len(s) /\ l \in 1 .. Len(s) /\ k # l
    BY <1>1
  <2> QED
    BY <2>1, <1>6
<1>8. /\ u \o v \in Seq(S) /\ IsInjective(u \o v)
      /\ ToSet(u \o v) = ToSet(u) \union ToSet(v)
      /\ Len(u \o v) = Len(u) + Len(v)
  <2>1. u \in Seq(S) /\ IsInjective(u) /\ v \in Seq(S) /\ IsInjective(v)
    BY <1>3, <1>4
  <2> QED
    BY <2>1, <1>7, JoinedApart
<1>9. Len(u) + Len(v) = Len(s) - 1
  <2>1. Len(u) = i - 1
    BY <1>1, <1>3
  <2>2. Len(v) = Len(s) - i
    <3>1. Len(v) = IF i + 1 <= Len(s) THEN Len(s) - (i + 1) + 1 ELSE 0
      BY <1>4
    <3>2. Len(s) \in Nat
      BY <1>1
    <3> HIDE DEF v
    <3> QED
      BY <3>1, <3>2
  <2> QED
    BY <2>1, <2>2, <1>1
<1>10. ToSet(u) \union ToSet(v) = ToSet(s) \ {s[i]}
  <2>1. \A k \in 1 .. i - 1 : k \in 1 .. Len(s) /\ k # i
    BY <1>1
  <2>2. \A k \in i + 1 .. Len(s) : k \in 1 .. Len(s) /\ k # i
    BY <1>1
  <2>3. \A x \in ToSet(u) \union ToSet(v) : x \in ToSet(s) \ {s[i]}
    BY <1>1, <1>3, <1>4, <1>6, <2>1, <2>2 DEF ToSet
  <2>4. \A k \in 1 .. Len(s) : k # i => k \in 1 .. i - 1 \/ k \in i + 1 .. Len(s)
    BY <1>1
  <2>5. \A k \in 1 .. Len(s) : s[k] # s[i] => s[k] \in ToSet(u) \union ToSet(v)
    BY <1>3, <1>4, <2>4
  <2> QED
    BY <1>1, <2>3, <2>5 DEF ToSet
<1> QED
  BY <1>5, <1>8, <1>9, <1>10

LEMMA Inserted ==
    ASSUME NEW S, NEW s \in Seq(S), IsInjective(s), NEW i \in 1 .. Len(s) + 1,
           NEW e \in S, e \notin ToSet(s)
    PROVE  /\ InsertAt(s, i, e) \in Seq(S) /\ IsInjective(InsertAt(s, i, e))
           /\ ToSet(InsertAt(s, i, e)) = ToSet(s) \union {e}
<1> DEFINE u == SubSeq(s, 1, i - 1)
           v == SubSeq(s, i, Len(s))
           o == <<e>>
           w == u \o o
<1>1. Len(s) \in Nat /\ DOMAIN s = 1 .. Len(s)
  BY OfSeq
<1>2. 1 \in 1 .. Len(s) + 1 /\ i - 1 \in 0 .. Len(s) /\ Len(s) \in 0 .. Len(s)
  BY <1>1
<1>3. u \in Seq(S) /\ IsInjective(u) /\ ToSet(u) = {s[k] : k \in 1 .. i - 1}
  BY <1>2, Slice
<1>4. v \in Seq(S) /\ IsInjective(v) /\ ToSet(v) = {s[k] : k \in i .. Len(s)}
  BY <1>2, Slice
<1>5. InsertAt(s, i, e) = w \o v
  BY DEF InsertAt
<1> HIDE DEF u, v
<1>6. \A k \in 1 .. Len(s), l \in 1 .. Len(s) : s[k] = s[l] => k = l
  BY <1>1 DEF IsInjective
<1>7. /\ \A k \in 1 .. i - 1 : k \in 1 .. Len(s)
      /\ \A k \in i .. Len(s) : k \in 1 .. Len(s)
      /\ \A k \in 1 .. Len(s) : k \in 1 .. i - 1 \/ k \in i .. Len(s)
      /\ \A k \in 1 .. i - 1, l \in i .. Len(s) : k # l
  BY <1>1
<1>8. ToSet(s) = ToSet(u) \union ToSet(v)
  <2>1. \A x \in ToSet(u) \union ToSet(v) : x \in ToSet(s)
    BY <1>1, <1>3, <1>4, <1>7 DEF ToSet
  <2>2. \A k \in 1 .. Len(s) : s[k] \in ToSet(u) \union ToSet(v)
    BY <1>3, <1>4, <1>7
  <2> QED
    BY <1>1, <2>1, <2>2 DEF ToSet
<1>9. \A x \in ToSet(u) : x \notin ToSet(v)
  BY <1>3, <1>4, <1>6, <1>7
<1>10. o \in Seq(S) /\ IsInjective(o) /\ ToSet(o) = {e}
  BY OneMember
<1> HIDE DEF o
<1>11. w \in Seq(S) /\ IsInjective(w) /\ ToSet(w) = ToSet(u) \union {e}
  <2>1. \A x \in ToSet(u) : x \notin ToSet(o)
    BY <1>8, <1>10
  <2>2. u \in Seq(S) /\ IsInjective(u)
    BY <1>3
  <2>3. /\ u \o o \in Seq(S) /\ IsInjective(u \o o)
        /\ ToSet(u \o o) = ToSet(u) \union ToSet(o)
    BY <2>1, <2>2, <1>10, JoinedApart
  <2> QED
    BY <2>3, <1>10
<1> HIDE DEF w
<1>12. \A x \in ToSet(w) : x \notin ToSet(v)
  BY <1>8, <1>9, <1>11
<1>13. /\ w \o v \in Seq(S) /\ IsInjective(w \o v)
       /\ ToSet(w \o v) = ToSet(w) \union ToSet(v)
  <2>1. v \in Seq(S) /\ IsInjective(v) /\ w \in Seq(S) /\ IsInjective(w)
    BY <1>4, <1>11
  <2> QED
    BY <2>1, <1>12, JoinedApart
<1> QED
  BY <1>5, <1>8, <1>11, <1>13

\* A card that is moved is still there, once.
LEMMA MovedKeeps ==
    ASSUME NEW S, NEW s \in Seq(S), IsInjective(s),
           NEW i \in 1 .. Len(s), NEW j \in 1 .. Len(s)
    PROVE  /\ Moved(s, i, j) \in Seq(S) /\ IsInjective(Moved(s, i, j))
           /\ ToSet(Moved(s, i, j)) = ToSet(s)
<1> DEFINE r == RemoveAt(s, i)
<1>1. Len(s) \in Nat /\ s[i] \in S /\ s[i] \in ToSet(s)
  BY OfSeq
<1>2. /\ r \in Seq(S) /\ IsInjective(r)
      /\ ToSet(r) = ToSet(s) \ {s[i]} /\ Len(r) = Len(s) - 1
  BY Removed
<1>3. Moved(s, i, j) = InsertAt(r, j, s[i])
  BY DEF Moved
<1> HIDE DEF r
<1>4. j \in 1 .. Len(r) + 1 /\ s[i] \notin ToSet(r)
  BY <1>1, <1>2
<1>5. /\ InsertAt(r, j, s[i]) \in Seq(S) /\ IsInjective(InsertAt(r, j, s[i]))
      /\ ToSet(InsertAt(r, j, s[i])) = ToSet(r) \union {s[i]}
  BY <1>1, <1>2, <1>4, Inserted
<1> QED
  BY <1>1, <1>2, <1>3, <1>5

LEMMA Added ==
    ASSUME NEW S, NEW s \in Seq(S), IsInjective(s), NEW e \in S, e \notin ToSet(s)
    PROVE  /\ Append(s, e) \in Seq(S) /\ IsInjective(Append(s, e))
           /\ ToSet(Append(s, e)) = ToSet(s) \union {e}
           /\ Last(Append(s, e)) = e
<1> DEFINE o == <<e>>
<1>1. o \in Seq(S) /\ IsInjective(o) /\ ToSet(o) = {e}
  BY OneMember
<1>2. Append(s, e) = s \o o
  BY AppendIsConcat
<1>3. Last(Append(s, e)) = e
  BY AppendProperties DEF Last
<1> HIDE DEF o
<1>4. \A x \in ToSet(s) : x \notin ToSet(o)
  BY <1>1
<1>5. /\ s \o o \in Seq(S) /\ IsInjective(s \o o)
      /\ ToSet(s \o o) = ToSet(s) \union ToSet(o)
  BY <1>1, <1>4, JoinedApart
<1> QED
  BY <1>1, <1>2, <1>3, <1>5

\* A finite set of numbers is counted off by how many are not above each.
LEMMA CountedOff ==
    ASSUME NEW K \in SUBSET Nat, IsFiniteSet(K), NEW N, N = Cardinality(K)
    PROVE  /\ N \in Nat
           /\ \A i \in K : Cardinality({j \in K : j <= i}) \in 1 .. N
           /\ \A i, h \in K :
                Cardinality({j \in K : j <= i}) = Cardinality({j \in K : j <= h}) => i = h
           /\ \A n \in 1 .. N : \E i \in K : Cardinality({j \in K : j <= i}) = n
<1> DEFINE Upto(i) == {j \in K : j <= i}
           Count(i) == Cardinality(Upto(i))
<1>1. N \in Nat
  BY FS_CardinalityType
<1>2. \A i, x \in K : x \in Upto(i) <=> x <= i
  OBVIOUS
<1>3. \A i \in K : Upto(i) \in SUBSET K
  OBVIOUS
<1> HIDE DEF Upto
<1>4. \A i \in K : IsFiniteSet(Upto(i)) /\ Count(i) <= N /\ Count(i) \in Nat
  BY <1>3, FS_Subset, FS_CardinalityType
<1>5. ASSUME NEW i \in K PROVE Count(i) \in 1 .. N
  <2>1. i \in Upto(i)
    BY <1>2
  <2>2. Count(i) # 0
    <3>1. IsFiniteSet(Upto(i)) /\ Upto(i) # {}
      BY <2>1, <1>4
    <3> QED
      BY <3>1, FS_EmptySet
  <2> HIDE DEF Count
  <2> QED
    BY <2>2, <1>1, <1>4
<1>6. ASSUME NEW i \in K, NEW h \in K, i < h PROVE Count(i) # Count(h)
  <2>1. ASSUME NEW x \in Upto(i) PROVE x \in Upto(h)
    <3>1. x \in K /\ x <= i
      BY <1>2, <1>3
    <3>2. x <= h
      BY <3>1, <1>6
    <3> QED
      BY <3>1, <3>2, <1>2
  <2>2. h \in Upto(h) /\ h \notin Upto(i)
    BY <1>2, <1>6
  <2>3. Upto(i) \in SUBSET Upto(h) /\ Upto(i) # Upto(h)
    BY <2>1, <2>2
  <2> QED
    BY <2>3, <1>4, FS_Subset
<1>7. ASSUME NEW i \in K, NEW h \in K, Count(i) = Count(h) PROVE i = h
  <2>1. ~ (i < h) /\ ~ (h < i)
    BY <1>6, <1>7
  <2> QED
    BY <2>1
<1> DEFINE count == [i \in K |-> Count(i)]
<1> HIDE DEF Count
<1>8. \A i \in K : count[i] = Count(i)
  OBVIOUS
<1>9. count \in [K -> 1 .. N]
  BY <1>5
<1> HIDE DEF count
<1>10. count \in Injection(K, 1 .. N)
  BY <1>7, <1>8, <1>9 DEF Injection, IsInjective
<1>11. count \in Surjection(K, 1 .. N)
  <2>1. IsFiniteSet(1 .. N) /\ Cardinality(1 .. N) = N
    BY <1>1, FS_Interval
  <2> QED
    BY <2>1, <1>10, FS_Injection
<1>12. \A n \in 1 .. N : \E i \in K : Count(i) = n
  BY <1>8, <1>11 DEF Surjection
<1> QED
  BY <1>1, <1>5, <1>7, <1>12 DEF Count, Upto

\* What is left of a sequence is in it, once.
LEMMA WithoutKeeps ==
    ASSUME NEW S, NEW s \in Seq(S), IsInjective(s), NEW T
    PROVE  /\ Without(s, T) \in Seq(S) /\ IsInjective(Without(s, T))
           /\ ToSet(Without(s, T)) = ToSet(s) \ T
           /\ Len(Without(s, T)) <= Len(s)
<1> DEFINE K == {i \in DOMAIN s : s[i] \notin T}
           N == Cardinality(K)
           Count(i) == Cardinality({j \in K : j <= i})
           Nth(n) == CHOOSE i \in K : Count(i) = n
           w == [n \in 1 .. N |-> s[Nth(n)]]
<1>1. Len(s) \in Nat /\ DOMAIN s = 1 .. Len(s) /\ \A i \in 1 .. Len(s) : s[i] \in S
  BY OfSeq
<1>2. K \in SUBSET Nat /\ IsFiniteSet(K) /\ N <= Len(s)
  <2> DEFINE n == Len(s)
             I == 1 .. n
  <2>1. n \in Nat
    BY <1>1
  <2>2. K \in SUBSET I /\ K \in SUBSET Nat
    BY <1>1
  <2> HIDE DEF n, K
  <2>3. IsFiniteSet(I) /\ Cardinality(I) = n
    BY <2>1, FS_Interval
  <2> HIDE DEF I
  <2>4. IsFiniteSet(K) /\ N <= n
    BY <2>2, <2>3, FS_Subset
  <2> QED
    BY <2>2, <2>4 DEF n
<1>3. Without(s, T) = w
  BY DEF Without
<1>4. /\ \A i \in K : i \in 1 .. Len(s) /\ s[i] \notin T
      /\ \A i \in 1 .. Len(s) : s[i] \notin T => i \in K
  BY <1>1
<1> HIDE DEF K
<1>5. /\ N \in Nat
      /\ \A i \in K : Count(i) \in 1 .. N
      /\ \A i, j \in K : Count(i) = Count(j) => i = j
      /\ \A n \in 1 .. N : \E i \in K : Count(i) = n
  BY <1>2, CountedOff
<1> HIDE DEF N, Count
<1>6. DOMAIN w = 1 .. N /\ \A n \in 1 .. N : w[n] = s[Nth(n)]
  OBVIOUS
<1>7. \A n \in 1 .. N : Nth(n) \in K /\ Count(Nth(n)) = n
  BY <1>5
<1>8. \A i \in K : Nth(Count(i)) = i
  BY <1>5, <1>7
<1> HIDE DEF Nth
<1>9. w \in Seq(S) /\ Len(w) = N
  <2>1. \A n \in 1 .. N : s[Nth(n)] \in S
    BY <1>1, <1>4, <1>7
  <2>2. w \in [1 .. N -> S]
    BY <2>1
  <2> HIDE DEF w
  <2> QED
    BY <2>2, <1>5, SeqDef, LenProperties
<1> HIDE DEF w
<1>10. IsInjective(w)
  <2>1. ASSUME NEW n \in 1 .. N, NEW m \in 1 .. N, w[n] = w[m] PROVE n = m
    <3>1. Nth(n) = Nth(m)
      BY <2>1, <1>1, <1>4, <1>6, <1>7 DEF IsInjective
    <3> QED
      BY <3>1, <1>7
  <2> QED
    BY <2>1, <1>6 DEF IsInjective
<1>11. ToSet(w) = ToSet(s) \ T
  <2>1. \A n \in 1 .. N : w[n] \in ToSet(s) \ T
    BY <1>1, <1>4, <1>6, <1>7 DEF ToSet
  <2>2. \A i \in K : s[i] \in ToSet(w)
    BY <1>5, <1>6, <1>8 DEF ToSet
  <2>3. \A x \in ToSet(s) \ T : x \in ToSet(w)
    BY <1>1, <1>4, <2>2 DEF ToSet
  <2>4. \A x \in ToSet(w) : x \in ToSet(s) \ T
    BY <1>6, <2>1 DEF ToSet
  <2> QED
    BY <2>3, <2>4
<1> QED
  BY <1>2, <1>3, <1>9, <1>10, <1>11

-----------------------------------------------------------------------------
(* The constants *)

LEMMA Constants ==
    /\ First \in Seq(Ids) /\ IsInjective(First) /\ Len(First) \in Nat \ {0}
    /\ First[1] \in ToSet(First) /\ First[1] \in Ids
    /\ File \in Seq(Ids) /\ IsInjective(File) /\ Len(File) \in Nat
    /\ Fresh \in Seq(Ids) /\ IsInjective(Fresh) /\ Len(Fresh) \in Nat
    /\ DOMAIN Fresh = 1 .. Len(Fresh)
    /\ \A x \in ToSet(Fresh) : x \notin ToSet(First) /\ x \notin ToSet(File)
    /\ None \notin Ids
    /\ MaxCalls \in Nat /\ MaxActs \in Nat /\ MaxFails \in Nat
    /\ PerAct \in Nat /\ MaxActs * PerAct <= Len(Fresh)
<1> DEFINE U == ToSet(First) \union ToSet(File) \union ToSet(Fresh)
<1>1. First \in Seq(ToSet(First)) /\ Fresh \in Seq(ToSet(Fresh)) /\ File \in Seq(ToSet(File))
  BY ProviderAssumption
<1>2. First \in Seq(U) /\ Fresh \in Seq(U) /\ File \in Seq(U)
  BY <1>1, SeqMonotonic
<1>3. Ids = U
  <2> DEFINE r == First \o File
  <2>1. r \in Seq(U) /\ ToSet(r) = ToSet(First) \union ToSet(File)
    BY <1>2, Joined
  <2>2. Ids = ToSet(r \o Fresh)
    BY DEF Ids
  <2> HIDE DEF r
  <2>3. ToSet(r \o Fresh) = ToSet(r) \union ToSet(Fresh)
    BY <1>2, <2>1, Joined
  <2> QED
    BY <2>1, <2>2, <2>3 DEF U
<1> HIDE DEF U
<1>4. /\ Len(First) \in Nat /\ DOMAIN First = 1 .. Len(First)
      /\ First = <<>> <=> Len(First) = 0
      /\ \A i \in 1 .. Len(First) : First[i] \in U /\ First[i] \in ToSet(First)
  BY <1>2, OfSeq
<1>5. Len(First) \in Nat \ {0} /\ 1 \in 1 .. Len(First)
  BY <1>4, ProviderAssumption
<1>6. Len(Fresh) \in Nat /\ DOMAIN Fresh = 1 .. Len(Fresh)
  BY <1>2, OfSeq
<1>7. Len(File) \in Nat
  BY <1>2, OfSeq
<1>8. /\ DOMAIN (First \o Fresh) = 1 .. Len(First) + Len(Fresh)
      /\ \A i \in 1 .. Len(First) : (First \o Fresh)[i] = First[i]
                                    /\ i \in 1 .. Len(First) + Len(Fresh)
      /\ \A i \in 1 .. Len(Fresh) : (First \o Fresh)[Len(First) + i] = Fresh[i]
                                    /\ Len(First) + i \in 1 .. Len(First) + Len(Fresh)
  <2>1. /\ First \o Fresh \in Seq(U) /\ Len(First \o Fresh) = Len(First) + Len(Fresh)
        /\ \A i \in 1 .. Len(First) + Len(Fresh) :
            (First \o Fresh)[i] = IF i <= Len(First) THEN First[i] ELSE Fresh[i - Len(First)]
    BY <1>2, ConcatProperties
  <2>2. DOMAIN (First \o Fresh) = 1 .. Len(First) + Len(Fresh)
    BY <2>1, LenProperties
  <2>3. \A i \in 1 .. Len(First) : i \in 1 .. Len(First) + Len(Fresh) /\ i <= Len(First)
    BY <1>4, <1>6
  <2>4. \A i \in 1 .. Len(Fresh) : /\ Len(First) + i \in 1 .. Len(First) + Len(Fresh)
                                   /\ ~ (Len(First) + i <= Len(First))
                                   /\ Len(First) + i - Len(First) = i
    BY <1>4, <1>6
  <2> QED
    BY <2>1, <2>2, <2>3, <2>4
<1>9. IsInjective(First \o Fresh)
  BY ProviderAssumption
<1>10. \A i, j \in 1 .. Len(First) : First[i] = First[j] => i = j
  BY <1>8, <1>9 DEF IsInjective
<1>11. \A i, j \in 1 .. Len(Fresh) : Fresh[i] = Fresh[j] => i = j
  <2> TAKE i, j \in 1 .. Len(Fresh)
  <2>1. Fresh[i] = Fresh[j] => Len(First) + i = Len(First) + j
    BY <1>8, <1>9 DEF IsInjective
  <2> QED
    BY <2>1, <1>4, <1>6
<1>12. \A i \in 1 .. Len(First), j \in 1 .. Len(Fresh) : First[i] # Fresh[j]
  <2> TAKE i \in 1 .. Len(First), j \in 1 .. Len(Fresh)
  <2>1. First[i] = Fresh[j] => i = Len(First) + j
    BY <1>8, <1>9 DEF IsInjective
  <2> QED
    BY <2>1, <1>4, <1>6
<1>13. IsInjective(First) /\ IsInjective(Fresh)
  BY <1>4, <1>6, <1>10, <1>11 DEF IsInjective
<1>14. \A x \in ToSet(Fresh) : x \notin ToSet(First)
  BY <1>4, <1>6, <1>12 DEF ToSet
<1>15. \A x \in ToSet(Fresh) : x \notin ToSet(File)
  BY ProviderAssumption
<1>16. IsInjective(File) /\ None \notin Ids
  BY ProviderAssumption DEF Ids
<1>17. MaxCalls \in Nat /\ MaxActs \in Nat /\ MaxFails \in Nat
  BY ProviderAssumption
<1>18. PerAct \in Nat /\ MaxActs * PerAct <= Len(Fresh)
  BY ProviderAssumption, <1>7 DEF PerAct
<1> QED
  BY <1>2, <1>3, <1>4, <1>5, <1>6, <1>7, <1>13, <1>14, <1>15, <1>16, <1>17, <1>18

-----------------------------------------------------------------------------
(* Lists *)

LEMMA ListParts ==
    ASSUME NEW l, IsList(l)
    PROVE  /\ l.order \in Seq(Ids) /\ IsInjective(l.order)
           /\ l.default \in Ids \union {None}
           /\ l.off \subseteq ToSet(l.order) /\ l.off \subseteq Ids
           /\ l = Listing(l.order, l.default, l.off)
BY DEF IsList, Listing

LEMMA ListMade ==
    ASSUME NEW order \in Seq(Ids), IsInjective(order), NEW default \in Ids \union {None},
           NEW off, off \subseteq ToSet(order)
    PROVE  /\ IsList(Listing(order, default, off))
           /\ Listing(order, default, off).order = order
           /\ Listing(order, default, off).default = default
           /\ Listing(order, default, off).off = off
<1>1. off \subseteq Ids
  BY OfSeq
<1> QED
  BY <1>1 DEF IsList, Listing

\* Each provider is in the order at one place.
LEMMA AtOnePlace ==
    ASSUME NEW order \in Seq(Ids), NEW p \in ToSet(order)
    PROVE  \E i \in 1 .. Len(order) : order[i] = p
<1>1. DOMAIN order = 1 .. Len(order)
  BY OfSeq
<1> QED
  BY <1>1 DEF ToSet

LEMMA DeletedFits ==
    ASSUME NEW s, IsList(s), NEW p \in ToSet(s.order)
    PROVE  IsList(Deleted(s, p)) /\ ToSet(Deleted(s, p).order) = ToSet(s.order) \ {p}
<1> DEFINE i == CHOOSE i \in DOMAIN s.order : s.order[i] = p
           rest == RemoveAt(s.order, i)
           d == IF s.default # p THEN s.default ELSE IF rest = <<>> THEN None ELSE rest[1]
<1>1. /\ s.order \in Seq(Ids) /\ IsInjective(s.order)
      /\ s.default \in Ids \union {None} /\ s.off \subseteq ToSet(s.order)
  BY ListParts
<1>2. DOMAIN s.order = 1 .. Len(s.order)
  BY <1>1, OfSeq
<1>3. i \in 1 .. Len(s.order) /\ s.order[i] = p
  BY <1>1, <1>2, AtOnePlace
<1>4. Deleted(s, p) = Listing(rest, d, s.off \ {p})
  BY DEF Deleted
<1> HIDE DEF i
<1>5. rest \in Seq(Ids) /\ IsInjective(rest) /\ ToSet(rest) = ToSet(s.order) \ {p}
  BY <1>1, <1>3, Removed
<1> HIDE DEF rest
<1>6. d \in Ids \union {None}
  <2>1. rest # <<>> => 1 \in 1 .. Len(rest)
    BY <1>5, OfSeq
  <2>2. rest # <<>> => rest[1] \in Ids
    BY <2>1, <1>5, OfSeq
  <2> QED
    BY <2>2, <1>1
<1>7. s.off \ {p} \subseteq ToSet(rest)
  BY <1>1, <1>5
<1> HIDE DEF d
<1>8. IsList(Listing(rest, d, s.off \ {p})) /\ Listing(rest, d, s.off \ {p}).order = rest
  BY <1>5, <1>6, <1>7, ListMade
<1> QED
  BY <1>4, <1>5, <1>8

LEMMA ToggledFits ==
    ASSUME NEW s, IsList(s), NEW p \in ToSet(s.order)
    PROVE  IsList(Toggled(s, p)) /\ Toggled(s, p).order = s.order
<1>1. /\ s.order \in Seq(Ids) /\ IsInjective(s.order)
      /\ s.default \in Ids \union {None} /\ s.off \subseteq ToSet(s.order)
      /\ s = Listing(s.order, s.default, s.off)
  BY ListParts
<1> DEFINE d == IF s.default = p THEN None ELSE s.default
           off == s.off \union {p}
           on == s.off \ {p}
<1>2. CASE p \in s.off
  <2>1. Toggled(s, p) = Listing(s.order, s.default, on)
    BY <1>1, <1>2 DEF Toggled, Listing
  <2>2. on \subseteq ToSet(s.order)
    BY <1>1
  <2> DEFINE default == s.default
  <2>3. Toggled(s, p) = Listing(s.order, default, on) /\ default \in Ids \union {None}
    BY <1>1, <2>1
  <2> HIDE DEF on, default
  <2>4. IsList(Listing(s.order, default, on)) /\ Listing(s.order, default, on).order = s.order
    BY <1>1, <2>2, <2>3, ListMade
  <2> QED
    BY <2>3, <2>4
<1>3. CASE p \notin s.off
  <2>1. Toggled(s, p) = Listing(s.order, d, off)
    BY <1>1, <1>3 DEF Toggled, Listing
  <2>2. d \in Ids \union {None} /\ off \subseteq ToSet(s.order)
    BY <1>1
  <2> HIDE DEF d, off
  <2> QED
    BY <1>1, <2>1, <2>2, ListMade
<1> QED
  BY <1>2, <1>3

LEMMA ActivatedFits ==
    ASSUME NEW s, IsList(s), NEW p \in ToSet(s.order)
    PROVE  /\ IsList([s EXCEPT !.default = p])
           /\ [s EXCEPT !.default = p].order = s.order
<1>1. p \in Ids
  BY ListParts, OfSeq
<1> QED
  BY <1>1 DEF IsList

LEMMA AppendedFits ==
    ASSUME NEW s, IsList(s), NEW p \in Ids, p \notin ToSet(s.order)
    PROVE  /\ IsList(Appended(s, p)) /\ ToSet(Appended(s, p).order) = ToSet(s.order) \union {p}
           /\ Last(Appended(s, p).order) = p
<1> DEFINE order == Append(s.order, p)
           d == s.default
           off == s.off
<1>1. /\ s.order \in Seq(Ids) /\ IsInjective(s.order)
      /\ d \in Ids \union {None} /\ off \subseteq ToSet(s.order)
      /\ s = Listing(s.order, d, off)
  BY ListParts
<1>2. /\ order \in Seq(Ids) /\ IsInjective(order)
      /\ ToSet(order) = ToSet(s.order) \union {p} /\ Last(order) = p
  BY <1>1, Added
<1>3. Appended(s, p) = Listing(order, d, off)
  BY <1>1 DEF Appended, Listing
<1> HIDE DEF order, d, off
<1>4. off \subseteq ToSet(order)
  BY <1>1, <1>2
<1>5. IsList(Listing(order, d, off)) /\ Listing(order, d, off).order = order
  BY <1>1, <1>2, <1>4, ListMade
<1> QED
  BY <1>2, <1>3, <1>5

LEMMA CreatedFits ==
    ASSUME NEW s, IsList(s), NEW p \in Ids, p \notin ToSet(s.order)
    PROVE  /\ IsList(Created(s, p)) /\ ToSet(Created(s, p).order) = ToSet(s.order) \union {p}
           /\ Last(Created(s, p).order) = p
<1>1. CASE s.order = <<>>
  <2> DEFINE o == <<p>>
  <2>1. o \in Seq(Ids) /\ IsInjective(o) /\ ToSet(o) = {p} /\ Last(o) = p
    <3>1. o \in Seq(Ids) /\ IsInjective(o) /\ ToSet(o) = {p}
      BY OneMember
    <3>2. Last(o) = p
      BY DEF Last
    <3> QED
      BY <3>1, <3>2
  <2>2. Created(s, p) = Listing(o, p, {})
    BY <1>1 DEF Created
  <2>3. s.order \in Seq(Ids)
    BY ListParts
  <2>4. ToSet(s.order) = {}
    BY <1>1, <2>3, OfSeq
  <2> HIDE DEF o
  <2>5. IsList(Listing(o, p, {})) /\ Listing(o, p, {}).order = o
    BY <2>1, ListMade
  <2> QED
    BY <2>1, <2>2, <2>4, <2>5
<1>2. CASE s.order # <<>>
  BY <1>2, AppendedFits DEF Created
<1> QED
  BY <1>1, <1>2

\* The default in effect is an enabled provider; there is none only when no
\* provider is enabled.
LEMMA EffectiveIs ==
    ASSUME NEW s, IsList(s)
    PROVE  /\ \/ Effective(s) \in ToSet(s.order) \ s.off
              \/ Effective(s) = None /\ ToSet(s.order) \subseteq s.off
           /\ s.default \in ToSet(s.order) \ s.off => Effective(s) = s.default
           /\ ToSet(s.order) \subseteq s.off => Effective(s) = None
<1> DEFINE on == {i \in DOMAIN s.order : s.order[i] \notin s.off}
<1>1. s.order \in Seq(Ids)
  BY ListParts
<1>2. DOMAIN s.order = 1 .. Len(s.order) /\ Len(s.order) \in Nat
  BY <1>1, OfSeq
<1>3. on \in SUBSET Nat
  BY <1>2
<1>4. Effective(s) = IF \E i \in on : s.order[i] = s.default THEN s.default
                     ELSE IF on = {} THEN None ELSE s.order[Min(on)]
  BY DEF Effective
<1>5. \A i \in on : s.order[i] \in ToSet(s.order) \ s.off
  BY DEF ToSet
<1>6. \A p \in ToSet(s.order) \ s.off : \E i \in on : s.order[i] = p
  BY DEF ToSet
<1> HIDE DEF on
<1>7. on # {} => Min(on) \in on
  BY <1>3, Least
<1>8. on = {} <=> ToSet(s.order) \subseteq s.off
  BY <1>5, <1>6
<1> QED
  BY <1>4, <1>5, <1>6, <1>7, <1>8

LEMMA ReorderedFits ==
    ASSUME NEW s, IsList(s), NEW ids \in Seq(Ids), IsInjective(ids), SameProviders(s, ids)
    PROVE  /\ IsList(Reordered(s, ids)) /\ ToSet(Reordered(s, ids).order) = ToSet(s.order)
           /\ Effective(Reordered(s, ids)) = Effective(s)
<1> DEFINE e == Effective(s)
           d == IF e = None THEN s.default ELSE e
           off == s.off
           r == Listing(ids, d, off)
<1>1. /\ s.order \in Seq(Ids) /\ s.default \in Ids \union {None}
      /\ off \subseteq ToSet(s.order) /\ s = Listing(s.order, s.default, off)
  BY ListParts
<1>2. ToSet(ids) = ToSet(s.order)
  BY DEF SameProviders
<1>3. Reordered(s, ids) = r
  <2>1. Reordered(s, ids) = [s EXCEPT !.order = ids, !.default = d]
    BY DEF Reordered
  <2> HIDE DEF d
  <2>2. [s EXCEPT !.order = ids] = Listing(ids, s.default, off)
    BY <1>1 DEF Listing
  <2>3. [Listing(ids, s.default, off) EXCEPT !.default = d] = Listing(ids, d, off)
    BY DEF Listing
  <2> QED
    BY <2>1, <2>2, <2>3
<1>4. \/ e \in ToSet(s.order) \ off
      \/ e = None /\ ToSet(s.order) \subseteq off
  BY EffectiveIs
<1>5. None \notin Ids /\ ToSet(s.order) \subseteq Ids
  BY <1>1, OfSeq, Constants
<1> HIDE DEF e
<1>6. d \in Ids \union {None} /\ off \subseteq ToSet(ids)
  BY <1>1, <1>2, <1>4, <1>5
<1>7. e # None => d \in ToSet(ids) \ off /\ d = e
  BY <1>2, <1>4
<1>8. e = None => ToSet(ids) \subseteq off
  BY <1>2, <1>4, <1>5
<1> HIDE DEF d, off
<1>9. IsList(r) /\ r.order = ids /\ r.default = d /\ r.off = off
  BY <1>6, ListMade
<1> HIDE DEF r
<1>10. Effective(r) = e
  BY <1>7, <1>8, <1>9, EffectiveIs
<1> QED
  BY <1>2, <1>3, <1>9, <1>10 DEF e

-----------------------------------------------------------------------------
(* What a request makes of the list *)

\* A list that the server may store next: the next n generated ids are used
\* in it, and no others.
Adds(list, n) ==
    /\ IsList(list) /\ n \in Nat /\ made + n <= Len(Fresh)
    /\ \A i \in 1 .. Len(Fresh) :
          Fresh[i] \in ToSet(list.order) \ ToSet(store.order) <=> i \in made + 1 .. made + n

LEMMA AddsNone ==
    ASSUME ServerFits, NEW list, IsList(list),
           \A p \in ToSet(list.order) : p \in ToSet(store.order) \/ p \notin ToSet(Fresh)
    PROVE  Adds(list, 0)
<1>1. made \in Nat /\ made <= Len(Fresh) /\ Len(Fresh) \in Nat
  BY Constants DEF ServerFits
<1>2. \A i \in 1 .. Len(Fresh) : Fresh[i] \in ToSet(Fresh)
  BY Constants, OfSeq
<1>3. \A i \in 1 .. Len(Fresh) : i \notin made + 1 .. made + 0
  BY <1>1
<1>4. \A i \in 1 .. Len(Fresh) : Fresh[i] \notin ToSet(list.order) \ ToSet(store.order)
  BY <1>2
<1>5. made + 0 <= Len(Fresh)
  BY <1>1
<1> QED
  BY <1>3, <1>4, <1>5 DEF Adds

LEMMA NewIdFits ==
    ASSUME ServerFits, made + 1 <= Len(Fresh)
    PROVE  NewId \in Ids /\ NewId \notin ToSet(store.order) /\ NewId \in ToSet(Fresh)
<1>1. made + 1 \in made + 1 .. Len(Fresh) /\ made + 1 \in 1 .. Len(Fresh)
  BY Constants DEF ServerFits
<1>2. NewId \notin ToSet(store.order)
  BY <1>1 DEF ServerFits, Unused, NewId
<1>3. NewId \in Ids /\ NewId \in ToSet(Fresh)
  BY <1>1, Constants, OfSeq DEF NewId
<1> QED
  BY <1>2, <1>3

LEMMA AddsOne ==
    ASSUME ServerFits, made + 1 <= Len(Fresh), NEW list, IsList(list),
           ToSet(list.order) = ToSet(store.order) \union {NewId}
    PROVE  Adds(list, 1)
<1>1. made \in Nat /\ Len(Fresh) \in Nat
  BY Constants DEF ServerFits
<1>2. NewId \notin ToSet(store.order)
  BY NewIdFits
<1>3. made + 1 \in 1 .. Len(Fresh)
  BY <1>1
<1>4. \A i \in 1 .. Len(Fresh) : Fresh[i] = NewId <=> i = made + 1
  BY <1>3, Constants DEF NewId, IsInjective
<1>5. \A i \in 1 .. Len(Fresh) : i \in made + 1 .. made + 1 <=> i = made + 1
  BY <1>1
<1>6. \A i \in 1 .. Len(Fresh) :
        Fresh[i] \in ToSet(list.order) \ ToSet(store.order) <=> Fresh[i] = NewId
  BY <1>2
<1> QED
  BY <1>4, <1>5, <1>6 DEF Adds

LEMMA TakeFits ==
    ASSUME ServerFits, NEW out, NEW n, Adds(out.list, n), Take(out)
    PROVE  /\ store' = out.list /\ made' = made + n
           /\ IsList(store') /\ made' \in 0 .. Len(Fresh) /\ Unused(store'.order, made')
<1> DEFINE I == {i \in DOMAIN Fresh :
                   Fresh[i] \in ToSet(out.list.order) \ ToSet(store.order)}
<1>1. made \in Nat /\ Len(Fresh) \in Nat /\ n \in Nat /\ made + n <= Len(Fresh)
  BY Constants DEF ServerFits, Adds
<1>2. DOMAIN Fresh = 1 .. Len(Fresh)
  BY Constants
<1>3. \A i \in 1 .. Len(Fresh) :
         Fresh[i] \in ToSet(out.list.order) \ ToSet(store.order) <=> i \in made + 1 .. made + n
  BY DEF Adds
<1>4. I = made + 1 .. made + n
  <2>1. \A i \in made + 1 .. made + n : i \in 1 .. Len(Fresh)
    BY <1>1
  <2> QED
    BY <2>1, <1>2, <1>3
<1>5. store' = out.list /\ made' = made + Cardinality(I)
  BY DEF Take
<1> HIDE DEF I
<1>6. Cardinality(made + 1 .. made + n) = n
  BY <1>1, FS_Interval
<1>7. made' = made + n
  BY <1>4, <1>5, <1>6
<1>8. ASSUME NEW i \in made + n + 1 .. Len(Fresh) PROVE Fresh[i] \notin ToSet(out.list.order)
  <2>1. i \in made + 1 .. Len(Fresh) /\ i \in 1 .. Len(Fresh) /\ i \notin made + 1 .. made + n
    BY <1>1
  <2>2. Fresh[i] \notin ToSet(store.order)
    BY <2>1 DEF ServerFits, Unused
  <2> QED
    BY <2>1, <2>2, <1>3
<1>9. Unused(store'.order, made')
  BY <1>5, <1>7, <1>8 DEF Unused
<1> QED
  BY <1>1, <1>5, <1>7, <1>9 DEF Adds

LEMMA CardOutcome ==
    ASSUME ServerFits, NEW kind \in CardEdits, NEW a \in Ids,
           kind = "duplicate" => made + 1 <= Len(Fresh)
    PROVE  /\ Outcome(store, kind, a).ok \in BOOLEAN
           /\ Adds(Outcome(store, kind, a).list, IF kind = "duplicate" /\ a \in ToSet(store.order)
                                                 THEN 1 ELSE 0)
           /\ kind = "duplicate" /\ Outcome(store, kind, a).ok
                => Last(Outcome(store, kind, a).list.order) \in Ids
<1> DEFINE out == Outcome(store, kind, a)
<1>1. IsList(store)
  BY DEF ServerFits
<1>2. Adds(store, 0)
  BY <1>1, AddsNone
<1>3. CASE a \notin ToSet(store.order)
  <2>1. out.ok = FALSE /\ out.list = store
    BY <1>3 DEF Outcome, Accepted, Refused, CardEdits
  <2> QED
    BY <2>1, <1>2, <1>3
<1>4. CASE a \in ToSet(store.order) /\ kind = "delete"
  <2>1. out.ok = TRUE /\ out.list = Deleted(store, a)
    BY <1>4 DEF Outcome, Accepted
  <2>2. Adds(out.list, 0)
    BY <1>1, <1>4, <2>1, DeletedFits, AddsNone
  <2> QED
    BY <1>4, <2>1, <2>2
<1>5. CASE a \in ToSet(store.order) /\ kind = "toggle"
  <2>1. out.ok = TRUE /\ out.list = Toggled(store, a)
    BY <1>5 DEF Outcome, Accepted
  <2>2. Adds(out.list, 0)
    BY <1>1, <1>5, <2>1, ToggledFits, AddsNone
  <2> QED
    BY <1>5, <2>1, <2>2
<1>6. CASE a \in ToSet(store.order) /\ kind = "activate"
  <2>1. \/ out.ok = FALSE /\ out.list = store
        \/ out.ok = TRUE /\ out.list = [store EXCEPT !.default = a]
    BY <1>6 DEF Outcome, Accepted, Refused
  <2>2. Adds(out.list, 0)
    BY <1>1, <1>2, <1>6, <2>1, ActivatedFits, AddsNone
  <2> QED
    BY <1>6, <2>1, <2>2
<1>7. CASE a \in ToSet(store.order) /\ kind = "duplicate"
  <2>1. out.ok = TRUE /\ out.list = Appended(store, NewId)
    BY <1>7 DEF Outcome, Accepted
  <2>2. NewId \in Ids /\ NewId \notin ToSet(store.order)
    BY <1>7, NewIdFits
  <2>3. /\ IsList(out.list) /\ ToSet(out.list.order) = ToSet(store.order) \union {NewId}
        /\ Last(out.list.order) = NewId
    BY <1>1, <2>1, <2>2, AppendedFits
  <2>4. Adds(out.list, 1)
    BY <1>7, <2>3, AddsOne
  <2> QED
    BY <1>7, <2>1, <2>2, <2>3, <2>4
<1> QED
  BY <1>3, <1>4, <1>5, <1>6, <1>7 DEF CardEdits

LEMMA MembersCounted ==
    ASSUME NEW S, NEW s \in Seq(S), NEW C, C \subseteq ToSet(s)
    PROVE  IsFiniteSet(C) /\ Cardinality(C) \in 0 .. Len(s)
<1> DEFINE I == 1 .. Len(s)
           place == [p \in C |-> CHOOSE i \in I : s[i] = p]
<1>1. Len(s) \in Nat /\ DOMAIN s = I
  BY OfSeq
<1>2. IsFiniteSet(I) /\ Cardinality(I) = Len(s)
  BY <1>1, FS_Interval
<1> HIDE DEF I
<1>3. \A p \in C : \E i \in I : s[i] = p
  BY <1>1 DEF ToSet
<1>4. \A p \in C : place[p] \in I /\ s[place[p]] = p
  BY <1>3
<1>5. place \in [C -> I]
  BY <1>4
<1> HIDE DEF place
<1>6. place \in Injection(C, I)
  BY <1>4, <1>5 DEF Injection, IsInjective
<1>7. IsFiniteSet(C) /\ Cardinality(C) <= Cardinality(I)
  BY <1>2, <1>6, FS_Injection
<1> QED
  BY <1>1, <1>2, <1>7, FS_CardinalityType

\* The file gets the next ids, one for each of its providers that is in the list.
LEMMA RenamedFits ==
    ASSUME ServerFits, made + Len(File) <= Len(Fresh)
    PROVE  LET clash == {i \in DOMAIN File : File[i] \in ToSet(store.order)}
               new == Renamed(store.order)
               n == Cardinality(clash)
           IN  /\ new \in Seq(Ids) /\ IsInjective(new)
               /\ \A p \in ToSet(new) : p \notin ToSet(store.order)
               /\ n \in 0 .. Len(File)
               /\ \A i \in 1 .. Len(Fresh) :
                     Fresh[i] \in ToSet(new) <=> i \in made + 1 .. made + n
<1> DEFINE I == 1 .. Len(File)
           clash == {i \in DOMAIN File : File[i] \in ToSet(store.order)}
           n == Cardinality(clash)
           Count(i) == Cardinality({j \in clash : j <= i})
           new == [i \in I |-> IF i \in clash THEN Fresh[made + Count(i)] ELSE File[i]]
<1>1. /\ File \in Seq(Ids) /\ IsInjective(File) /\ Len(File) \in Nat /\ DOMAIN File = I
      /\ \A i \in I : File[i] \in Ids /\ File[i] \in ToSet(File)
  BY Constants, OfSeq
<1>2. /\ made \in Nat /\ Len(Fresh) \in Nat /\ DOMAIN Fresh = 1 .. Len(Fresh) /\ IsInjective(Fresh)
      /\ \A k \in 1 .. Len(Fresh) :
            Fresh[k] \in Ids /\ Fresh[k] \in ToSet(Fresh) /\ Fresh[k] \notin ToSet(File)
  BY Constants, OfSeq DEF ServerFits
<1>3. \A k \in made + 1 .. Len(Fresh) : Fresh[k] \notin ToSet(store.order)
  BY DEF ServerFits, Unused
<1>4. Renamed(store.order) = new
  BY <1>1 DEF Renamed
<1>5. /\ clash \in SUBSET I /\ clash \in SUBSET Nat
      /\ \A i \in I : i \in clash <=> File[i] \in ToSet(store.order)
  BY <1>1
<1> HIDE DEF clash
<1>6. IsFiniteSet(clash) /\ n <= Len(File)
  <2> DEFINE N == Len(File)
  <2>1. N \in Nat
    BY <1>1
  <2>2. clash \in SUBSET (1 .. N)
    BY <1>5
  <2> HIDE DEF N
  <2>3. IsFiniteSet(1 .. N) /\ Cardinality(1 .. N) = N
    BY <2>1, FS_Interval
  <2>4. IsFiniteSet(clash) /\ Cardinality(clash) <= Cardinality(1 .. N)
    BY <2>2, <2>3, FS_Subset
  <2> QED
    BY <2>3, <2>4 DEF N
<1>7. /\ n \in Nat
      /\ \A i \in clash : Count(i) \in 1 .. n
      /\ \A i, h \in clash : Count(i) = Count(h) => i = h
      /\ \A m \in 1 .. n : \E i \in clash : Count(i) = m
  BY <1>5, <1>6, CountedOff
<1> HIDE DEF Count, n
<1>8. ASSUME NEW i \in clash
      PROVE  made + Count(i) \in made + 1 .. made + n /\ made + Count(i) \in 1 .. Len(Fresh)
             /\ made + Count(i) \in made + 1 .. Len(Fresh) /\ Count(i) \in Nat
  BY <1>1, <1>2, <1>6, <1>7
<1>9. /\ DOMAIN new = I
      /\ \A i \in clash : new[i] = Fresh[made + Count(i)] /\ i \in I
      /\ \A i \in I \ clash : new[i] = File[i]
  BY <1>5
<1>10. new \in Seq(Ids)
  <2>1. new \in [I -> Ids]
    BY <1>1, <1>2, <1>8
  <2> HIDE DEF new
  <2> QED
    BY <2>1, <1>1, SeqDef
<1> HIDE DEF new
<1>11. IsInjective(new)
  <2>1. ASSUME NEW i \in clash, NEW h \in clash, new[i] = new[h] PROVE i = h
    <3>1. made + Count(i) = made + Count(h)
      BY <2>1, <1>2, <1>8, <1>9 DEF IsInjective
    <3>2. Count(i) = Count(h)
      BY <3>1, <1>2, <1>8
    <3> QED
      BY <3>2, <1>7
  <2>2. ASSUME NEW i \in clash, NEW h \in I \ clash PROVE new[i] # new[h]
    BY <1>1, <1>2, <1>8, <1>9
  <2>3. ASSUME NEW i \in I \ clash, NEW h \in I \ clash, new[i] = new[h] PROVE i = h
    BY <2>3, <1>1, <1>9 DEF IsInjective
  <2> QED
    BY <2>1, <2>2, <2>3, <1>9 DEF IsInjective
<1>12. ASSUME NEW i \in I PROVE new[i] \notin ToSet(store.order)
  BY <1>3, <1>5, <1>8, <1>9
<1>13. \A p \in ToSet(new) : p \notin ToSet(store.order)
  BY <1>9, <1>12 DEF ToSet
<1>14. ASSUME NEW k \in 1 .. Len(Fresh)
       PROVE  Fresh[k] \in ToSet(new) <=> k \in made + 1 .. made + n
  <2>1. ASSUME Fresh[k] \in ToSet(new) PROVE k \in made + 1 .. made + n
    <3>1. PICK i \in I : new[i] = Fresh[k]
      BY <2>1, <1>9 DEF ToSet
    <3>2. i \in clash
      BY <3>1, <1>1, <1>2, <1>9
    <3>3. k = made + Count(i)
      BY <3>1, <3>2, <1>2, <1>8, <1>9 DEF IsInjective
    <3> QED
      BY <3>2, <3>3, <1>8
  <2>2. ASSUME k \in made + 1 .. made + n PROVE Fresh[k] \in ToSet(new)
    <3>1. k - made \in 1 .. n
      BY <2>2, <1>2, <1>7
    <3>2. PICK i \in clash : Count(i) = k - made
      BY <3>1, <1>7
    <3>3. made + Count(i) = k
      BY <3>2, <1>2
    <3> QED
      BY <3>3, <1>9 DEF ToSet
  <2> QED
    BY <2>1, <2>2
<1>15. n \in 0 .. Len(File)
  BY <1>1, <1>6, <1>7 DEF n
<1> QED
  BY <1>4, <1>10, <1>11, <1>13, <1>14, <1>15 DEF n, clash

\* The order of an import, before ids are generated for the conflicts.
LEMMA MergedFits ==
    ASSUME ServerFits
    PROVE  LET merged == store.order \o Without(File, ToSet(store.order))
           IN  /\ merged \in Seq(Ids) /\ IsInjective(merged)
               /\ ToSet(merged) = ToSet(store.order) \union ToSet(File)
<1> DEFINE order == store.order
           new == Without(File, ToSet(order))
<1>1. order \in Seq(Ids) /\ IsInjective(order)
  BY ListParts DEF ServerFits
<1>2. File \in Seq(Ids) /\ IsInjective(File)
  BY Constants
<1> HIDE DEF order
<1>3. new \in Seq(Ids) /\ IsInjective(new) /\ ToSet(new) = ToSet(File) \ ToSet(order)
  BY <1>2, WithoutKeeps
<1> HIDE DEF new
<1>4. \A p \in ToSet(order) : p \notin ToSet(new)
  BY <1>3
<1>5. /\ order \o new \in Seq(Ids) /\ IsInjective(order \o new)
      /\ ToSet(order \o new) = ToSet(order) \union ToSet(new)
  BY <1>1, <1>3, <1>4, JoinedApart
<1> QED
  BY <1>3, <1>5 DEF order, new

LEMMA ImportedFits ==
    ASSUME ServerFits, made + PerAct <= Len(Fresh),
           NEW strategy \in {"skip", "overwrite", "duplicate"}
    PROVE  \E n \in 0 .. PerAct : Adds(Imported(store, strategy), n)
<1> DEFINE order == store.order
           d == store.default
           off == store.off
           merged == order \o Without(File, ToSet(order))
           enabled == off \ ToSet(File)
<1>1. /\ order \in Seq(Ids) /\ IsInjective(order) /\ d \in Ids \union {None}
      /\ off \subseteq ToSet(order)
  BY ListParts DEF ServerFits
<1>list. store = Listing(order, d, off)
  BY ListParts DEF ServerFits
<1>2. merged \in Seq(Ids) /\ IsInjective(merged)
      /\ ToSet(merged) = ToSet(order) \union ToSet(File)
  BY MergedFits
<1>3. \A p \in ToSet(File) : p \notin ToSet(Fresh)
  BY Constants
<1>4. PerAct \in Nat /\ Len(File) \in Nat /\ PerAct = 1 + Len(File)
  BY Constants DEF PerAct
<1>5. CASE strategy = "skip"
  <2>1. Imported(store, strategy) = Listing(merged, d, off)
    BY <1>list, <1>5 DEF Imported, Listing
  <2> HIDE DEF order, merged, d, off
  <2>2. /\ merged \in Seq(Ids) /\ IsInjective(merged) /\ d \in Ids \union {None}
        /\ off \subseteq ToSet(merged)
    BY <1>1, <1>2
  <2>3. IsList(Listing(merged, d, off)) /\ Listing(merged, d, off).order = merged
    BY <2>2, ListMade
  <2>4. Adds(Imported(store, strategy), 0)
    BY <1>2, <1>3, <2>1, <2>3, AddsNone DEF order
  <2> QED
    BY <1>4, <2>4
<1>6. CASE strategy = "overwrite"
  <2>1. Imported(store, strategy) = Listing(merged, d, enabled)
    BY <1>list, <1>6 DEF Imported, Listing
  <2>2. /\ merged \in Seq(Ids) /\ IsInjective(merged) /\ d \in Ids \union {None}
        /\ enabled \subseteq ToSet(merged)
    BY <1>1, <1>2
  <2> HIDE DEF order, merged, d, enabled
  <2>3. IsList(Listing(merged, d, enabled)) /\ Listing(merged, d, enabled).order = merged
    <3>1. IsList(Listing(merged, d, enabled))
      BY <2>2, ListMade
    <3>2. Listing(merged, d, enabled).order = merged
      BY DEF Listing
    <3> QED
      BY <3>1, <3>2
  <2>4. Adds(Imported(store, strategy), 0)
    BY <1>2, <1>3, <2>1, <2>3, AddsNone DEF order
  <2> QED
    BY <1>4, <2>4
<1>7. CASE strategy = "duplicate"
  <2> DEFINE clash == {i \in DOMAIN File : File[i] \in ToSet(order)}
             n == Cardinality(clash)
             new == Renamed(order)
             all == order \o new
  <2>1. Imported(store, strategy) = Listing(all, d, off)
    BY <1>list, <1>7 DEF Imported, Listing
  <2>2. /\ made \in Nat /\ Len(Fresh) \in Nat /\ made + Len(File) <= Len(Fresh)
    BY <1>4, Constants DEF ServerFits
  <2>3. /\ new \in Seq(Ids) /\ IsInjective(new)
        /\ \A p \in ToSet(new) : p \notin ToSet(order)
        /\ n \in 0 .. Len(File)
        /\ \A i \in 1 .. Len(Fresh) : Fresh[i] \in ToSet(new) <=> i \in made + 1 .. made + n
    BY <2>2, RenamedFits
  <2> HIDE DEF order, d, off, n, new
  <2>4. /\ all \in Seq(Ids) /\ IsInjective(all)
        /\ ToSet(all) = ToSet(order) \union ToSet(new)
    BY <1>1, <2>3, JoinedApart
  <2> HIDE DEF all
  <2>5. IsList(Listing(all, d, off)) /\ Listing(all, d, off).order = all
    <3>1. off \subseteq ToSet(all)
      BY <1>1, <2>4
    <3> QED
      BY <1>1, <2>4, <3>1, ListMade
  <2>6. \A i \in 1 .. Len(Fresh) :
           Fresh[i] \in ToSet(all) \ ToSet(order) <=> i \in made + 1 .. made + n
    BY <2>3, <2>4
  <2>7. n \in Nat /\ made + n <= Len(Fresh) /\ n \in 0 .. PerAct
    BY <1>4, <2>2, <2>3
  <2>8. Adds(Imported(store, strategy), n)
    BY <2>1, <2>5, <2>6, <2>7 DEF Adds, order
  <2> QED
    BY <2>7, <2>8
<1> QED
  BY <1>5, <1>6, <1>7

\* No more ids than PerAct are used, and only by a request that may.
LEMMA OutcomeFits ==
    ASSUME ServerFits, NEW k, NEW n, NEW taken, IsCall(k, n, taken),
           k.kind \in Creates => made + PerAct <= Len(Fresh)
    PROVE  LET out == Outcome(store, k.kind, k.arg)
           IN  /\ out.ok \in BOOLEAN
               /\ \E m \in 0 .. PerAct : Adds(out.list, m) /\ (k.kind \notin Creates => m = 0)
               /\ out.ok /\ (k.kind = "duplicate" \/ (k.kind = "save" /\ k.arg.who = None))
                    => Last(out.list.order) \in Ids
<1> DEFINE out == Outcome(store, k.kind, k.arg)
           Fits == /\ out.ok \in BOOLEAN
                   /\ \E m \in 0 .. PerAct : Adds(out.list, m) /\ (k.kind \notin Creates => m = 0)
                   /\ out.ok /\ (k.kind = "duplicate" \/ (k.kind = "save" /\ k.arg.who = None))
                        => Last(out.list.order) \in Ids
<1> SUFFICES Fits
  OBVIOUS
<1>1. IsList(store) /\ Adds(store, 0)
  BY AddsNone DEF ServerFits
<1>2. PerAct \in Nat \ {0} /\ 0 \in 0 .. PerAct /\ 1 \in 0 .. PerAct
  BY Constants DEF PerAct
<1>3. made \in Nat /\ Len(Fresh) \in Nat
  BY Constants DEF ServerFits
<1>4. KindFits(k, n, taken)
  BY DEF IsCall
<1>5. CASE k.kind \in CardEdits /\ k.arg \in Ids
  <2>1. k.kind = "duplicate" => made + 1 <= Len(Fresh)
    BY <1>2, <1>3 DEF Creates
  <2>2. /\ out.ok \in BOOLEAN
        /\ Adds(out.list, IF k.kind = "duplicate" /\ k.arg \in ToSet(store.order) THEN 1 ELSE 0)
        /\ k.kind = "duplicate" /\ out.ok => Last(out.list.order) \in Ids
    BY <1>5, <2>1, CardOutcome
  <2>3. k.kind # "save" /\ (k.kind = "duplicate" => k.kind \in Creates)
    BY <1>5 DEF CardEdits, Creates
  <2> HIDE DEF out
  <2> QED
    BY <1>2, <2>2, <2>3
<1>6. CASE k.kind \in {"load", "reload"}
  <2>1. out.ok = TRUE /\ out.list = store
    BY <1>6 DEF Outcome, Accepted
  <2> HIDE DEF out
  <2> QED
    BY <1>1, <1>2, <1>6, <2>1
<1>7. CASE k.kind = "reorder" /\ k.arg.ids \in Seq(Ids) /\ IsInjective(k.arg.ids)
  <2>1. \/ out.ok = FALSE /\ out.list = store
        \/ /\ out.ok = TRUE /\ out.list = Reordered(store, k.arg.ids)
           /\ SameProviders(store, k.arg.ids)
    BY <1>7 DEF Outcome, Accepted, Refused
  <2> HIDE DEF out
  <2>2. Adds(out.list, 0)
    BY <1>1, <1>7, <2>1, ReorderedFits, AddsNone
  <2> QED
    BY <1>2, <1>7, <2>1, <2>2
<1>8. CASE k.kind = "import" /\ k.arg.strategy \in {"skip", "overwrite", "duplicate"}
  <2>1. out.ok = TRUE /\ out.list = Imported(store, k.arg.strategy)
    BY <1>8 DEF Outcome, Accepted
  <2>2. made + PerAct <= Len(Fresh) /\ k.kind \in Creates
    BY <1>8 DEF Creates
  <2> HIDE DEF out
  <2>3. \E m \in 0 .. PerAct : Adds(out.list, m)
    BY <1>8, <2>1, <2>2, ImportedFits
  <2> QED
    BY <1>8, <2>1, <2>2, <2>3
<1>9. CASE k.kind = "save" /\ k.arg.who \in Ids \union {None} /\ k.arg.valid \in BOOLEAN
  <2>1. made + 1 <= Len(Fresh) /\ k.kind \in Creates
    BY <1>2, <1>3, <1>9 DEF Creates
  <2>2. \/ out.ok \in BOOLEAN /\ out.list = store /\ (out.ok => k.arg.who # None)
        \/ out.ok = TRUE /\ out.list = Created(store, NewId)
    BY <1>9 DEF Outcome, Accepted, Refused
  <2> HIDE DEF out
  <2>3. CASE out.ok \in BOOLEAN /\ out.list = store /\ (out.ok => k.arg.who # None)
    BY <1>1, <1>2, <1>9, <2>3
  <2>4. CASE out.ok = TRUE /\ out.list = Created(store, NewId)
    <3>1. NewId \in Ids /\ NewId \notin ToSet(store.order)
      BY <2>1, NewIdFits
    <3>2. /\ IsList(out.list) /\ ToSet(out.list.order) = ToSet(store.order) \union {NewId}
          /\ Last(out.list.order) = NewId
      BY <1>1, <2>4, <3>1, CreatedFits
    <3>3. Adds(out.list, 1)
      BY <2>1, <3>2, AddsOne
    <3> QED
      BY <1>2, <2>1, <2>4, <3>1, <3>2, <3>3
  <2> QED
    BY <2>2, <2>3, <2>4
<1>10. CASE k.kind = "reveal"
  <2>1. out.ok \in BOOLEAN /\ out.list = store
    BY <1>10 DEF Outcome, Accepted, Refused
  <2> HIDE DEF out
  <2> QED
    BY <1>1, <1>2, <1>10, <2>1
<1> HIDE DEF Fits
<1> QED
  BY <1>4, <1>5, <1>6, <1>7, <1>8, <1>9, <1>10 DEF KindFits

LEMMA TokensFit ==
    ASSUME ServerFits, NEW k, NEW n, NEW taken, IsCall(k, n, taken), NEW list,
           k.kind = "duplicate" \/ (k.kind = "save" /\ k.arg.who = None)
             => Last(list.order) \in Ids
    PROVE  TokensAfter(k.kind, k.arg, list) \in [Ids -> Stored]
<1>1. tokens \in [Ids -> Stored]
  BY DEF ServerFits
<1>2. \A p \in Ids, token \in Stored : [tokens EXCEPT ![p] = token] \in [Ids -> Stored]
  BY <1>1
<1>3. KindFits(k, n, taken)
  BY DEF IsCall
<1> DEFINE after == TokensAfter(k.kind, k.arg, list)
<1> SUFFICES after \in [Ids -> Stored]
  OBVIOUS
<1>4. CASE k.kind = "save" /\ k.arg.who = None /\ k.arg.token \in Stored
  <2>1. after = [tokens EXCEPT ![Last(list.order)] = k.arg.token]
    BY <1>4 DEF TokensAfter
  <2> HIDE DEF after
  <2> QED
    BY <1>2, <1>4, <2>1
<1>5. CASE k.kind = "save" /\ k.arg.who \in Ids /\ k.arg.who # None /\ k.arg.token \in Stored
  <2>1. after = IF k.arg.token # Blank THEN [tokens EXCEPT ![k.arg.who] = k.arg.token] ELSE tokens
    BY <1>5 DEF TokensAfter
  <2> HIDE DEF after
  <2> QED
    BY <1>1, <1>2, <1>5, <2>1
<1>6. CASE k.kind = "duplicate" /\ k.arg \in Ids
  <2>1. after = [tokens EXCEPT ![Last(list.order)] = tokens[k.arg]]
    BY <1>6 DEF TokensAfter
  <2>2. tokens[k.arg] \in Stored
    BY <1>1, <1>6
  <2> HIDE DEF after
  <2> QED
    BY <1>2, <1>6, <2>1, <2>2
<1>7. CASE k.kind = "import"
  <2> DEFINE set(p) == \/ p \in ToSet(list.order) \ ToSet(store.order)
                       \/ k.arg.strategy = "overwrite" /\ p \in ToSet(File)
  <2>1. after = [p \in Ids |-> IF set(p) THEN Initial ELSE tokens[p]]
    BY <1>7 DEF TokensAfter
  <2> HIDE DEF after, set
  <2>2. \A p \in Ids : (IF set(p) THEN Initial ELSE tokens[p]) \in Stored
    BY <1>1 DEF Stored
  <2> QED
    BY <2>1, <2>2
<1>8. CASE k.kind \notin {"save", "duplicate", "import"}
  <2>1. after = tokens
    BY <1>8 DEF TokensAfter
  <2> QED
    BY <1>1, <2>1
<1> HIDE DEF after
<1>9. k.kind = "save" => k.arg.who \in Ids \union {None} /\ k.arg.token \in Stored
  BY <1>3 DEF KindFits, CardEdits
<1>10. k.kind = "duplicate" => k.arg \in Ids
  BY <1>3 DEF KindFits
<1> QED
  BY <1>4, <1>5, <1>6, <1>7, <1>8, <1>9, <1>10

-----------------------------------------------------------------------------
(* The requests in flight *)

LEMMA Times ==
    /\ \A a, b, c \in Nat : a * (b + c) = a * b + a * c
    /\ \A a, b \in Nat : a * b \in Nat
    /\ \A a, b, c \in Nat : b <= c => a * b <= a * c
    /\ \A a \in Nat : a * 0 = 0 /\ a * 1 = a
<1>1. \A a, b, c \in Nat : a * (b + c) = a * b + a * c
  OBVIOUS
<1>2. \A a, b \in Nat : a * b \in Nat
  OBVIOUS
<1>3. ASSUME NEW a \in Nat, NEW b \in Nat, NEW c \in Nat, b <= c
      PROVE  a * b <= a * c
  <2>1. PICK d \in Nat : c = b + d
    <3>1. c - b \in Nat /\ c = b + (c - b)
      BY <1>3
    <3> QED
      BY <3>1
  <2>2. a * c = a * b + a * d /\ a * b \in Nat /\ a * d \in Nat
    BY <1>1, <1>2, <2>1
  <2> QED
    BY <2>2
<1>4. \A a \in Nat : a * 0 = 0 /\ a * 1 = a
  OBVIOUS
<1> QED
  BY <1>1, <1>2, <1>3, <1>4

LEMMA CreatingCounted ==
    ASSUME NEW f
    PROVE  IsFiniteSet(Creating(f)) /\ Cardinality(Creating(f)) \in Nat
<1>1. IsFiniteSet(Calls)
  BY Constants, FS_Interval DEF Calls
<1>2. Creating(f) \in SUBSET Calls
  BY DEF Creating
<1> QED
  BY <1>1, <1>2, FS_Subset, FS_CardinalityType

\* One request becomes another.
LEMMA CreatingReplaced ==
    ASSUME NEW f, f = [c \in Calls |-> f[c]], NEW c \in Calls, NEW k
    PROVE  LET g == [f EXCEPT ![c] = k]
           IN  /\ Cardinality(Creating(g)) <= Cardinality(Creating(f)) + 1
               /\ ~ IsCreating(k) => Cardinality(Creating(g)) <= Cardinality(Creating(f))
               /\ IsCreating(f[c]) /\ ~ IsCreating(k) =>
                     Cardinality(Creating(g)) + 1 <= Cardinality(Creating(f))
<1> DEFINE g == [f EXCEPT ![c] = k]
           F == Creating(f)
           G == Creating(g)
<1>1. \A d \in Calls : g[d] = IF d = c THEN k ELSE f[d]
  OBVIOUS
<1> HIDE DEF g
<1>2. \A d : d \in F <=> d \in Calls /\ IsCreating(f[d])
  BY DEF Creating
<1>3. \A d : d \in G <=> d \in Calls /\ IsCreating(g[d])
  BY DEF Creating
<1>4. /\ IsFiniteSet(F) /\ Cardinality(F) \in Nat
      /\ IsFiniteSet(G) /\ Cardinality(G) \in Nat
  BY CreatingCounted
<1> HIDE DEF F, G
<1> DEFINE plus == F \union {c}
           less == F \ {c}
<1>5. /\ IsFiniteSet(plus) /\ Cardinality(plus) \in Nat
      /\ Cardinality(plus) <= Cardinality(F) + 1
  <2>1. IsFiniteSet(plus) /\ Cardinality(plus) = IF c \in F THEN Cardinality(F) ELSE Cardinality(F) + 1
    BY <1>4, FS_AddElement
  <2> HIDE DEF plus
  <2> QED
    BY <2>1, <1>4
<1>6. /\ IsFiniteSet(less) /\ Cardinality(less) \in Nat
      /\ Cardinality(less) <= Cardinality(F)
      /\ c \in F => Cardinality(less) + 1 <= Cardinality(F)
  <2>1. IsFiniteSet(less) /\ Cardinality(less) = IF c \in F THEN Cardinality(F) - 1 ELSE Cardinality(F)
    BY <1>4, FS_RemoveElement
  <2>2. Cardinality(less) \in Nat
    BY <2>1, FS_CardinalityType
  <2> HIDE DEF less
  <2> QED
    BY <2>1, <2>2, <1>4
<1>7. G \in SUBSET plus /\ (~ IsCreating(k) => G \in SUBSET less)
  <2>1. \A d \in G : d \in F \/ (d = c /\ IsCreating(k))
    BY <1>1, <1>2, <1>3
  <2>2. c \in G => IsCreating(k)
    BY <1>1, <1>3
  <2> QED
    BY <2>1, <2>2
<1> HIDE DEF plus, less
<1>8. Cardinality(G) <= Cardinality(plus)
  BY <1>5, <1>7, FS_Subset
<1>9. ~ IsCreating(k) => Cardinality(G) <= Cardinality(less)
  BY <1>6, <1>7, FS_Subset
<1>10. IsCreating(f[c]) => c \in F
  BY <1>2
<1>11. Cardinality(G) <= Cardinality(F) + 1
  BY <1>4, <1>5, <1>8
<1>12. ~ IsCreating(k) => Cardinality(G) <= Cardinality(F)
  BY <1>4, <1>6, <1>9
<1>13. IsCreating(f[c]) /\ ~ IsCreating(k) => Cardinality(G) + 1 <= Cardinality(F)
  BY <1>4, <1>6, <1>9, <1>10
<1> QED
  BY <1>11, <1>12, <1>13 DEF F, G, g

\* Ids are used, or promised to a request, at most once for each act.
LEMMA IdsStillLast ==
    ASSUME made \in Nat, made' \in Nat, acts \in Nat, acts' \in Nat, acts <= acts', IdsLast,
           NEW x \in Nat, made' <= made + PerAct * x,
           Cardinality(Creating(calls')) + x <= Cardinality(Creating(calls)) + (acts' - acts)
    PROVE  IdsLast'
<1> DEFINE n == Cardinality(Creating(calls))
           m == Cardinality(Creating(calls'))
           P == PerAct
<1>1. n \in Nat /\ m \in Nat /\ P \in Nat
  BY CreatingCounted, Constants
<1>2. made + P * n <= P * acts /\ made' <= made + P * x /\ m + x <= n + (acts' - acts)
  BY DEF IdsLast
<1> HIDE DEF n, m, P
<1>3. PICK more \in Nat : acts' = acts + more
  <2>1. \A a, b \in Nat : a <= b => b - a \in Nat /\ b = a + (b - a)
    OBVIOUS
  <2>2. acts' - acts \in Nat /\ acts' = acts + (acts' - acts)
    BY <2>1
  <2> QED
    BY <2>2
<1>4. m + x <= n + more
  BY <1>1, <1>2, <1>3
<1>5. P * (m + x) <= P * (n + more)
  BY <1>1, <1>4, Times
<1>6. /\ P * (m + x) = P * m + P * x
      /\ P * (n + more) = P * n + P * more
      /\ P * acts' = P * acts + P * more
  BY <1>1, <1>3, Times
<1>7. P * m \in Nat /\ P * x \in Nat /\ P * n \in Nat /\ P * more \in Nat /\ P * acts \in Nat
  BY <1>1, Times
<1>8. made' + P * m <= P * acts'
  BY <1>2, <1>5, <1>6, <1>7
<1> QED
  BY <1>8 DEF IdsLast, m, P

\* Room for one more request that creates.
LEMMA Room ==
    ASSUME made \in Nat, acts \in 0 .. MaxActs, IdsLast,
           acts < MaxActs \/ Creating(calls) # {}
    PROVE  made + PerAct <= Len(Fresh)
<1> DEFINE n == Cardinality(Creating(calls))
           P == PerAct
<1>1. n \in Nat /\ IsFiniteSet(Creating(calls))
  BY CreatingCounted
<1>2. P \in Nat /\ MaxActs \in Nat /\ MaxActs * P <= Len(Fresh) /\ Len(Fresh) \in Nat
  BY Constants
<1>3. made + P * n <= P * acts
  BY DEF IdsLast
<1>4. Creating(calls) # {} => n # 0
  BY <1>1, FS_EmptySet
<1> HIDE DEF n, P
<1>5. /\ P * n \in Nat /\ P * acts \in Nat /\ P * MaxActs \in Nat
      /\ P * acts <= P * MaxActs /\ P * 1 = P
  BY <1>1, <1>2, Times
<1>6. P * MaxActs = MaxActs * P
  BY <1>2
<1>7. CASE acts < MaxActs
  <2>1. acts + 1 \in Nat /\ acts + 1 <= MaxActs
    BY <1>2, <1>7
  <2>2. P * (acts + 1) <= P * MaxActs /\ P * (acts + 1) = P * acts + P * 1
    BY <1>2, <2>1, Times
  <2> QED
    BY <1>2, <1>3, <1>5, <1>6, <2>2 DEF P
<1>8. CASE Creating(calls) # {}
  <2>1. 1 <= n
    BY <1>1, <1>4, <1>8
  <2>2. P * 1 <= P * n
    BY <1>1, <1>2, <2>1, Times
  <2> QED
    BY <1>2, <1>3, <1>5, <1>6, <2>2 DEF P
<1> QED
  BY <1>7, <1>8

LEMMA CallGrows ==
    ASSUME NEW k, NEW m \in Nat, NEW n \in Nat, m <= n, NEW D, NEW E, D \subseteq E,
           IsCall(k, m, D)
    PROVE  IsCall(k, n, E)
<1>1. \A i \in 1 .. m : i \in 1 .. n
  OBVIOUS
<1>2. KindFits(k, m, D)
  BY DEF IsCall
<1>3. CASE k.kind = "save"
  <2>1. /\ k.arg.number \in 1 .. m /\ k.arg.who \in Ids \union {None}
        /\ k.arg.token \in Stored /\ k.arg.valid \in BOOLEAN
        /\ k.stage = "done" => k.arg.number \in D
    BY <1>2, <1>3 DEF KindFits, CardEdits
  <2>2. KindFits(k, n, E)
    BY <1>1, <1>3, <2>1 DEF KindFits
  <2> QED
    BY <2>2 DEF IsCall
<1>4. CASE k.kind # "save"
  <2>1. KindFits(k, n, E)
    BY <1>2, <1>4 DEF KindFits
  <2> QED
    BY <2>1 DEF IsCall
<1> QED
  BY <1>3, <1>4

LEMMA CallMade ==
    ASSUME NEW kind, NEW arg, NEW n, NEW taken, KindFits(Call(kind, arg), n, taken)
    PROVE  IsCall(Call(kind, arg), n, taken)
BY DEF Call, IsCall

LEMMA LoadMade ==
    ASSUME NEW n, NEW taken, NEW kind \in {"load", "reload"}
    PROVE  IsCall(Call(kind, None), n, taken) /\ ~ IsCreating(Call(kind, None))
<1>1. KindFits(Call(kind, None), n, taken)
  BY DEF KindFits, Call
<1>2. ~ IsCreating(Call(kind, None))
  BY DEF IsCreating, Call, Creates
<1> QED
  BY <1>1, <1>2, CallMade

LEMMA CallsReplaced ==
    ASSUME CallsFit, acts \in Nat, acts' \in Nat, acts <= acts', stored \subseteq stored',
           NEW c \in Calls, NEW k, k = Idle \/ IsCall(k, acts', stored'),
           calls' = [calls EXCEPT ![c] = k]
    PROVE  CallsFit'
<1>1. \A d \in Calls : calls'[d] = IF d = c THEN k ELSE calls[d]
  BY DEF CallsFit
<1>2. calls' = [d \in Calls |-> calls'[d]]
  BY DEF CallsFit
<1>3. ASSUME NEW d \in Calls PROVE calls'[d] = Idle \/ IsCall(calls'[d], acts', stored')
  <2>1. CASE d = c
    BY <1>1, <2>1
  <2>2. CASE d # c
    <3>1. calls'[d] = calls[d] /\ (calls[d] = Idle \/ IsCall(calls[d], acts, stored))
      BY <1>1, <2>2 DEF CallsFit
    <3> QED
      BY <3>1, CallGrows
  <2> QED
    BY <2>1, <2>2
<1> QED
  BY <1>2, <1>3 DEF CallsFit

LEMMA CallsStay ==
    ASSUME CallsFit, acts \in Nat, acts' \in Nat, acts <= acts', stored \subseteq stored',
           calls' = calls
    PROVE  CallsFit'
<1>1. calls' = [d \in Calls |-> calls'[d]]
  BY DEF CallsFit
<1>2. ASSUME NEW d \in Calls PROVE calls'[d] = Idle \/ IsCall(calls'[d], acts', stored')
  <2>1. calls'[d] = calls[d] /\ (calls[d] = Idle \/ IsCall(calls[d], acts, stored))
    BY DEF CallsFit
  <2> QED
    BY <2>1, CallGrows
<1> QED
  BY <1>1, <1>2 DEF CallsFit

LEMMA ServerStays ==
    ASSUME ServerFits, UNCHANGED serverVars
    PROVE  ServerFits' /\ made \in Nat /\ made' = made
<1>1. store' = store /\ made' = made /\ tokens' = tokens
  BY DEF serverVars
<1>2. made \in Nat
  BY Constants DEF ServerFits
<1>3. IsList(store') /\ made' \in 0 .. Len(Fresh) /\ tokens' \in [Ids -> Stored]
  BY <1>1 DEF ServerFits
<1>4. Unused(store'.order, made')
  BY <1>1 DEF ServerFits
<1> QED
  BY <1>1, <1>2, <1>3, <1>4 DEF ServerFits

\* A step that leaves the server and the requests alone.
LEMMA Rests ==
    ASSUME ListIInv, UNCHANGED <<serverVars, stored, calls>>, acts' \in {acts, acts + 1}
    PROVE  ServerFits' /\ IdsLast' /\ CallsFit'
<1>1. ServerFits' /\ made \in Nat /\ made' = made
  BY ServerStays DEF ListIInv
<1>2. acts \in Nat /\ acts' \in Nat /\ acts <= acts'
  BY Constants DEF ListIInv, CardsFit
<1>3. CallsFit'
  BY <1>2, CallsStay DEF ListIInv
<1>4. Cardinality(Creating(calls)) \in Nat /\ Creating(calls') = Creating(calls)
  BY CreatingCounted
<1>5. /\ made' <= made + PerAct * 0
      /\ Cardinality(Creating(calls')) + 0 <= Cardinality(Creating(calls)) + (acts' - acts)
  BY <1>1, <1>2, <1>4, Constants
<1>6. IdsLast'
  BY <1>1, <1>2, <1>5, IdsStillLast DEF ListIInv
<1> QED
  BY <1>1, <1>3, <1>6

\* A request becomes one that uses no ids, or is over.
LEMMA Ends ==
    ASSUME ListIInv, UNCHANGED <<serverVars, stored, acts>>, NEW c \in Calls, NEW k,
           k = Idle \/ IsCall(k, acts, stored), ~ IsCreating(k),
           calls' = [calls EXCEPT ![c] = k]
    PROVE  ServerFits' /\ IdsLast' /\ CallsFit'
<1>1. ServerFits' /\ made \in Nat /\ made' = made
  BY ServerStays DEF ListIInv
<1>2. /\ acts \in Nat /\ acts' = acts /\ stored' = stored
      /\ acts' \in Nat /\ acts <= acts' /\ stored \subseteq stored'
      /\ k = Idle \/ IsCall(k, acts', stored')
  BY Constants DEF ListIInv, CardsFit
<1>3. CallsFit'
  BY <1>2, CallsReplaced DEF ListIInv
<1>4. calls = [d \in Calls |-> calls[d]]
  BY DEF ListIInv, CallsFit
<1>5. Cardinality(Creating(calls')) <= Cardinality(Creating(calls))
  BY <1>4, CreatingReplaced
<1>6. Cardinality(Creating(calls)) \in Nat /\ Cardinality(Creating(calls')) \in Nat
  BY CreatingCounted
<1>7. /\ made' <= made + PerAct * 0
      /\ Cardinality(Creating(calls')) + 0 <= Cardinality(Creating(calls)) + (acts' - acts)
  BY <1>1, <1>2, <1>5, <1>6, Constants
<1>8. IdsLast'
  BY <1>1, <1>2, <1>7, IdsStillLast DEF ListIInv
<1> QED
  BY <1>1, <1>3, <1>8

\* A request is sent, which counts as an act if it may use ids.
LEMMA Starts ==
    ASSUME ListIInv, UNCHANGED <<serverVars, stored>>, NEW k, IsCall(k, acts', stored),
           Start(k), acts' = acts + 1 \/ (acts' = acts /\ ~ IsCreating(k))
    PROVE  /\ ServerFits' /\ IdsLast' /\ CallsFit'
           /\ \A c \in Calls : calls[c] # Idle => calls'[c] = calls[c]
<1> DEFINE free == {c \in Calls : calls[c] = Idle}
<1>1. ServerFits' /\ made \in Nat /\ made' = made
  BY ServerStays DEF ListIInv
<1>2. acts \in Nat /\ acts' \in Nat /\ acts <= acts' /\ stored' = stored
  BY Constants DEF ListIInv, CardsFit
<1>3. free # {} /\ calls' = [calls EXCEPT ![Min(free)] = k]
  BY DEF Start
<1>4. free \in SUBSET Nat
  BY Constants DEF Calls
<1>5. \A c \in free : c \in Calls /\ calls[c] = Idle
  OBVIOUS
<1> HIDE DEF free
<1>6. Min(free) \in free
  BY <1>3, <1>4, Least
<1>7. PICK c \in Calls : calls[c] = Idle /\ calls' = [calls EXCEPT ![c] = k]
  BY <1>3, <1>5, <1>6
<1>8. CallsFit'
  BY <1>2, <1>7, CallsReplaced DEF ListIInv
<1>9. calls = [d \in Calls |-> calls[d]]
  BY DEF ListIInv, CallsFit
<1>10. /\ Cardinality(Creating(calls')) <= Cardinality(Creating(calls)) + 1
       /\ ~ IsCreating(k) => Cardinality(Creating(calls')) <= Cardinality(Creating(calls))
  BY <1>7, <1>9, CreatingReplaced
<1>11. Cardinality(Creating(calls)) \in Nat /\ Cardinality(Creating(calls')) \in Nat
  BY CreatingCounted
<1>12. /\ made' <= made + PerAct * 0
       /\ Cardinality(Creating(calls')) + 0 <= Cardinality(Creating(calls)) + (acts' - acts)
  BY <1>1, <1>2, <1>10, <1>11, Constants
<1>13. IdsLast'
  BY <1>1, <1>2, <1>12, IdsStillLast DEF ListIInv
<1>14. \A d \in Calls : calls[d] # Idle => calls'[d] = calls[d]
  BY <1>7, <1>9
<1> QED
  BY <1>1, <1>8, <1>13, <1>14

LEMMA FormStays ==
    ASSUME FormFits, acts \in Nat, acts' \in {acts, acts + 1}, UNCHANGED formVars
    PROVE  FormFits'
<1>1. form' = form /\ closing' = closing /\ stored' = stored
  BY DEF formVars
<1>2. \A i \in 1 .. acts : i \in 1 .. acts'
  OBVIOUS
<1>3. IsForm(form', acts')
  BY <1>1, <1>2 DEF FormFits, IsForm
<1>4. closing' \subseteq stored' /\ stored' \subseteq 1 .. acts'
  BY <1>1, <1>2 DEF FormFits
<1> QED
  BY <1>3, <1>4 DEF FormFits

\* Only the act is counted.
LEMMA CardsStay ==
    ASSUME CardsFit, UNCHANGED <<shownVars, pageVars, preview, fails>>,
           acts' = acts \/ (acts < MaxActs /\ acts' = acts + 1)
    PROVE  CardsFit' /\ acts \in Nat /\ acts' \in {acts, acts + 1}
<1>1. acts \in Nat /\ acts' \in 0 .. MaxActs
  BY Constants DEF CardsFit
<1> QED
  BY <1>1 DEF CardsFit, shownVars, pageVars

-----------------------------------------------------------------------------
(* The actions of the page *)

\* A button that only sends a request.
LEMMA OnlySends ==
    ASSUME ListIInv, UNCHANGED <<serverVars, shownVars, formVars, preview, pageVars, fails>>,
           NEW k, Start(k), IsCall(k, acts', stored),
           \/ acts < MaxActs /\ acts' = acts + 1
           \/ acts' = acts /\ ~ IsCreating(k)
    PROVE  ListIInv'
<1>1. CardsFit' /\ acts \in Nat /\ acts' \in {acts, acts + 1}
  BY CardsStay DEF ListIInv
<1>2. FormFits'
  BY <1>1, FormStays DEF ListIInv
<1>3. UNCHANGED <<serverVars, stored>>
  BY DEF formVars
<1>4. ServerFits' /\ IdsLast' /\ CallsFit'
  BY <1>3, Starts
<1> QED
  BY <1>1, <1>2, <1>4 DEF ListIInv

LEMMA EditCardKeeps ==
    ASSUME ListIInv, NEW kind \in CardEdits, NEW p \in Ids, EditCard(kind, p)
    PROVE  ListIInv'
<1> DEFINE k == Call(kind, p)
<1>1. acts < MaxActs /\ acts' = acts + 1 /\ UNCHANGED fails /\ Start(k)
  BY DEF EditCard, Act
<1>2. UNCHANGED <<serverVars, shownVars, formVars, preview, pageVars>>
  BY DEF EditCard
<1>3. KindFits(k, acts', stored)
  BY DEF KindFits, Call
<1>4. IsCall(k, acts', stored)
  BY <1>3, CallMade
<1> HIDE DEF k
<1> QED
  BY <1>1, <1>2, <1>4, OnlySends

\* The order that is shown has every card once, whatever the indices were.
LEMMA ReorderToKeeps ==
    ASSUME ListIInv, NEW from \in Nat \ {0}, NEW to \in DOMAIN providers.order,
           ReorderTo(from, to), UNCHANGED <<serverVars, stored>>,
           acts' \in {acts, acts + 1}
    PROVE  ServerFits' /\ IdsLast' /\ CallsFit' /\ IsList(providers')
<1> DEFINE order == providers.order
<1>1. /\ order \in Seq(Ids) /\ IsInjective(order) /\ IsList(providers)
      /\ providers.default \in Ids \union {None} /\ providers.off \subseteq ToSet(order)
  BY ListParts DEF ListIInv, CardsFit
<1>2. DOMAIN order = 1 .. Len(order) /\ Len(order) \in Nat
  BY <1>1, OfSeq
<1>3. CASE UNCHANGED <<providers, calls>>
  BY <1>1, <1>3, Rests
<1>4. CASE ~ (from = to \/ from > Len(order))
  <2> DEFINE moved == Moved(order, from, to)
             k == Call("reorder", [ids |-> providers'.order, original |-> providers])
  <2>1. providers' = [providers EXCEPT !.order = moved] /\ Start(k)
    BY <1>4 DEF ReorderTo
  <2>2. from \in 1 .. Len(order) /\ to \in 1 .. Len(order)
    BY <1>2, <1>4
  <2>3. moved \in Seq(Ids) /\ IsInjective(moved) /\ ToSet(moved) = ToSet(order)
    BY <1>1, <2>2, MovedKeeps
  <2> DEFINE d == providers.default
             off == providers.off
  <2>4. providers = Listing(order, d, off)
    BY <1>1, ListParts
  <2> HIDE DEF moved
  <2>5. providers' = Listing(moved, d, off)
    BY <2>1, <2>4 DEF Listing
  <2>6. /\ moved \in Seq(Ids) /\ IsInjective(moved) /\ d \in Ids \union {None}
        /\ off \subseteq ToSet(moved)
    BY <1>1, <2>3
  <2> HIDE DEF d, off
  <2>7. IsList(Listing(moved, d, off)) /\ Listing(moved, d, off).order = moved
    <3>1. IsList(Listing(moved, d, off))
      BY <2>6, ListMade
    <3>2. Listing(moved, d, off).order = moved
      BY DEF Listing
    <3> QED
      BY <3>1, <3>2
  <2>8. IsList(providers') /\ providers'.order = moved
    BY <2>5, <2>7
  <2>9. KindFits(k, acts', stored) /\ ~ IsCreating(k)
    <3>1. /\ k.kind = "reorder" /\ k.stage = "sent"
          /\ k.arg.ids = moved /\ k.arg.original = providers
      BY <2>8 DEF Call
    <3> HIDE DEF k
    <3>2. KindFits(k, acts', stored)
      BY <3>1, <2>6, <1>1 DEF KindFits
    <3>3. ~ IsCreating(k)
      BY <3>1 DEF IsCreating, Creates
    <3> QED
      BY <3>2, <3>3
  <2>10. IsCall(k, acts', stored)
    BY <2>9, CallMade
  <2> HIDE DEF k
  <2>11. ServerFits' /\ IdsLast' /\ CallsFit'
    BY <2>1, <2>9, <2>10, Starts
  <2> QED
    BY <2>8, <2>11
<1> QED
  BY <1>3, <1>4 DEF ReorderTo

LEMMA IdsCounted == Cardinality(Ids) \in Nat
<1> DEFINE all == First \o File \o Fresh
<1>1. all \in Seq(Ids)
  BY Constants, ConcatProperties
<1>2. Ids = ToSet(all) /\ Len(all) \in Nat
  BY <1>1, LenProperties DEF Ids
<1> HIDE DEF all
<1>3. Cardinality(Ids) \in 0 .. Len(all)
  BY <1>1, <1>2, MembersCounted
<1> QED
  BY <1>2, <1>3

LEMMA GrabKeeps ==
    ASSUME ListIInv, NEW i \in 1 .. Cardinality(Ids), Grab(i)
    PROVE  ListIInv'
<1>1. acts < MaxActs /\ acts' = acts + 1 /\ fails' = fails /\ drag' = i
  BY DEF Grab, Act
<1>2. UNCHANGED <<serverVars, shownVars, formVars, preview, tab, timer, calls>>
  BY DEF Grab
<1>3. acts \in Nat /\ acts' \in {acts, acts + 1} /\ acts' \in 0 .. MaxActs
  BY <1>1, Constants DEF ListIInv, CardsFit
<1>4. CardsFit'
  BY <1>1, <1>2, <1>3 DEF ListIInv, CardsFit, shownVars
<1>5. FormFits'
  BY <1>2, <1>3, FormStays DEF ListIInv
<1>6. ServerFits' /\ IdsLast' /\ CallsFit'
  BY <1>2, <1>3, Rests DEF formVars
<1> QED
  BY <1>4, <1>5, <1>6 DEF ListIInv

LEMMA DropOnKeeps ==
    ASSUME ListIInv, NEW i, DropOn(i)
    PROVE  ListIInv'
<1>1. /\ drag # 0 /\ i \in DOMAIN providers.order /\ drag' = 0 /\ ReorderTo(drag, i)
      /\ UNCHANGED <<serverVars, active, formVars, preview, tab, timer, acts, fails>>
  BY DEF DropOn, bounds
<1>2. drag \in Nat \ {0} /\ 0 \in 0 .. Cardinality(Ids) /\ acts \in Nat
  BY <1>1, Constants, IdsCounted DEF ListIInv, CardsFit
<1>3. ServerFits' /\ IdsLast' /\ CallsFit' /\ IsList(providers')
  BY <1>1, <1>2, ReorderToKeeps DEF formVars
<1>4. CardsFit'
  BY <1>1, <1>2, <1>3 DEF ListIInv, CardsFit
<1>5. FormFits'
  BY <1>1, <1>2, FormStays DEF ListIInv
<1> QED
  BY <1>3, <1>4, <1>5 DEF ListIInv

LEMMA DragEndKeeps ==
    ASSUME ListIInv, DragEnd
    PROVE  ListIInv'
<1>1. /\ drag' = 0
      /\ UNCHANGED <<serverVars, shownVars, formVars, preview, tab, timer, calls, acts, fails>>
  BY DEF DragEnd, bounds
<1>2. 0 \in 0 .. Cardinality(Ids) /\ acts \in Nat
  BY Constants, IdsCounted DEF ListIInv, CardsFit
<1>3. CardsFit'
  BY <1>1, <1>2 DEF ListIInv, CardsFit, shownVars
<1>4. FormFits'
  BY <1>1, <1>2, FormStays DEF ListIInv
<1>5. ServerFits' /\ IdsLast' /\ CallsFit'
  BY <1>1, Rests DEF formVars
<1> QED
  BY <1>3, <1>4, <1>5 DEF ListIInv

LEMMA MoveCardKeeps ==
    ASSUME ListIInv, NEW i, NEW j, MoveCard(i, j)
    PROVE  ListIInv'
<1>1. /\ i \in DOMAIN providers.order /\ j \in DOMAIN providers.order
      /\ acts < MaxActs /\ acts' = acts + 1 /\ fails' = fails /\ ReorderTo(i, j)
      /\ UNCHANGED <<serverVars, active, formVars, preview, pageVars>>
  BY DEF MoveCard, Act
<1>2. i \in Nat \ {0}
  <2>1. providers.order \in Seq(Ids)
    BY ListParts DEF ListIInv, CardsFit
  <2>2. DOMAIN providers.order = 1 .. Len(providers.order)
    BY <2>1, OfSeq
  <2> QED
    BY <1>1, <2>2
<1>3. acts \in Nat /\ acts' \in {acts, acts + 1} /\ acts' \in 0 .. MaxActs
  BY <1>1, Constants DEF ListIInv, CardsFit
<1>4. ServerFits' /\ IdsLast' /\ CallsFit' /\ IsList(providers')
  BY <1>1, <1>2, <1>3, ReorderToKeeps DEF formVars
<1>5. CardsFit'
  BY <1>1, <1>3, <1>4 DEF ListIInv, CardsFit, pageVars
<1>6. FormFits'
  BY <1>1, <1>3, FormStays DEF ListIInv
<1> QED
  BY <1>4, <1>5, <1>6 DEF ListIInv

LEMMA OpenFormKeeps ==
    ASSUME ListIInv, NEW who \in Ids \union {None}, OpenForm(who)
    PROVE  ListIInv'
<1>1. /\ acts < MaxActs /\ acts' = acts + 1 /\ fails' = fails
      /\ form' = [number |-> acts', who |-> who, revealed |-> FALSE,
                  token |-> IF who = None \/ tokens[who] = Blank THEN Blank ELSE Mask]
      /\ UNCHANGED <<serverVars, shownVars, closing, stored, preview, pageVars, calls>>
  BY DEF OpenForm, Act
<1>2. CardsFit' /\ acts \in Nat /\ acts' \in {acts, acts + 1}
  BY <1>1, CardsStay DEF ListIInv
<1>3. ServerFits' /\ IdsLast' /\ CallsFit'
  BY <1>1, <1>2, Rests
<1>4. IsForm(form', acts')
  <2>1. acts' \in Nat /\ acts' \in 1 .. acts'
    BY <1>1, <1>2
  <2>2. (IF who = None \/ tokens[who] = Blank THEN Blank ELSE Mask)
           \in Stored \union {Mask, Undefined}
    BY DEF Stored
  <2>3. form' \in [number : Nat, who : Ids \union {None}, revealed : BOOLEAN,
                   token : Stored \union {Mask, Undefined}]
    BY <1>1, <2>1, <2>2
  <2>4. form'.number = acts'
    BY <1>1
  <2> QED
    BY <2>1, <2>3, <2>4 DEF IsForm
<1>5. closing' \subseteq stored' /\ stored' \subseteq 1 .. acts'
  BY <1>1, <1>2 DEF ListIInv, FormFits
<1> QED
  BY <1>2, <1>3, <1>4, <1>5 DEF ListIInv, FormFits

\* A step that changes the form, and not what is saved of it.
LEMMA FormChanges ==
    ASSUME FormFits, acts \in Nat, acts' = acts, stored' = stored,
           closing' \subseteq closing, IsForm(form', acts)
    PROVE  FormFits'
BY DEF FormFits

LEMMA TypedFits ==
    ASSUME NEW f, NEW n, IsForm(f, n), f.number # 0 \/ f # NoForm,
           NEW token \in Stored \union {Mask, Undefined}, NEW g,
           g = [f EXCEPT !.token = token] \/ g = [f EXCEPT !.token = token, !.revealed = TRUE]
    PROVE  IsForm(g, n) /\ g.number = f.number
<1>1. f.number \in 1 .. n
  BY DEF IsForm, NoForm
<1>2. f \in [number : Nat, who : Ids \union {None}, token : Stored \union {Mask, Undefined},
             revealed : BOOLEAN]
  BY DEF IsForm
<1>3. CASE g = [f EXCEPT !.token = token]
  BY <1>1, <1>2, <1>3 DEF IsForm
<1>4. CASE g = [f EXCEPT !.token = token, !.revealed = TRUE]
  <2> DEFINE h == [f EXCEPT !.token = token]
  <2>1. h \in [number : Nat, who : Ids \union {None}, token : Stored \union {Mask, Undefined},
               revealed : BOOLEAN] /\ h.number = f.number
    BY <1>2
  <2>2. g = [h EXCEPT !.revealed = TRUE]
    BY <1>4
  <2> HIDE DEF h
  <2>3. g \in [number : Nat, who : Ids \union {None}, token : Stored \union {Mask, Undefined},
               revealed : BOOLEAN] /\ g.number = h.number
    BY <2>1, <2>2
  <2> QED
    BY <1>1, <2>1, <2>3 DEF IsForm
<1> QED
  BY <1>3, <1>4

LEMMA TypeTokenKeeps ==
    ASSUME ListIInv, TypeToken
    PROVE  ListIInv'
<1>1. /\ form # NoForm /\ form' = [form EXCEPT !.token = Typed]
      /\ UNCHANGED <<serverVars, shownVars, closing, stored, preview, pageVars, calls,
                     acts, fails>>
  BY DEF TypeToken, bounds
<1>2. CardsFit' /\ acts \in Nat
  BY <1>1, CardsStay DEF ListIInv
<1>3. ServerFits' /\ IdsLast' /\ CallsFit'
  BY <1>1, Rests
<1>4. Typed \in Stored \union {Mask, Undefined} /\ IsForm(form, acts)
  BY DEF Stored, ListIInv, FormFits
<1>5. IsForm(form', acts)
  BY <1>1, <1>4, TypedFits
<1>6. FormFits'
  BY <1>1, <1>2, <1>5, FormChanges DEF ListIInv
<1> QED
  BY <1>2, <1>3, <1>6 DEF ListIInv

LEMMA RevealTokenKeeps ==
    ASSUME ListIInv, RevealToken
    PROVE  ListIInv'
<1> DEFINE k == Call("reveal", [number |-> form.number, who |-> form.who])
<1>1. /\ form.who # None /\ Start(k)
      /\ UNCHANGED <<serverVars, shownVars, formVars, preview, pageVars, acts, fails>>
  BY DEF RevealToken, bounds
<1>2. form.who \in Ids /\ form.number \in Nat \ {0}
  BY <1>1 DEF ListIInv, FormFits, IsForm, NoForm
<1>3. /\ k.kind = "reveal" /\ k.stage = "sent"
      /\ k.arg.number = form.number /\ k.arg.who = form.who
  BY DEF Call
<1>4. KindFits(k, acts', stored) => IsCall(k, acts', stored)
  BY CallMade
<1> HIDE DEF k
<1>5. KindFits(k, acts', stored) /\ ~ IsCreating(k)
  BY <1>2, <1>3 DEF KindFits, IsCreating, Creates
<1> QED
  BY <1>1, <1>4, <1>5, OnlySends

LEMMA SaveFormKeeps ==
    ASSUME ListIInv, SaveForm
    PROVE  ListIInv'
<1>1. PICK valid \in BOOLEAN :
         Start(Call("save", [number |-> form.number, who |-> form.who,
                             token |-> Payload(form.token), valid |-> valid]))
  BY DEF SaveForm
<1> DEFINE k == Call("save", [number |-> form.number, who |-> form.who,
                              token |-> Payload(form.token), valid |-> valid])
<1>2. /\ form # NoForm /\ form.token # Undefined
      /\ acts < MaxActs /\ acts' = acts + 1 /\ Start(k)
      /\ UNCHANGED <<serverVars, shownVars, formVars, preview, pageVars, fails>>
  BY <1>1 DEF SaveForm, Act
<1>3. /\ form.who \in Ids \union {None} /\ form.number \in 1 .. acts
      /\ form.token \in Stored \union {Mask}
  BY <1>2 DEF ListIInv, FormFits, IsForm
<1>4. Payload(form.token) \in Stored /\ form.number \in 1 .. acts'
  <2>1. acts \in Nat
    BY Constants DEF ListIInv, CardsFit
  <2> QED
    BY <1>2, <1>3, <2>1 DEF Payload, Stored
<1>5. /\ k.kind = "save" /\ k.stage = "sent" /\ k.arg.valid = valid
      /\ k.arg.number = form.number /\ k.arg.who = form.who
      /\ k.arg.token = Payload(form.token)
  BY DEF Call
<1>6. KindFits(k, acts', stored) => IsCall(k, acts', stored)
  BY CallMade
<1> HIDE DEF k
<1>7. KindFits(k, acts', stored)
  BY <1>3, <1>4, <1>5 DEF KindFits
<1> QED
  BY <1>2, <1>6, <1>7, OnlySends

LEMMA CloseFormKeeps ==
    ASSUME ListIInv, CloseForm
    PROVE  ListIInv'
<1>1. /\ form' = NoForm
      /\ UNCHANGED <<serverVars, shownVars, closing, stored, preview, pageVars, calls,
                     acts, fails>>
  BY DEF CloseForm, bounds
<1>2. CardsFit' /\ acts \in Nat
  BY <1>1, CardsStay DEF ListIInv
<1>3. ServerFits' /\ IdsLast' /\ CallsFit'
  BY <1>1, Rests
<1>4. IsForm(NoForm, acts)
  BY DEF IsForm, NoForm, Stored
<1>5. FormFits'
  BY <1>1, <1>2, <1>4, FormChanges DEF ListIInv
<1> QED
  BY <1>2, <1>3, <1>5 DEF ListIInv

LEMMA ReportSavedKeeps ==
    ASSUME ListIInv, NEW n, ReportSaved(n)
    PROVE  ListIInv'
<1>1. /\ closing' = closing \ {n}
      /\ \/ form' = NoForm /\ Start(Load)
         \/ form' = form /\ calls' = calls
      /\ UNCHANGED <<serverVars, shownVars, stored, preview, pageVars, acts, fails>>
  BY DEF ReportSaved, bounds
<1>2. CardsFit' /\ acts \in Nat
  BY <1>1, CardsStay DEF ListIInv
<1>3. IsForm(NoForm, acts) /\ IsForm(form, acts)
  BY DEF IsForm, NoForm, Stored, ListIInv, FormFits
<1>4. FormFits'
  BY <1>1, <1>2, <1>3, FormChanges DEF ListIInv
<1>5. CASE Start(Load)
  <2>1. IsCall(Load, acts', stored) /\ ~ IsCreating(Load)
    BY LoadMade DEF Load
  <2> QED
    BY <1>1, <1>2, <1>4, <1>5, <2>1, Starts DEF ListIInv
<1>6. CASE calls' = calls
  BY <1>1, <1>2, <1>4, <1>6, Rests DEF ListIInv
<1> QED
  BY <1>1, <1>5, <1>6

LEMMA ReadFileKeeps ==
    ASSUME ListIInv, ReadFile
    PROVE  ListIInv'
<1>1. /\ acts < MaxActs /\ acts' = acts + 1 /\ fails' = fails /\ preview' = TRUE
      /\ UNCHANGED <<serverVars, shownVars, formVars, pageVars, calls>>
  BY DEF ReadFile, Act
<1>2. acts \in Nat /\ acts' \in {acts, acts + 1} /\ acts' \in 0 .. MaxActs
  BY <1>1, Constants DEF ListIInv, CardsFit
<1>3. CardsFit'
  BY <1>1, <1>2 DEF ListIInv, CardsFit, shownVars, pageVars
<1>4. FormFits'
  BY <1>1, <1>2, FormStays DEF ListIInv
<1>5. ServerFits' /\ IdsLast' /\ CallsFit'
  BY <1>1, <1>2, Rests DEF formVars
<1> QED
  BY <1>3, <1>4, <1>5 DEF ListIInv

LEMMA ClosePreviewKeeps ==
    ASSUME ListIInv, ClosePreview
    PROVE  ListIInv'
<1>1. /\ preview' = FALSE
      /\ UNCHANGED <<serverVars, shownVars, formVars, pageVars, calls, acts, fails>>
  BY DEF ClosePreview, bounds
<1>2. acts \in Nat
  BY Constants DEF ListIInv, CardsFit
<1>3. CardsFit'
  BY <1>1 DEF ListIInv, CardsFit, shownVars, pageVars
<1>4. FormFits'
  BY <1>1, <1>2, FormStays DEF ListIInv
<1>5. ServerFits' /\ IdsLast' /\ CallsFit'
  BY <1>1, Rests DEF formVars
<1> QED
  BY <1>3, <1>4, <1>5 DEF ListIInv

LEMMA ConfirmImportKeeps ==
    ASSUME ListIInv, NEW strategy \in {"skip", "overwrite", "duplicate"},
           ConfirmImport(strategy)
    PROVE  ListIInv'
<1> DEFINE k == Call("import", [strategy |-> strategy])
<1>1. /\ acts < MaxActs /\ acts' = acts + 1 /\ Start(k)
      /\ UNCHANGED <<serverVars, shownVars, formVars, preview, pageVars, fails>>
  BY DEF ConfirmImport, Act
<1>2. k.kind = "import" /\ k.stage = "sent" /\ k.arg.strategy = strategy
  BY DEF Call
<1>3. KindFits(k, acts', stored) => IsCall(k, acts', stored)
  BY CallMade
<1> HIDE DEF k
<1>4. KindFits(k, acts', stored)
  BY <1>2 DEF KindFits
<1> QED
  BY <1>1, <1>3, <1>4, OnlySends

LEMMA PollKeeps ==
    ASSUME ListIInv, Poll
    PROVE  ListIInv'
<1>1. /\ Start(Load)
      /\ UNCHANGED <<serverVars, shownVars, formVars, preview, pageVars, acts, fails>>
  BY DEF Poll, bounds
<1>2. IsCall(Load, acts', stored) /\ ~ IsCreating(Load)
  BY LoadMade DEF Load
<1> QED
  BY <1>1, <1>2, OnlySends

LEMMA SwitchTabKeeps ==
    ASSUME ListIInv, SwitchTab
    PROVE  ListIInv'
<1>1. /\ tab' = ~tab /\ EnsureProvidersRefresh(tab')
      /\ UNCHANGED <<serverVars, shownVars, formVars, preview, drag, calls, acts, fails>>
  BY DEF SwitchTab, bounds
<1>2. acts \in Nat /\ tab \in BOOLEAN /\ timer = [handle |-> tab, fires |-> tab]
  BY Constants DEF ListIInv, CardsFit
<1>3. timer' = [handle |-> tab', fires |-> tab']
  <2>1. CASE tab = TRUE
    BY <1>1, <1>2, <2>1 DEF EnsureProvidersRefresh
  <2>2. CASE tab = FALSE
    BY <1>1, <1>2, <2>2 DEF EnsureProvidersRefresh
  <2> QED
    BY <1>2, <2>1, <2>2
<1>4. CardsFit'
  BY <1>1, <1>2, <1>3 DEF ListIInv, CardsFit, shownVars
<1>5. FormFits'
  BY <1>1, <1>2, FormStays DEF ListIInv
<1>6. ServerFits' /\ IdsLast' /\ CallsFit'
  BY <1>1, Rests DEF formVars
<1> QED
  BY <1>4, <1>5, <1>6 DEF ListIInv

-----------------------------------------------------------------------------
(* Answers *)

LEMMA InFlight ==
    ASSUME ListIInv, NEW c \in Calls, calls[c] # Idle
    PROVE  IsCall(calls[c], acts, stored) /\ KindFits(calls[c], acts, stored)
BY DEF ListIInv, CallsFit, IsCall

\* A request is over.
LEMMA Over ==
    ASSUME ListIInv, NEW c \in Calls, End(c), UNCHANGED <<serverVars, stored, acts>>
    PROVE  ServerFits' /\ IdsLast' /\ CallsFit'
<1>1. ~ IsCreating(Idle)
  BY DEF IsCreating
<1> QED
  BY <1>1, Ends DEF End

\* A request becomes a load of the list.
LEMMA Reloads ==
    ASSUME ListIInv, NEW c \in Calls, NEW kind \in {"load", "reload"},
           calls' = [calls EXCEPT ![c] = Call(kind, None)],
           UNCHANGED <<serverVars, stored, acts>>
    PROVE  ServerFits' /\ IdsLast' /\ CallsFit'
<1>1. IsCall(Call(kind, None), acts, stored) /\ ~ IsCreating(Call(kind, None))
  BY LoadMade
<1> QED
  BY <1>1, Ends

LEMMA AnsweredKeeps ==
    ASSUME ListIInv, NEW c \in Calls, Answered(c)
    PROVE  ListIInv'
<1>1. /\ calls[c] # Idle /\ calls[c].stage # "sent"
      /\ UNCHANGED <<serverVars, pageVars, acts, fails>>
  BY DEF Answered, bounds
<1>2. KindFits(calls[c], acts, stored)
  BY <1>1, InFlight
<1>3. acts \in Nat
  BY Constants DEF ListIInv, CardsFit
<1>4. CASE ProvidersLoaded(c)
  <2>1. /\ calls[c].kind \in {"load", "reload"} /\ providers' = calls[c].reply
        /\ active' = calls[c].reply.default /\ End(c) /\ UNCHANGED <<formVars, preview>>
    BY <1>4 DEF ProvidersLoaded, Show
  <2>2. IsList(calls[c].reply)
    BY <1>1, <1>2, <2>1 DEF KindFits, CardEdits
  <2>3. IsList(providers') /\ active' \in Ids \union {None}
    BY <2>1, <2>2, ListParts
  <2>4. CardsFit'
    BY <1>1, <2>1, <2>3 DEF ListIInv, CardsFit, pageVars
  <2>5. FormFits'
    BY <1>1, <1>3, <2>1, FormStays DEF ListIInv
  <2>6. ServerFits' /\ IdsLast' /\ CallsFit'
    BY <1>1, <2>1, Over DEF formVars
  <2> QED
    BY <2>4, <2>5, <2>6 DEF ListIInv
<1>5. CASE CardAnswered(c)
  <2>1. calls' = [calls EXCEPT ![c] = Call("load", None)] /\ UNCHANGED <<shownVars, formVars, preview>>
    BY <1>5 DEF CardAnswered, Load
  <2>2. CardsFit'
    BY <1>1, <2>1, CardsStay DEF ListIInv
  <2>3. FormFits'
    BY <1>1, <1>3, <2>1, FormStays DEF ListIInv
  <2>4. ServerFits' /\ IdsLast' /\ CallsFit'
    BY <1>1, <2>1, Reloads DEF formVars
  <2> QED
    BY <2>2, <2>3, <2>4 DEF ListIInv
<1>6. CASE ReorderAnswered(c)
  <2>1. /\ calls[c].kind = "reorder" /\ End(c) /\ UNCHANGED <<active, formVars, preview>>
        /\ providers' \in {calls[c].reply, calls[c].arg.original}
    BY <1>6 DEF ReorderAnswered
  <2>2. IsList(calls[c].reply) /\ IsList(calls[c].arg.original)
    BY <1>1, <1>2, <2>1 DEF KindFits, CardEdits
  <2>3. IsList(providers')
    BY <2>1, <2>2
  <2>4. CardsFit'
    BY <1>1, <2>1, <2>3 DEF ListIInv, CardsFit, pageVars
  <2>5. FormFits'
    BY <1>1, <1>3, <2>1, FormStays DEF ListIInv
  <2>6. ServerFits' /\ IdsLast' /\ CallsFit'
    BY <1>1, <2>1, Over DEF formVars
  <2> QED
    BY <2>4, <2>5, <2>6 DEF ListIInv
<1>7. CASE ImportAnswered(c)
  <2>1. /\ calls' = [calls EXCEPT ![c] = Call("reload", None)] /\ preview' = FALSE
        /\ UNCHANGED <<shownVars, formVars>>
    BY <1>7 DEF ImportAnswered
  <2>2. CardsFit'
    BY <1>1, <2>1 DEF ListIInv, CardsFit, shownVars, pageVars
  <2>3. FormFits'
    BY <1>1, <1>3, <2>1, FormStays DEF ListIInv
  <2>4. ServerFits' /\ IdsLast' /\ CallsFit'
    BY <1>1, <2>1, Reloads DEF formVars
  <2> QED
    BY <2>2, <2>3, <2>4 DEF ListIInv
<1>8. CASE SaveAnswered(c)
  <2>1. /\ calls[c].kind = "save" /\ End(c)
        /\ closing' = IF calls[c].stage = "done" THEN closing \union {calls[c].arg.number}
                      ELSE closing
        /\ UNCHANGED <<shownVars, form, stored, preview>>
    BY <1>8 DEF SaveAnswered
  <2>2. calls[c].stage = "done" => calls[c].arg.number \in stored
    BY <1>2, <2>1 DEF KindFits, CardEdits
  <2>3. closing' \subseteq stored'
    BY <2>1, <2>2 DEF ListIInv, FormFits
  <2>4. FormFits'
    BY <1>1, <2>1, <2>3 DEF ListIInv, FormFits
  <2>5. CardsFit'
    BY <1>1, <2>1, CardsStay DEF ListIInv
  <2>6. ServerFits' /\ IdsLast' /\ CallsFit'
    BY <1>1, <2>1, Over
  <2> QED
    BY <2>4, <2>5, <2>6 DEF ListIInv
<1>9. CASE RevealAnswered(c)
  <2>1. /\ calls[c].kind = "reveal" /\ End(c)
        /\ form' = IF form.number = calls[c].arg.number
                   THEN [form EXCEPT !.token = calls[c].reply, !.revealed = TRUE] ELSE form
        /\ UNCHANGED <<shownVars, closing, stored, preview>>
    BY <1>9 DEF RevealAnswered
  <2>2. /\ calls[c].arg.number # 0
        /\ calls[c].reply \in Stored \union {Mask, Undefined}
    BY <1>1, <1>2, <2>1 DEF KindFits, CardEdits
  <2>3. IsForm(form, acts)
    BY DEF ListIInv, FormFits
  <2>4. IsForm(form', acts)
    BY <2>1, <2>2, <2>3, TypedFits
  <2>5. FormFits'
    BY <1>1, <1>3, <2>1, <2>4, FormChanges DEF ListIInv
  <2>6. CardsFit'
    BY <1>1, <2>1, CardsStay DEF ListIInv
  <2>7. ServerFits' /\ IdsLast' /\ CallsFit'
    BY <1>1, <2>1, Over
  <2> QED
    BY <2>5, <2>6, <2>7 DEF ListIInv
<1> QED
  BY <1>4, <1>5, <1>6, <1>7, <1>8, <1>9 DEF Answered

LEMMA FailedKeeps ==
    ASSUME ListIInv, NEW c \in Calls, Failed(c)
    PROVE  ListIInv'
<1>1. /\ calls[c] # Idle /\ fails < MaxFails /\ fails' = fails + 1 /\ acts' = acts
      /\ providers' = IF calls[c].kind = "reorder" THEN calls[c].arg.original ELSE providers
      /\ End(c) /\ UNCHANGED <<serverVars, active, formVars, preview, pageVars>>
  BY DEF Failed
<1>2. KindFits(calls[c], acts, stored)
  BY <1>1, InFlight
<1>3. acts \in Nat /\ fails' \in 0 .. MaxFails
  BY <1>1, Constants DEF ListIInv, CardsFit
<1>4. calls[c].kind = "reorder" => IsList(calls[c].arg.original)
  BY <1>2 DEF KindFits, CardEdits
<1>5. IsList(providers')
  BY <1>1, <1>4 DEF ListIInv, CardsFit
<1>6. CardsFit'
  BY <1>1, <1>3, <1>5 DEF ListIInv, CardsFit, pageVars
<1>7. FormFits'
  BY <1>1, <1>3, FormStays DEF ListIInv
<1>8. ServerFits' /\ IdsLast' /\ CallsFit'
  BY <1>1, Over DEF formVars
<1> QED
  BY <1>6, <1>7, <1>8 DEF ListIInv

-----------------------------------------------------------------------------
(* The steps of the server *)

LEMMA AnswerParts ==
    ASSUME NEW k, NEW s, NEW r,
           k = [kind |-> k.kind, arg |-> k.arg, stage |-> k.stage, reply |-> k.reply]
    PROVE  [k EXCEPT !.stage = s, !.reply = r] =
              [kind |-> k.kind, arg |-> k.arg, stage |-> s, reply |-> r]
<1> DEFINE l == [kind |-> k.kind, arg |-> k.arg, stage |-> s, reply |-> k.reply]
<1>1. [k EXCEPT !.stage = s] = l
  OBVIOUS
<1>2. [l EXCEPT !.reply = r] = [kind |-> k.kind, arg |-> k.arg, stage |-> s, reply |-> r]
  OBVIOUS
<1> HIDE DEF l
<1> QED
  BY <1>1, <1>2

\* The server answers one request.
LEMMA ServeKeeps ==
    ASSUME ListIInv, NEW c \in Calls, Serve(c)
    PROVE  ListIInv'
<1> DEFINE k == calls[c]
           out == Outcome(store, k.kind, k.arg)
           stage == IF out.ok THEN "done" ELSE "refused"
           reply == ReplyTo(k, out)
           answer == [k EXCEPT !.stage = stage, !.reply = reply]
<1>1. /\ k # Idle /\ k.stage = "sent" /\ Take(out)
      /\ tokens' = IF out.ok THEN TokensAfter(k.kind, k.arg, out.list) ELSE tokens
      /\ stored' = IF out.ok /\ k.kind = "save" THEN stored \union {k.arg.number} ELSE stored
      /\ calls' = [calls EXCEPT ![c] = answer]
      /\ UNCHANGED <<shownVars, form, closing, preview, pageVars, acts, fails>>
  BY DEF Serve, bounds
<1>2. IsCall(k, acts, stored) /\ KindFits(k, acts, stored)
  BY <1>1, InFlight
<1>3. /\ made \in Nat /\ acts \in Nat /\ acts \in 0 .. MaxActs /\ IdsLast /\ ServerFits
      /\ tokens \in [Ids -> Stored]
  BY Constants DEF ListIInv, ServerFits, CardsFit
<1>4. k.kind \in Creates => IsCreating(k) /\ made + PerAct <= Len(Fresh)
  <2>1. k.kind \in Creates => IsCreating(k)
    BY <1>1 DEF IsCreating
  <2>2. k.kind \in Creates => Creating(calls) # {}
    BY <2>1 DEF Creating
  <2> QED
    BY <1>3, <2>1, <2>2, Room
<1>5. /\ out.ok \in BOOLEAN
      /\ \E m \in 0 .. PerAct : Adds(out.list, m) /\ (k.kind \notin Creates => m = 0)
      /\ out.ok /\ (k.kind = "duplicate" \/ (k.kind = "save" /\ k.arg.who = None))
           => Last(out.list.order) \in Ids
  BY <1>2, <1>3, <1>4, OutcomeFits
<1> HIDE DEF out
<1>6. PICK m \in 0 .. PerAct : Adds(out.list, m) /\ (k.kind \notin Creates => m = 0)
  BY <1>5
<1>7. /\ made' = made + m /\ IsList(store') /\ made' \in 0 .. Len(Fresh)
      /\ Unused(store'.order, made') /\ IsList(out.list)
  BY <1>1, <1>3, <1>6, TakeFits DEF Adds
<1>8. tokens' \in [Ids -> Stored]
  <2>1. CASE out.ok
    <3>1. TokensAfter(k.kind, k.arg, out.list) \in [Ids -> Stored]
      BY <1>2, <1>3, <1>5, <2>1, TokensFit
    <3> QED
      BY <1>1, <2>1, <3>1
  <2>2. CASE ~ out.ok
    BY <1>1, <1>3, <2>2
  <2> QED
    BY <2>1, <2>2
<1>9. ServerFits'
  BY <1>7, <1>8 DEF ServerFits
<1>10. CardsFit'
  BY <1>1, CardsStay DEF ListIInv
<1>11. k.kind = "save" => k.arg.number \in 1 .. acts
  BY <1>2 DEF KindFits, CardEdits
<1>12. stored \subseteq stored' /\ stored' \subseteq 1 .. acts'
  BY <1>1, <1>11 DEF ListIInv, FormFits
<1>13. FormFits'
  BY <1>1, <1>12 DEF ListIInv, FormFits
<1>14. /\ answer.kind = k.kind /\ answer.arg = k.arg
       /\ answer.stage = stage /\ answer.reply = reply
       /\ answer = [kind |-> answer.kind, arg |-> answer.arg,
                    stage |-> answer.stage, reply |-> answer.reply]
  <2>1. k = [kind |-> k.kind, arg |-> k.arg, stage |-> k.stage, reply |-> k.reply]
    BY <1>2 DEF IsCall
  <2> HIDE DEF k, stage, reply
  <2>2. answer = [kind |-> k.kind, arg |-> k.arg, stage |-> stage, reply |-> reply]
    BY <2>1, AnswerParts
  <2> HIDE DEF answer
  <2> QED
    BY <2>2
<1>15. stage \in {"done", "refused"} /\ (stage = "done" => out.ok)
  BY <1>5
<1>16. k.kind \in {"load", "reload", "reorder"} => IsList(reply)
  BY <1>7 DEF ReplyTo
<1>17. k.kind = "reveal" => reply \in Stored \union {Undefined}
  <2>1. k.kind = "reveal" => k.arg.who \in Ids
    BY <1>2 DEF KindFits, CardEdits
  <2>2. k.kind = "reveal" => reply \in {tokens[k.arg.who], Undefined}
    BY DEF ReplyTo
  <2> QED
    BY <1>3, <2>1, <2>2
<1>18. k.kind = "save" /\ stage = "done" => k.arg.number \in stored'
  BY <1>1, <1>15
<1> HIDE DEF answer, reply, stage, k
<1>19. KindFits(answer, acts, stored')
  <2>1. CASE k.kind \in CardEdits /\ k.arg \in Ids
    BY <1>14, <2>1 DEF KindFits
  <2>2. CASE k.kind \in {"load", "reload"}
    BY <1>14, <1>16, <2>2 DEF KindFits
  <2>3. CASE /\ k.kind = "reorder" /\ k.arg.ids \in Seq(Ids) /\ IsInjective(k.arg.ids)
             /\ IsList(k.arg.original)
    BY <1>14, <1>16, <2>3 DEF KindFits
  <2>4. CASE k.kind = "import" /\ k.arg.strategy \in {"skip", "overwrite", "duplicate"}
    BY <1>14, <2>4 DEF KindFits
  <2>5. CASE /\ k.kind = "save" /\ k.arg.number \in 1 .. acts /\ k.arg.who \in Ids \union {None}
             /\ k.arg.token \in Stored /\ k.arg.valid \in BOOLEAN
    BY <1>14, <1>18, <2>5 DEF KindFits
  <2>6. CASE k.kind = "reveal" /\ k.arg.number \in Nat \ {0} /\ k.arg.who \in Ids
    BY <1>14, <1>17, <2>6 DEF KindFits
  <2> QED
    BY <1>2, <2>1, <2>2, <2>3, <2>4, <2>5, <2>6 DEF KindFits
<1>20. IsCall(answer, acts', stored')
  <2>1. IsCall(answer, acts, stored')
    BY <1>14, <1>15, <1>19 DEF IsCall
  <2> QED
    BY <1>1, <2>1
<1>21. CallsFit'
  <2>1. /\ CallsFit /\ acts \in Nat /\ acts' \in Nat /\ acts <= acts'
        /\ stored \subseteq stored' /\ calls' = [calls EXCEPT ![c] = answer]
    BY <1>1, <1>3, <1>12 DEF ListIInv
  <2> QED
    BY <1>20, <2>1, CallsReplaced
<1>22. ~ IsCreating(answer)
  BY <1>14, <1>15 DEF IsCreating
<1>23. calls = [d \in Calls |-> calls[d]]
  BY DEF ListIInv, CallsFit
<1>24. /\ Cardinality(Creating(calls')) <= Cardinality(Creating(calls))
       /\ IsCreating(k) => Cardinality(Creating(calls')) + 1 <= Cardinality(Creating(calls))
  BY <1>1, <1>22, <1>23, CreatingReplaced DEF k
<1>25. Cardinality(Creating(calls)) \in Nat /\ Cardinality(Creating(calls')) \in Nat
  BY CreatingCounted
<1>26. PICK x \in {0, 1} : m <= PerAct * x /\ (x = 0 \/ IsCreating(k))
  <2>1. PerAct \in Nat /\ PerAct * 0 = 0 /\ PerAct * 1 = PerAct
    BY Constants, Times
  <2>2. CASE k.kind \in Creates
    BY <1>4, <1>6, <2>1, <2>2
  <2>3. CASE k.kind \notin Creates
    BY <1>6, <2>1, <2>3
  <2> QED
    BY <2>2, <2>3
<1>27. /\ Cardinality(Creating(calls')) + x <= Cardinality(Creating(calls)) + (acts' - acts)
       /\ made' <= made + PerAct * x /\ x \in Nat /\ made' \in Nat
  <2>1. PerAct * x \in Nat /\ m \in Nat /\ x \in Nat
    BY Constants, Times
  <2>2. Cardinality(Creating(calls')) + x <= Cardinality(Creating(calls))
    BY <1>24, <1>25, <1>26
  <2>3. acts' - acts = 0
    BY <1>1, <1>3
  <2>4. made' <= made + PerAct * x /\ made' \in Nat
    BY <1>3, <1>7, <1>26, <2>1
  <2> QED
    BY <2>1, <2>2, <2>3, <2>4, <1>25
<1>28. IdsLast'
  <2>1. acts \in Nat /\ acts' \in Nat /\ acts <= acts' /\ made \in Nat /\ IdsLast
    BY <1>1, <1>3
  <2> QED
    BY <1>27, <2>1, IdsStillLast
<1> QED
  BY <1>9, <1>10, <1>13, <1>21, <1>28 DEF ListIInv

LEMMA OtherPageEditsKeeps ==
    ASSUME ListIInv, OtherPageEdits
    PROVE  ListIInv'
<1>1. /\ acts < MaxActs /\ acts' = acts + 1 /\ fails' = fails
      /\ UNCHANGED <<tokens, shownVars, formVars, preview, pageVars, calls>>
  BY DEF OtherPageEdits, Act
<1>2. PICK kind \in OtherEdits, p \in ToSet(store.order) : Take(Outcome(store, kind, p))
  BY DEF OtherPageEdits
<1> DEFINE out == Outcome(store, kind, p)
           m == IF kind = "duplicate" /\ p \in ToSet(store.order) THEN 1 ELSE 0
<1>3. /\ made \in Nat /\ acts \in Nat /\ acts \in 0 .. MaxActs /\ IdsLast /\ ServerFits
      /\ tokens \in [Ids -> Stored]
  BY Constants DEF ListIInv, ServerFits, CardsFit
<1>4. PerAct \in Nat \ {0} /\ Len(Fresh) \in Nat
  BY Constants DEF PerAct
<1>5. made + 1 <= Len(Fresh)
  <2>1. made + PerAct <= Len(Fresh)
    BY <1>1, <1>3, Room
  <2> QED
    BY <2>1, <1>3, <1>4
<1>6. kind \in CardEdits /\ p \in Ids
  <2>1. store.order \in Seq(Ids)
    BY <1>3, ListParts DEF ServerFits
  <2>2. p \in Ids
    BY <2>1, OfSeq
  <2>3. kind \in CardEdits
    BY ProviderAssumption DEF CardEdits
  <2> QED
    BY <2>2, <2>3
<1>7. Adds(out.list, m)
  BY <1>3, <1>5, <1>6, CardOutcome
<1> HIDE DEF out, m
<1>8. m \in {0, 1}
  BY DEF m
<1>9. Take(out)
  BY <1>2 DEF out
<1>10. /\ made' = made + m /\ IsList(store') /\ made' \in 0 .. Len(Fresh)
       /\ Unused(store'.order, made')
  BY <1>3, <1>7, <1>9, TakeFits
<1>11. ServerFits'
  BY <1>1, <1>3, <1>10 DEF ServerFits
<1>12. CardsFit' /\ acts' \in {acts, acts + 1}
  BY <1>1, CardsStay DEF ListIInv
<1>13. FormFits'
  BY <1>1, <1>3, <1>12, FormStays DEF ListIInv
<1>14. stored' = stored /\ calls' = calls /\ acts' \in Nat /\ acts <= acts'
  BY <1>1, <1>3 DEF formVars
<1>15. CallsFit'
  BY <1>3, <1>14, CallsStay DEF ListIInv
<1>16. /\ Cardinality(Creating(calls)) \in Nat
       /\ Cardinality(Creating(calls')) = Cardinality(Creating(calls))
  BY <1>14, CreatingCounted
<1>17. PerAct * 1 = PerAct
  BY <1>4
<1>18. /\ Cardinality(Creating(calls')) + 1 <= Cardinality(Creating(calls)) + (acts' - acts)
       /\ made' <= made + PerAct * 1 /\ made' \in Nat
  BY <1>1, <1>3, <1>4, <1>8, <1>10, <1>16, <1>17
<1>19. IdsLast'
  BY <1>3, <1>14, <1>18, IdsStillLast
<1> QED
  BY <1>11, <1>12, <1>13, <1>15, <1>19 DEF ListIInv

-----------------------------------------------------------------------------
(* The invariant holds *)

LEMMA ListInitFits == ASSUME ListInit PROVE ListIInv
<1>1. /\ store \in {Listing(First, First[1], {}), Listing(First, None, {First[1]})}
      /\ made = 0 /\ tokens = [p \in Ids |-> Initial]
      /\ providers = store /\ active = store.default
      /\ tab = TRUE /\ timer = [handle |-> TRUE, fires |-> TRUE] /\ drag = 0
      /\ form = NoForm /\ closing = {} /\ stored = {} /\ preview = FALSE
      /\ calls = [c \in Calls |-> Idle] /\ acts = 0 /\ fails = 0
  BY DEF ListInit
<1>2. /\ First \in Seq(Ids) /\ IsInjective(First) /\ First[1] \in ToSet(First) /\ First[1] \in Ids
      /\ Len(Fresh) \in Nat /\ \A x \in ToSet(Fresh) : x \notin ToSet(First)
      /\ MaxActs \in Nat /\ MaxFails \in Nat /\ PerAct \in Nat
  BY Constants
<1>3. IsList(store) /\ store.order = First
  <2> DEFINE p == First[1]
             off == {First[1]}
  <2>1. p \in Ids \union {None} /\ None \in Ids \union {None}
        /\ {} \subseteq ToSet(First) /\ off \subseteq ToSet(First)
    BY <1>2
  <2> HIDE DEF p, off
  <2>2. IsList(Listing(First, p, {})) /\ IsList(Listing(First, None, off))
    BY <1>2, <2>1, ListMade
  <2>3. Listing(First, p, {}).order = First /\ Listing(First, None, off).order = First
    BY DEF Listing
  <2> QED
    BY <1>1, <2>2, <2>3 DEF p, off
<1>4. Unused(store.order, made)
  <2>1. \A i \in 1 .. Len(Fresh) : Fresh[i] \in ToSet(Fresh)
    BY Constants, OfSeq
  <2>2. \A i \in 0 + 1 .. Len(Fresh) : i \in 1 .. Len(Fresh)
    BY <1>2
  <2> QED
    BY <1>1, <1>2, <1>3, <2>1, <2>2 DEF Unused
<1>5. ServerFits
  <2>1. tokens \in [Ids -> Stored]
    BY <1>1 DEF Stored
  <2> QED
    BY <1>1, <1>2, <1>3, <1>4, <2>1 DEF ServerFits
<1>6. IdsLast
  <2>1. Creating(calls) = {}
    BY <1>1 DEF Creating, IsCreating
  <2>2. Cardinality(Creating(calls)) = 0
    BY <2>1, FS_EmptySet
  <2>3. PerAct * 0 = 0
    BY <1>2
  <2> QED
    BY <1>1, <2>2, <2>3 DEF IdsLast
<1>7. CardsFit
  <2>1. store.default \in Ids \union {None}
    BY <1>3, ListParts
  <2>2. drag \in 0 .. Cardinality(Ids) /\ acts \in 0 .. MaxActs /\ fails \in 0 .. MaxFails
    BY <1>1, <1>2, IdsCounted
  <2>3. IsList(providers) /\ active \in Ids \union {None}
    BY <1>1, <1>3, <2>1
  <2>4. tab \in BOOLEAN /\ timer = [handle |-> tab, fires |-> tab] /\ preview \in BOOLEAN
    BY <1>1
  <2> QED
    BY <2>2, <2>3, <2>4 DEF CardsFit
<1>8. FormFits
  BY <1>1 DEF FormFits, IsForm, NoForm, Stored
<1>9. CallsFit
  BY <1>1 DEF CallsFit
<1> QED
  BY <1>5, <1>6, <1>7, <1>8, <1>9 DEF ListIInv

LEMMA ListNextFits == ASSUME ListIInv, ListNext PROVE ListIInv'
<1>1. CASE CardAction
  BY <1>1, EditCardKeeps, MoveCardKeeps, GrabKeeps, DropOnKeeps, DragEndKeeps DEF CardAction
<1>2. CASE FormAction
  BY <1>2, OpenFormKeeps, TypeTokenKeeps, RevealTokenKeeps, SaveFormKeeps, CloseFormKeeps,
     ReportSavedKeeps DEF FormAction
<1>3. CASE ImportAction
  BY <1>3, ReadFileKeeps, ClosePreviewKeeps, ConfirmImportKeeps DEF ImportAction
<1>4. CASE \E c \in Calls : Serve(c) \/ Answered(c) \/ Failed(c)
  BY <1>4, ServeKeeps, AnsweredKeeps, FailedKeeps
<1>5. CASE OtherPageEdits \/ SwitchTab \/ Poll
  BY <1>5, OtherPageEditsKeeps, SwitchTabKeeps, PollKeeps
<1> QED
  BY <1>1, <1>2, <1>3, <1>4, <1>5 DEF ListNext

LEMMA ListStutterFits == ASSUME ListIInv, UNCHANGED listVars PROVE ListIInv'
<1>1. /\ UNCHANGED <<serverVars, stored, calls>> /\ UNCHANGED formVars
      /\ UNCHANGED <<shownVars, pageVars, preview, fails>> /\ acts' = acts
  BY DEF listVars, bounds, formVars
<1>2. CardsFit' /\ acts \in Nat /\ acts' \in {acts, acts + 1}
  BY <1>1, CardsStay DEF ListIInv
<1>3. FormFits'
  BY <1>1, <1>2, FormStays DEF ListIInv
<1>4. ServerFits' /\ IdsLast' /\ CallsFit'
  BY <1>1, <1>2, Rests
<1> QED
  BY <1>2, <1>3, <1>4 DEF ListIInv

LEMMA ListInvariant == ListSpec => []ListIInv
<1>1. ListInit => ListIInv
  BY ListInitFits
<1>2. ListIInv /\ [ListNext]_listVars => ListIInv'
  BY ListNextFits, ListStutterFits
<1> QED
  BY <1>1, <1>2, PTL DEF ListSpec

LEMMA ListTyped == ListIInv => ListTypeOK
<1> SUFFICES ASSUME ListIInv PROVE ListTypeOK
  OBVIOUS
<1>1. /\ IsList(store) /\ made \in 0 .. Len(Fresh) /\ tokens \in [Ids -> {Blank, Initial, Typed}]
  BY DEF ListIInv, ServerFits, Stored
<1>2. /\ IsList(providers) /\ active \in Ids \union {None}
      /\ tab \in BOOLEAN /\ timer = [handle |-> tab, fires |-> tab]
      /\ drag \in 0 .. Cardinality(Ids) /\ preview \in BOOLEAN
      /\ acts \in 0 .. MaxActs /\ fails \in 0 .. MaxFails
  BY DEF ListIInv, CardsFit
<1>3. form \in [number : 0 .. acts, who : Ids \union {None}, revealed : BOOLEAN,
                token : {Mask, Blank, Initial, Typed, Undefined}]
  <2>1. form \in [number : Nat, who : Ids \union {None},
                  token : Stored \union {Mask, Undefined}, revealed : BOOLEAN]
    BY DEF ListIInv, FormFits, IsForm
  <2>2. form.number \in 0 .. acts
    BY <1>2, Constants DEF ListIInv, FormFits, IsForm, NoForm
  <2> QED
    BY <2>1, <2>2 DEF Stored
<1>4. closing \subseteq stored /\ stored \subseteq 1 .. acts
  BY DEF ListIInv, FormFits
<1> QED
  BY <1>1, <1>2, <1>3, <1>4 DEF ListTypeOK

(* The list on the server and the one that is shown have every provider once
   and no hole, whatever is reordered from an old list, imported or deleted;
   the mask never becomes a token; the ids never run out (handleProviderOrder,
   handleImport; DashboardView.vue, ProviderModal.vue). *)
THEOREM ListTypeCorrect == ListSpec => []ListTypeOK
BY ListInvariant, ListTyped, PTL

-----------------------------------------------------------------------------
(* The default in effect *)

\* Besides the server's own steps, nothing changes the list it stores.
LEMMA StoreSteps ==
    ASSUME ListNext
    PROVE  store' = store \/ calls' = calls \/ \E c \in Calls : Serve(c)
<1>1. CASE CardAction
  BY <1>1 DEF CardAction, EditCard, MoveCard, Grab, DropOn, DragEnd, serverVars
<1>2. CASE FormAction
  BY <1>2 DEF FormAction, OpenForm, TypeToken, RevealToken, SaveForm, CloseForm, ReportSaved,
     serverVars
<1>3. CASE ImportAction
  BY <1>3 DEF ImportAction, ReadFile, ClosePreview, ConfirmImport, serverVars
<1>4. CASE \E c \in Calls : Answered(c) \/ Failed(c)
  BY <1>4 DEF Answered, Failed, serverVars
<1>5. CASE OtherPageEdits \/ SwitchTab \/ Poll
  BY <1>5 DEF OtherPageEdits, SwitchTab, Poll, serverVars
<1> QED
  BY <1>1, <1>2, <1>3, <1>4, <1>5 DEF ListNext

LEMMA ReorderStep ==
    ASSUME ListIInv, [ListNext]_listVars, NEW c \in Calls,
           calls[c] # Idle, calls[c].kind = "reorder", calls'[c] # calls[c]
    PROVE  ToSet(store'.order) = ToSet(store.order) /\ Effective(store') = Effective(store)
<1>1. CASE store' = store
  BY <1>1
<1>2. CASE \E d \in Calls : Serve(d)
  <2>1. PICK d \in Calls : Serve(d)
    BY <1>2
  <2>2. d = c
    <3>1. calls = [e \in Calls |-> calls[e]]
      BY DEF ListIInv, CallsFit
    <3> QED
      BY <2>1, <3>1 DEF Serve
  <2> DEFINE ids == calls[c].arg.ids
             out == Outcome(store, "reorder", calls[c].arg)
  <2>3. ids \in Seq(Ids) /\ IsInjective(ids) /\ IsList(store)
    BY InFlight DEF KindFits, CardEdits, ListIInv, ServerFits
  <2>4. store' = out.list
    BY <2>1, <2>2 DEF Serve, Take
  <2>5. \/ out.list = store
        \/ out.list = Reordered(store, ids) /\ SameProviders(store, ids)
    BY DEF Outcome, Accepted, Refused
  <2> HIDE DEF ids, out
  <2> QED
    BY <2>3, <2>4, <2>5, ReorderedFits
<1>3. calls' # calls
  OBVIOUS
<1> QED
  BY <1>1, <1>2, <1>3, StoreSteps DEF listVars

(* A reordering never adds or loses a provider and never changes the default
   that requests without a route go to, although the list it was made from
   may be old (DashboardView.vue:1442; handleProviderOrder). *)
THEOREM ReorderingKeepsDefault == ListSpec => ReorderKeepsDefault
<1>1. ListIInv /\ [ListNext]_listVars =>
        [\A c \in Calls :
           calls[c] # Idle /\ calls[c].kind = "reorder" /\ calls'[c] # calls[c] =>
              /\ ToSet(store'.order) = ToSet(store.order)
              /\ Effective(store') = Effective(store)]_listVars
  BY ReorderStep
<1> QED
  BY <1>1, ListInvariant, PTL DEF ListSpec, ReorderKeepsDefault

-----------------------------------------------------------------------------
(* The form *)

LEMMA FormStep ==
    ASSUME ListIInv, ListNext, form # NoForm, form' # form, form'.number # form.number
    PROVE  CloseForm \/ form.number \in stored
<1>1. IsForm(form, acts)
  BY DEF ListIInv, FormFits
<1>2. \A token : [form EXCEPT !.token = token].number = form.number
  BY <1>1 DEF IsForm
<1>3. CASE CardAction
  BY <1>3 DEF CardAction, EditCard, MoveCard, Grab, DropOn, DragEnd, formVars
<1>4. CASE FormAction
  <2>1. ASSUME NEW n \in closing, ReportSaved(n) PROVE form.number \in stored
    BY <2>1 DEF ReportSaved, ListIInv, FormFits
  <2>2. ~ TypeToken
    BY <1>2 DEF TypeToken
  <2>3. ~ RevealToken /\ ~ SaveForm /\ \A who : ~ OpenForm(who)
    BY DEF RevealToken, SaveForm, OpenForm, formVars
  <2> QED
    BY <1>4, <2>1, <2>2, <2>3 DEF FormAction
<1>5. CASE ImportAction
  BY <1>5 DEF ImportAction, ReadFile, ClosePreview, ConfirmImport, formVars
<1>6. CASE \E c \in Calls : Serve(c) \/ Failed(c)
  BY <1>6 DEF Serve, Failed, formVars
<1>7. ASSUME NEW c \in Calls, Answered(c) PROVE FALSE
  <2>1. ~ RevealAnswered(c)
    <3>1. [form EXCEPT !.token = calls[c].reply, !.revealed = TRUE].number = form.number
      <4> DEFINE f == [form EXCEPT !.token = calls[c].reply]
      <4>1. f.number = form.number /\ [f EXCEPT !.revealed = TRUE].number = f.number
        BY <1>1 DEF IsForm
      <4> QED
        BY <4>1
    <3> QED
      BY <3>1 DEF RevealAnswered
  <2> QED
    BY <1>7, <2>1 DEF Answered, ProvidersLoaded, CardAnswered, ReorderAnswered, ImportAnswered,
       SaveAnswered, formVars
<1>8. CASE OtherPageEdits \/ SwitchTab \/ Poll
  BY <1>8 DEF OtherPageEdits, SwitchTab, Poll, formVars
<1> QED
  BY <1>3, <1>4, <1>5, <1>6, <1>7, <1>8 DEF ListNext

(* A form that the user does not close goes away only after the server took
   a save of this form, not when a save fails, is answered after the form
   was closed, or belongs to the form opened before (ProviderModal.vue:366). *)
THEOREM FormClosesOnceStored == ListSpec => FormClosesWhenStored
<1>1. ListIInv /\ [ListNext]_listVars =>
        [form # NoForm /\ form' # form /\ form'.number # form.number
           => CloseForm \/ form.number \in stored]_listVars
  BY FormStep
<1> QED
  BY <1>1, ListInvariant, PTL DEF ListSpec, FormClosesWhenStored

================================================================================
