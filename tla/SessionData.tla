------------------------------ MODULE SessionData ------------------------------
(***************************************************************************)
(* The session lists of the dashboard: the cache the dashboard keeps       *)
(* (useLazySessionData), and the session browser on the sessions tab       *)
(* (SessionBrowser with useSessionBrowserData), which starts from the      *)
(* cache, follows it through its prop watchers and reports what it loaded  *)
(* back to it.                                                             *)
(*                                                                         *)
(* A list is the project it was filtered by and the number of the request  *)
(* that brought it; the project list travels with it and is left out.      *)
(* Requests are numbered as they are sent; a reload, which asks for the    *)
(* projects and then for the list, keeps its number.  A generation counter *)
(* is kept as the one request that still holds it: current for the cache,  *)
(* asker for the browser.  Work that runs without an await in between is   *)
(* one step, with the watchers it triggers.                                *)
(***************************************************************************)
EXTENDS Naturals

CONSTANTS
    Projects,    \* project paths
    All,         \* the empty path: no filter
    MaxRequests  \* bound on the requests sent

ASSUME SessionAssumption == All \notin Projects /\ MaxRequests \in Nat

VARIABLES
    page,     \* whether the dashboard is mounted
    cache,    \* the refs of useLazySessionData
    loads,    \* its loads in flight
    current,  \* the load that holds its generation (loadRequest), or 0
    browser,  \* the refs of the session browser
    asks,     \* its requests in flight
    asker,    \* the one that holds its generation, or 0
    issued    \* how many requests were sent

cacheVars == <<cache, loads, current>>
browserVars == <<browser, asks, asker>>
vars == <<page, cacheVars, browserVars, issued>>

Paths == Projects \union {All}
Numbers == 1 .. MaxRequests

List(p, n) == [project |-> p, at |-> n]
NoList == List(All, 0)
Lists == {NoList} \union [project : Paths, at : Numbers]

EmptyCache == [list |-> NoList, loading |-> FALSE, error |-> FALSE, loaded |-> FALSE]

\* picked: the user asked this browser for a list since it was mounted.
Browser(list, loading, error) ==
    [shown |-> TRUE, list |-> list, loading |-> loading, error |-> error,
     selected |-> All, picked |-> FALSE]
NoBrowser == [Browser(NoList, FALSE, FALSE) EXCEPT !.shown = FALSE]

Ask(n, stage, p) == [at |-> n, stage |-> stage, project |-> p]

-----------------------------------------------------------------------------
\* Fault: the browser does not watch props.loading.
FollowListOnly(new, listWritten) ==
    IF browser.shown
    THEN [browser EXCEPT !.list = IF listWritten THEN new.list ELSE @,
                         !.error = IF new.error # cache.error THEN new.error ELSE @]
    ELSE browser

\* Vue runs a prop watcher when the parent's ref changed: a list is a new
\* array at each write, loading and error are compared by value.
Follow(new, listWritten) ==
    IF browser.shown
    THEN [browser EXCEPT !.list = IF listWritten THEN new.list ELSE @,
                         !.loading = IF new.loading # cache.loading THEN new.loading ELSE @,
                         !.error = IF new.error # cache.error THEN new.error ELSE @]
    ELSE browser

Init ==
    /\ page = "dashboard"
    /\ cache = EmptyCache /\ loads = {} /\ current = 0
    /\ browser = NoBrowser /\ asks = {} /\ asker = 0
    /\ issued = 0

\* Fault: the cache is written without superseding the load in flight.
KeepGeneration == UNCHANGED current

\* generation += 1, loadRequest = undefined
BumpGeneration == current' = 0

LoadOnce ==
    IF cache.loaded \/ current # 0
    THEN UNCHANGED <<cacheVars, issued>>
    ELSE /\ issued < MaxRequests
         /\ issued' = issued + 1
         /\ current' = issued'
         /\ loads' = loads \union {issued'}
         /\ cache' = [cache EXCEPT !.loading = TRUE, !.error = FALSE]

\* The watcher of the tab loads before the browser is set up from the props.
OpenTab ==
    /\ page = "dashboard" /\ ~browser.shown
    /\ LoadOnce
    /\ browser' = Browser(cache'.list, cache'.loading, cache'.error)
    /\ UNCHANGED <<page, asks, asker>>

\* The requests of a browser that is gone write refs nobody shows, and its
\* emit does nothing: they are dropped here.
CloseTab ==
    /\ browser.shown
    /\ browser' = NoBrowser /\ asks' = {} /\ asker' = 0
    /\ UNCHANGED <<page, cacheVars, issued>>

\* Fault: the finally clause forgets loadRequest.
LoadLingers(n) == UNCHANGED current

LoadEnds(n) == current' = IF current = n THEN 0 ELSE current

LoadAnswered(n) ==
    /\ n \in loads
    /\ loads' = loads \ {n}
    /\ LoadEnds(n)
    /\ IF n # current
       THEN UNCHANGED <<cache, browser>>
       ELSE /\ cache' = [cache EXCEPT !.list = List(All, n), !.loaded = TRUE, !.loading = FALSE]
            /\ browser' = Follow(cache', TRUE)
    /\ UNCHANGED <<page, asks, asker, issued>>

LoadFails(n) ==
    /\ n \in loads
    /\ loads' = loads \ {n}
    /\ LoadEnds(n)
    /\ IF n # current
       THEN UNCHANGED <<cache, browser>>
       ELSE /\ cache' = [cache EXCEPT !.error = TRUE, !.loading = FALSE]
            /\ browser' = Follow(cache', FALSE)
    /\ UNCHANGED <<page, asks, asker, issued>>

-----------------------------------------------------------------------------
Send(stage, p) ==
    /\ browser.shown /\ issued < MaxRequests
    /\ issued' = issued + 1
    /\ asker' = issued'
    /\ asks' = asks \union {Ask(issued', stage, p)}
    /\ browser' = [browser EXCEPT !.selected = p, !.error = FALSE, !.loading = TRUE,
                                  !.picked = TRUE]
    /\ UNCHANGED <<page, cacheVars>>

Reload == Send("projects", browser.selected)
SelectProject(p) == Send("list", p)

\* Fault: the token is not compared after an await.
HeldByAll(a) == TRUE

\* token === generation
Held(a) == a.at = asker

\* reload asks for the list of the project selected by now, under its token.
ProjectsAnswered(a) ==
    /\ a \in asks /\ a.stage = "projects"
    /\ asks' = (asks \ {a}) \union
                {b \in {Ask(a.at, "list", browser.selected)} : Held(a)}
    /\ UNCHANGED <<page, cacheVars, browser, asker, issued>>

\* applyRefreshed, the dashboard's handler of the refreshed event.
Refreshed(list) == [EmptyCache EXCEPT !.list = list, !.loaded = TRUE]

ListAnswered(a) ==
    /\ a \in asks /\ a.stage = "list"
    /\ asks' = asks \ {a}
    /\ IF Held(a)
       THEN /\ cache' = Refreshed(List(a.project, a.at))
            /\ BumpGeneration
            /\ browser' = [browser EXCEPT !.list = cache'.list, !.loading = FALSE,
                                          !.error = FALSE]
            /\ asker' = 0
       ELSE UNCHANGED <<cache, current, browser, asker>>
    /\ UNCHANGED <<page, loads, issued>>

AskFails(a) ==
    /\ a \in asks
    /\ asks' = asks \ {a}
    /\ IF Held(a)
       THEN /\ browser' = [browser EXCEPT !.error = TRUE, !.loading = FALSE]
            /\ asker' = 0
       ELSE UNCHANGED <<browser, asker>>
    /\ UNCHANGED <<page, cacheVars, issued>>

-----------------------------------------------------------------------------
Invalidate == cache' = EmptyCache /\ BumpGeneration /\ UNCHANGED loads

\* The user logs out: the cache is emptied before the request is sent.
Logout ==
    /\ page = "dashboard"
    /\ Invalidate
    /\ browser' = Follow(EmptyCache, TRUE)
    /\ UNCHANGED <<page, asks, asker, issued>>

Leave ==
    /\ page = "dashboard"
    /\ page' = "away"
    /\ Invalidate
    /\ browser' = NoBrowser /\ asks' = {} /\ asker' = 0
    /\ UNCHANGED issued

Return ==
    /\ page = "away"
    /\ page' = "dashboard"
    /\ UNCHANGED <<cacheVars, browserVars, issued>>

Answers ==
    \/ \E n \in loads : LoadAnswered(n) \/ LoadFails(n)
    \/ \E a \in asks : ProjectsAnswered(a) \/ ListAnswered(a) \/ AskFails(a)

Next ==
    \/ OpenTab \/ CloseTab
    \/ Reload \/ (\E p \in Paths : SelectProject(p))
    \/ Answers
    \/ Logout \/ Leave \/ Return

Spec == Init /\ [][Next]_vars

-----------------------------------------------------------------------------
(* The shape of the state; a generation is held by a request in flight and
   a browser that is not shown holds nothing. *)
TypeOK ==
    /\ page \in {"dashboard", "away"}
    /\ cache \in [list : Lists, loading : BOOLEAN, error : BOOLEAN, loaded : BOOLEAN]
    /\ browser \in [shown : BOOLEAN, list : Lists, loading : BOOLEAN, error : BOOLEAN,
                    selected : Paths, picked : BOOLEAN]
    /\ asks \subseteq [at : Numbers, stage : {"projects", "list"}, project : Paths]
    /\ loads \subseteq Numbers
    /\ issued \in 0 .. MaxRequests
    /\ current \in loads \union {0}
    /\ asker \in {a.at : a \in asks} \union {0}
    /\ page = "away" => ~browser.shown
    /\ ~browser.shown => asks = {} /\ browser = NoBrowser

(* When nothing is in flight any more and no error is shown, a browser in
   which the user chose a project (or reloaded) shows that project's list: no
   slower answer, of an older choice or of the dashboard's own first load, is
   left beside the selector (useSessionBrowserData.ts:31).  One in which
   nothing was chosen yet has its selector at All and shows what the cache
   keeps, as it stands by now.  That need not be the list of All: it is the
   list of the project that was chosen before the tab was closed and opened
   again, since a new browser selects nothing while the cache keeps its list
   (useSessionBrowserData.ts:43, useLazySessionData.ts:67). *)
ShownListFits ==
    browser.shown /\ current = 0 /\ asker = 0 /\ ~browser.error /\ browser.list # NoList =>
        IF browser.picked
        THEN browser.list.project = browser.selected
        ELSE browser.selected = All /\ browser.list = cache.list

(* A spinner turns only while a request that will stop it is in flight, in
   the browser and in the cache the next browser starts from. *)
SpinnerHasRequest ==
    /\ cache.loading => current # 0
    /\ browser.loading => current # 0 \/ asker # 0

(* The cache is a latest-wins register: an answer closes the requests sent
   before it, so a slow first load never replaces what the user refreshed
   since (useLazySessionData.ts:67). *)
Cache == INSTANCE LatestWins WITH
    sent <- issued, open <- {current, asker} \ {0}, shown <- cache.list.at
ImplementsLatestWins == Cache!LatestSpec
===============================================================================
