------------------------------- MODULE Dashboard -------------------------------
(***************************************************************************)
(* A visit of the dashboard, from the navigation guard to the unmount:     *)
(* the status the guard stages for the view (dashboardGuard,               *)
(* dashboardInitialStatus), the awaits of onMounted, the timers and        *)
(* listeners it registers, the status polls and the connection mode        *)
(* (DashboardView), and the theme it waits for (Theme).                    *)
(*                                                                         *)
(* A navigation is its number, which stands for the symbol of              *)
(* beginDashboardInitialStatusNavigation, and a visit for the navigation   *)
(* that mounted it.  statusLoadVersion is kept as the load that holds it.  *)
(* The router ignores the result of a guard when a later navigation began. *)
(* Other pages save connection modes, too, which this page never hears of. *)
(***************************************************************************)
EXTENDS Theme, FiniteSets

CONSTANTS
    Modes,     \* connection modes
    Transparent,
    MaxNavs,   \* bound on the navigations
    MaxLogouts,  \* bound on the logouts
    MaxSaves,  \* bound on the modes the user saves
    MaxOthers  \* bound on the modes saved from other pages

Unknown == "unknown"  \* connectionConfig before its first load

ASSUME DashboardAssumption ==
    /\ Transparent \in Modes /\ Modes \intersect {Unknown, "sent"} = {}
    /\ MaxNavs \in Nat /\ MaxLogouts \in Nat /\ MaxSaves \in Nat
    /\ MaxOthers \in Nat /\ MaxChoices \in Nat

VARIABLES
    nav,         \* the last navigation that began
    guards,      \* the guards that wait for /api/status, and the epoch that asked
    token,       \* currentNavigation of the store, 0 when cleared
    staged,      \* stagedStatus of the store
    route,       \* the route shown and the navigation in its meta
    epoch,       \* how often the user logged out
    leaving,     \* logout requests in flight
    view,        \* the mounted dashboard and how far its onMounted is
    dead,        \* unmounted dashboards whose onMounted still goes on
    timers,      \* the visits that own an interval and window listeners
    mode,        \* the connection mode of the view
    serverMode,  \* connection_mode on the server
    saving,      \* updateConfig requests in flight, one of a visit
    saves,       \* how often it was sent
    missed,      \* connectionConfig may be out of date: an answer was lost
    others,      \* how often another page saved a mode
    elsewhere    \* another page saved last, and no load has shown it since

entryVars == <<nav, guards, token, staged, route, epoch, leaving>>
visitVars == <<view, dead, timers>>
modeVars == <<mode, serverMode, saving, saves, missed, others, elsewhere>>
vars == <<entryVars, visitVars, modeVars, themeVars>>

NoStatus == [nav |-> 0, epoch |-> 0]
NoView == [visit |-> 0, phase |-> "none"]
Poll == MaxSaves + 2  \* a number no connection load has

\* configured: configuredMode; cached: connectionConfig;
\* loads: loadConnectionMode calls in flight, the last of them is number;
\* owner: who sent the newest status request in flight, 0 if nobody.
FreshMode ==
    [configured |-> Transparent, cached |-> Unknown, loads |-> {}, number |-> 0,
     owner |-> 0]

Init ==
    /\ nav = 0 /\ guards = {} /\ token = 0 /\ staged = NoStatus
    /\ route = [page |-> "none", nav |-> 0] /\ epoch = 0 /\ leaving = 0
    /\ view = NoView /\ dead = {} /\ timers = {}
    /\ mode = FreshMode /\ serverMode \in Modes /\ saving = {} /\ saves = 0
    /\ missed = FALSE /\ others = 0 /\ elsewhere = FALSE
    /\ ThemeInit

-----------------------------------------------------------------------------
(* Navigation *)

\* beginDashboardInitialStatusNavigation, the first thing a guard does.
Begin == nav' = nav + 1 /\ token' = nav' /\ staged' = NoStatus

Unmount ==
    /\ dead' = dead \union {v \in {view} : v.phase \in {"theme", "loads"}}
    /\ timers' = timers \ {view.visit}
    /\ view' = NoView
    /\ mode' = FreshMode

\* The guard lets /login pass at once.
ShowLogin ==
    /\ Begin
    /\ route' = [page |-> "login", nav |-> nav']
    /\ Unmount
    /\ UNCHANGED <<serverMode, saving, saves, missed, others, elsewhere, themeVars>>

\* A route to the mounted dashboard reuses the component.
ShowDashboard(n) ==
    /\ route' = [page |-> "dashboard", nav |-> n]
    /\ IF view # NoView
       THEN UNCHANGED <<visitVars, modeVars, themeVars>>
       ELSE /\ view' = [visit |-> n, phase |-> "theme"]
            /\ mode' = FreshMode
            /\ missed' = FALSE /\ elsewhere' = FALSE
            /\ SendSync(n)
            /\ UNCHANGED <<dead, timers, serverMode, saving, saves, others>>

\* Every guard in flight may still redirect.
MayNavigate == nav + Cardinality(guards) < MaxNavs

GoToLogin ==
    /\ MayNavigate /\ route.page # "login"
    /\ ShowLogin
    /\ UNCHANGED <<guards, epoch, leaving>>

\* A link, the address bar, a legacy link or a login that succeeded.
GoToDashboard ==
    /\ MayNavigate /\ nav + Cardinality(guards) + 1 < MaxNavs
    /\ Begin
    /\ guards' = guards \union {[nav |-> nav', epoch |-> epoch]}
    /\ UNCHANGED <<route, epoch, leaving, visitVars, modeVars, themeVars>>

\* The status is that of the epoch in which the guard asked for it.
Stage(g) == staged' = IF g.nav = token THEN g ELSE staged

Arrive(n) ==
    IF n = nav THEN ShowDashboard(n) ELSE UNCHANGED <<route, visitVars, modeVars, themeVars>>

GuardPasses(g) ==
    /\ g \in guards
    /\ guards' = guards \ {g}
    /\ Stage(g)
    /\ Arrive(g.nav)
    /\ UNCHANGED <<nav, token, epoch, leaving>>

\* A server error or a body that is no JSON.
GuardPassesUnstaged(g) ==
    /\ g \in guards
    /\ guards' = guards \ {g}
    /\ Arrive(g.nav)
    /\ UNCHANGED <<nav, token, staged, epoch, leaving>>

\* 401 or no connection.
GuardRedirects(g) ==
    /\ g \in guards
    /\ guards' = guards \ {g}
    /\ IF g.nav = nav
       THEN ShowLogin
       ELSE UNCHANGED <<nav, token, staged, route, visitVars, modeVars, themeVars>>
    /\ UNCHANGED <<epoch, leaving>>

\* Fault: the navigation may still stage what it asked for before.
ClearStagedOnly == staged' = NoStatus /\ UNCHANGED token

\* clearDashboardInitialStatus
ClearStatus == token' = 0 /\ staged' = NoStatus

Logout ==
    /\ view # NoView /\ epoch < MaxLogouts
    /\ ClearStatus
    /\ epoch' = epoch + 1
    /\ leaving' = leaving + 1
    /\ UNCHANGED <<nav, guards, route, visitVars, modeVars, themeVars>>

LogoutAnswered ==
    /\ leaving > 0 /\ MayNavigate
    /\ leaving' = leaving - 1
    /\ ShowLogin
    /\ UNCHANGED <<guards, epoch>>

LogoutFails ==
    /\ leaving > 0
    /\ leaving' = leaving - 1
    /\ UNCHANGED <<nav, guards, token, staged, route, epoch, visitVars, modeVars, themeVars>>

-----------------------------------------------------------------------------
(* The connection mode: a load joins a status request with a config request *)

\* Fault: a load does not count itself.
LoadUncounted(m) ==
    [m EXCEPT !.loads = @ \union {[number |-> m.number + 1, status |-> "waiting",
                                   config |-> "sent"]},
              !.owner = m.number + 1]

Load(m) ==
    [m EXCEPT !.number = @ + 1,
              !.loads = @ \union {[number |-> m.number + 1, status |-> "waiting",
                                   config |-> "sent"]},
              !.owner = m.number + 1]

\* applyConnectionModeState: the cached configuration decides.
Apply(m) ==
    IF m.cached = Unknown THEN m
    ELSE [m EXCEPT !.configured = m.cached]

Replace(m, l, new) == [m EXCEPT !.loads = (@ \ {l}) \union {new}]

\* The status of a load was superseded, failed, or is shown.
StatusSettles(l) ==
    /\ l \in mode.loads /\ l.status = "waiting"
    /\ \/ /\ l.number = mode.owner
          /\ mode' = Apply(Replace([mode EXCEPT !.owner = 0], l, [l EXCEPT !.status = "shown"]))
       \/ mode' = Replace([mode EXCEPT !.owner = IF @ = l.number THEN 0 ELSE @],
                          l, [l EXCEPT !.status = "null"])
    /\ UNCHANGED <<entryVars, visitVars, serverMode, saving, saves, missed, others, elsewhere,
                   themeVars>>

ConfigServed(l) ==
    /\ l \in mode.loads /\ l.config = "sent"
    /\ mode' = Replace(mode, l, [l EXCEPT !.config = serverMode])
    /\ UNCHANGED <<entryVars, visitVars, serverMode, saving, saves, missed, others, elsewhere,
                   themeVars>>

LoadEnds(l) ==
    /\ l \in mode.loads /\ l.status # "waiting" /\ l.config \in Modes
    /\ LET rest == [mode EXCEPT !.loads = @ \ {l}]
           taken == [rest EXCEPT !.cached = l.config]
       IN  IF l.number # mode.number
           THEN mode' = rest /\ UNCHANGED <<missed, elsewhere>>
           ELSE /\ mode' = IF l.status = "shown" THEN Apply(taken) ELSE taken
                /\ missed' = (missed /\ l.config # serverMode)
                /\ elsewhere' = (elsewhere /\ l.config # serverMode)
    /\ UNCHANGED <<entryVars, visitVars, serverMode, saving, saves, others, themeVars>>

\* Its status goes on alone.
ConfigFails(l) ==
    /\ l \in mode.loads /\ l.status # "waiting"
    /\ mode' = [mode EXCEPT !.loads = @ \ {l}]
    /\ missed' = (missed \/ l.number = mode.number)
    /\ UNCHANGED <<entryVars, visitVars, serverMode, saving, saves, others, elsewhere, themeVars>>

\* Fault: the configuration that is cached is not loaded again.
ModeUpdatedUnheard(m) == m

\* handleModeUpdated
ModeUpdated(m) == Load(m)

PollSent ==
    /\ view.visit \in timers
    /\ mode' = [mode EXCEPT !.owner = Poll]
    /\ UNCHANGED <<entryVars, visitVars, serverMode, saving, saves, missed, others, elsewhere,
                   themeVars>>

\* Fault: a poll shows the status and leaves the connection mode.
PollAnsweredHalf ==
    /\ mode.owner = Poll
    /\ mode' = [mode EXCEPT !.owner = 0]
    /\ UNCHANGED <<entryVars, visitVars, serverMode, saving, saves, missed, others, elsewhere,
                   themeVars>>

PollAnswered ==
    /\ mode.owner = Poll
    /\ mode' = Apply([mode EXCEPT !.owner = 0])
    /\ UNCHANGED <<entryVars, visitVars, serverMode, saving, saves, missed, others, elsewhere,
                   themeVars>>

PollFails ==
    /\ mode.owner = Poll
    /\ mode' = [mode EXCEPT !.owner = 0]
    /\ UNCHANGED <<entryVars, visitVars, serverMode, saving, saves, missed, others, elsewhere,
                   themeVars>>

\* The mode picked on the page (viewMode), which is any; the button is off
\* for the configured one and while a save of this view is in flight.
SaveMode(m) ==
    /\ view # NoView /\ saves < MaxSaves
    /\ m # mode.configured /\ \A s \in saving : s.visit # view.visit
    /\ saving' = saving \union {[visit |-> view.visit, mode |-> m, served |-> FALSE]}
    /\ saves' = saves + 1
    /\ UNCHANGED <<entryVars, visitVars, mode, serverMode, missed, others, elsewhere, themeVars>>

SaveServed(s) ==
    /\ s \in saving /\ ~s.served
    /\ serverMode' = s.mode
    /\ elsewhere' = FALSE
    /\ saving' = (saving \ {s}) \union {[s EXCEPT !.served = TRUE]}
    /\ UNCHANGED <<entryVars, visitVars, mode, saves, missed, others, themeVars>>

\* Another tab or client: this page gets no event, and its polls load no
\* configuration.
ModeSavedElsewhere(m) ==
    /\ others < MaxOthers /\ m # serverMode
    /\ serverMode' = m
    /\ others' = others + 1
    /\ elsewhere' = TRUE
    /\ UNCHANGED <<entryVars, visitVars, mode, saving, saves, missed, themeVars>>

\* The event reaches whichever dashboard listens by now.
SaveAnswered(s) ==
    /\ s \in saving /\ s.served
    /\ LET shown == IF view.visit = s.visit
                    THEN [mode EXCEPT !.configured = s.mode] ELSE mode
           heard == view.visit \in timers
       IN  /\ mode' = IF heard THEN ModeUpdated(shown) ELSE shown
           /\ missed' = (missed \/ ~heard)
    /\ saving' = saving \ {s}
    /\ UNCHANGED <<entryVars, visitVars, serverMode, saves, others, elsewhere, themeVars>>

SaveFails(s) ==
    /\ s \in saving
    /\ saving' = saving \ {s}
    /\ missed' = (missed \/ s.served)
    /\ UNCHANGED <<entryVars, visitVars, mode, serverMode, saves, others, elsewhere, themeVars>>

-----------------------------------------------------------------------------
(* onMounted *)

\* route.meta is read after the await, of the route that is shown by then.
Consume == staged' = IF route.nav = token THEN NoStatus ELSE staged

ThemeSynced(v) ==
    /\ v.phase = "theme" /\ \A s \in syncs : s.visit # v.visit
    /\ Consume
    /\ IF v = view
       THEN view' = [view EXCEPT !.phase = "loads"] /\ mode' = Load(mode) /\ UNCHANGED dead
       ELSE /\ dead' = (dead \ {v}) \union {[v EXCEPT !.phase = "loads"]}
            /\ UNCHANGED <<view, mode>>
    /\ UNCHANGED <<nav, guards, token, route, epoch, leaving, timers, serverMode, saving,
                   saves, missed, others, elsewhere, themeVars>>

\* Fault: the generation is not compared before the timers are registered.
RegisterAnyway(v) == timers' = timers \union {v.visit}

\* generation !== mountGeneration
Register(v) == timers' = IF v = view THEN timers \union {v.visit} ELSE timers

\* Promise.all waits for the providers and the certificates as well.
LoadsSettled(v) ==
    /\ v.phase = "loads" /\ (v = view => mode.loads = {})
    /\ Register(v)
    /\ IF v = view
       THEN view' = [view EXCEPT !.phase = "ready"] /\ UNCHANGED dead
       ELSE dead' = dead \ {v} /\ UNCHANGED view
    /\ UNCHANGED <<entryVars, modeVars, themeVars>>

-----------------------------------------------------------------------------
Navigations ==
    \/ GoToLogin \/ GoToDashboard
    \/ \E g \in guards : GuardPasses(g) \/ GuardPassesUnstaged(g) \/ GuardRedirects(g)
    \/ Logout \/ LogoutAnswered \/ LogoutFails

Mounting == \E v \in dead \union {view} : ThemeSynced(v) \/ LoadsSettled(v)

Answers ==
    \/ \E l \in mode.loads : StatusSettles(l) \/ ConfigServed(l) \/ LoadEnds(l)
    \/ \E l \in mode.loads : ConfigFails(l)
    \/ \E s \in saving : SaveServed(s) \/ SaveAnswered(s) \/ SaveFails(s)

ThemeAnswers ==
    /\ \E s \in syncs : SyncServed(s) \/ SyncAnswered(s) \/ SyncFails(s)
    /\ UNCHANGED <<entryVars, visitVars, modeVars>>

Theming ==
    /\ \/ view # NoView /\ \E t \in Themes : Choose(t)
       \/ \E p \in puts : PutEnds(p)
    /\ UNCHANGED <<entryVars, visitVars, modeVars>>

Next ==
    \/ Navigations \/ Mounting \/ Answers \/ ThemeAnswers \/ Theming
    \/ PollSent \/ PollAnswered \/ PollFails
    \/ \E m \in Modes : SaveMode(m) \/ ModeSavedElsewhere(m)

Spec == Init /\ [][Next]_vars

\* Every fetch settles, the interval fires, and it is not forever that the
\* interval is faster than the answers.
Fairness ==
    /\ WF_vars(Mounting) /\ WF_vars(Answers) /\ WF_vars(ThemeAnswers)
    /\ WF_vars(PollSent) /\ SF_vars(PollAnswered)

FairSpec == Spec /\ Fairness

-----------------------------------------------------------------------------
(* The shape of the state; a status request is owned by a load that waits
   for it, and nothing of the connection mode outlives the view. *)
TypeOK ==
    /\ nav \in 0 .. MaxNavs /\ token \in 0 .. nav
    /\ guards \subseteq [nav : 1 .. nav, epoch : 0 .. epoch]
    /\ staged \in [nav : 0 .. nav, epoch : 0 .. MaxLogouts]
    /\ route \in [page : {"none", "login", "dashboard"}, nav : 0 .. nav]
    /\ epoch \in 0 .. MaxLogouts /\ leaving \in 0 .. MaxLogouts
    /\ view \in [visit : 0 .. nav, phase : {"none", "theme", "loads", "ready"}]
    /\ dead \subseteq [visit : 1 .. nav, phase : {"theme", "loads"}]
    /\ (view = NoView) = (route.page # "dashboard")
    /\ view = NoView => mode = FreshMode
    /\ mode.configured \in Modes
    /\ mode.cached \in Modes \union {Unknown}
    /\ \A l \in mode.loads : l.number \in 1 .. mode.number
    /\ mode.owner \in {0, Poll} \union {l.number : l \in {k \in mode.loads : k.status = "waiting"}}
    /\ serverMode \in Modes /\ missed \in BOOLEAN /\ elsewhere \in BOOLEAN
    /\ saving \subseteq [visit : 1 .. nav, mode : Modes, served : BOOLEAN]
    /\ saves \in 0 .. MaxSaves /\ others \in 0 .. MaxOthers
    /\ ThemeTypeOK

(* The intervals and window listeners are those of the dashboard that is
   mounted, once its onMounted is through: none is left by a dashboard that
   was unmounted during an await (DashboardView.vue:1047). *)
TimersHaveOwner == timers = {v.visit : v \in {u \in {view} : u.phase = "ready"}}

(* A staged status was asked for by the navigation that began last and since
   the last logout, however guards, logouts and the awaits of dashboards
   that are gone interleave: no view starts from the status of an older
   navigation, nor from one that a guard asked for in an earlier login and
   got in this one (dashboardInitialStatus.ts). *)
StagedForThisVisit ==
    staged # NoStatus => staged.nav = nav /\ staged.epoch = epoch

(* When nothing is in flight the cached configuration, which decides the
   mode that every poll shows, is the server's, unless an answer was lost, a
   save was answered before the view listened, or the server's mode is one
   that another page saved after the cached one was loaded: no poll loads
   the configuration again (DashboardView.vue:1390). *)
StaleModeHasCause ==
    view.phase = "ready" /\ mode.loads = {} /\ saving = {} /\ mode.cached # serverMode
        => missed \/ elsewhere

(* With the same exceptions a dashboard that stays open ends up showing the
   server's connection mode and keeps showing it, although a poll that
   overtakes the reload after a save reverts it for a while.  A mode saved
   from another page it shows only when a load of its own reads it. *)
ModeConverges ==
    <>[](view.phase = "ready" /\ ~missed /\ ~elsewhere => mode.configured = serverMode)
===============================================================================
