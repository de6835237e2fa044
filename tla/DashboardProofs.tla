---------------------------- MODULE DashboardProofs ----------------------------
(***************************************************************************)
(* Proofs about Dashboard and Theme: the timers have their dashboard, the  *)
(* staged status is that of the last navigation, the chosen theme sticks,  *)
(* and a stale connection mode has a cause, for any numbers of             *)
(* navigations, logouts, saves and choices.                                *)
(***************************************************************************)
EXTENDS Dashboard, FiniteSetTheorems, TLAPS

-----------------------------------------------------------------------------
(* The timers *)

Phases == {"none", "theme", "loads", "ready"}

\* The timers are those of the mounted dashboard.
OwnerInv ==
    /\ TimersHaveOwner
    /\ view \in [visit : Nat, phase : Phases]
    /\ nav \in Nat /\ \A g \in guards : g.nav \in Nat

LEMMA NoViewType == NoView \in [visit : Nat, phase : Phases] /\ NoView.phase = "none"
BY DEF NoView, Phases

\* TimersHaveOwner without the set it is stated with.
LEMMA OwnerCases ==
    TimersHaveOwner <=>
        /\ view.phase = "ready" => timers = {view.visit}
        /\ view.phase # "ready" => timers = {}
<1>1. CASE view.phase = "ready"
  <2>1. {v.visit : v \in {u \in {view} : u.phase = "ready"}} = {view.visit}
    BY <1>1
  <2> QED
    BY <1>1, <2>1 DEF TimersHaveOwner
<1>2. CASE view.phase # "ready"
  <2>1. {v.visit : v \in {u \in {view} : u.phase = "ready"}} = {}
    BY <1>2
  <2> QED
    BY <1>2, <2>1 DEF TimersHaveOwner
<1> QED
  BY <1>1, <1>2

LEMMA OwnerCasesPrime ==
    TimersHaveOwner' <=>
        /\ view'.phase = "ready" => timers' = {view'.visit}
        /\ view'.phase # "ready" => timers' = {}
<1>1. CASE view'.phase = "ready"
  <2>1. {v.visit : v \in {u \in {view'} : u.phase = "ready"}} = {view'.visit}
    BY <1>1
  <2> QED
    BY <1>1, <2>1 DEF TimersHaveOwner
<1>2. CASE view'.phase # "ready"
  <2>1. {v.visit : v \in {u \in {view'} : u.phase = "ready"}} = {}
    BY <1>2
  <2> QED
    BY <1>2, <2>1 DEF TimersHaveOwner
<1> QED
  BY <1>1, <1>2

\* An unmounted dashboard takes its timers with it.
LEMMA UnmountKeepsOwner ==
    ASSUME OwnerInv, Unmount, nav' \in Nat, \A g \in guards' : g.nav \in Nat
    PROVE  OwnerInv'
BY NoViewType, OwnerCases, OwnerCasesPrime DEF OwnerInv, Unmount

\* A route to the dashboard mounts it, without timers, or reuses it.
LEMMA ShowKeepsOwner ==
    ASSUME OwnerInv, NEW n \in Nat, ShowDashboard(n), nav' \in Nat, \A g \in guards' : g.nav \in Nat
    PROVE  OwnerInv'
<1>1. CASE view # NoView
  BY <1>1, OwnerCases, OwnerCasesPrime DEF OwnerInv, ShowDashboard, visitVars
<1>2. CASE view = NoView
  <2>1. view' = [visit |-> n, phase |-> "theme"] /\ UNCHANGED timers
    BY <1>2 DEF ShowDashboard
  <2>2. view' \in [visit : Nat, phase : Phases] /\ view'.phase = "theme"
    BY <2>1 DEF Phases
  <2>3. timers' = {}
    BY <1>2, <2>1, NoViewType, OwnerCases DEF OwnerInv
  <2> QED
    BY <2>2, <2>3, OwnerCasesPrime DEF OwnerInv
<1> QED
  BY <1>1, <1>2

LEMMA IdleKeepsOwner ==
    ASSUME OwnerInv, UNCHANGED visitVars, nav' \in Nat, \A g \in guards' : g.nav \in Nat
    PROVE  OwnerInv'
BY OwnerCases, OwnerCasesPrime DEF OwnerInv, visitVars

\* What a step of each group does to the visits.
LEMMA NavigationKeepsOwner ==
    ASSUME OwnerInv, Navigations
    PROVE  OwnerInv'
<1>0. nav \in Nat /\ (\A g \in guards : g.nav \in Nat) /\ nav + 1 \in Nat
  BY DEF OwnerInv
<1>1. CASE GoToLogin
  BY <1>0, <1>1, UnmountKeepsOwner DEF GoToLogin, ShowLogin, Begin
<1>2. CASE GoToDashboard
  BY <1>0, <1>2, IdleKeepsOwner DEF GoToDashboard, Begin
<1>3. ASSUME NEW g \in guards, GuardPasses(g) \/ GuardPassesUnstaged(g) PROVE OwnerInv'
  <2>1. g.nav \in Nat /\ nav' \in Nat /\ \A h \in guards' : h.nav \in Nat
    BY <1>0, <1>3 DEF GuardPasses, GuardPassesUnstaged
  <2>2. Arrive(g.nav)
    BY <1>3 DEF GuardPasses, GuardPassesUnstaged
  <2> QED
    BY <2>1, <2>2, ShowKeepsOwner, IdleKeepsOwner DEF Arrive
<1>4. ASSUME NEW g \in guards, GuardRedirects(g) PROVE OwnerInv'
  BY <1>0, <1>4, UnmountKeepsOwner, IdleKeepsOwner DEF GuardRedirects, ShowLogin, Begin
<1>5. CASE Logout
  BY <1>0, <1>5, IdleKeepsOwner DEF Logout
<1>6. CASE LogoutAnswered
  BY <1>0, <1>6, UnmountKeepsOwner DEF LogoutAnswered, ShowLogin, Begin
<1>7. CASE LogoutFails
  BY <1>0, <1>7, IdleKeepsOwner DEF LogoutFails
<1> QED
  BY <1>1, <1>2, <1>3, <1>4, <1>5, <1>6, <1>7 DEF Navigations

\* The other steps leave the navigations alone, and all but Mounting the
\* visits.
LEMMA OtherSteps ==
    ASSUME [Next]_vars
    PROVE  \/ Navigations
           \/ Mounting /\ UNCHANGED <<nav, guards, token, epoch>>
           \/ UNCHANGED <<entryVars, visitVars>>
<1>1. Answers => UNCHANGED <<entryVars, visitVars>>
  BY DEF Answers, StatusSettles, ConfigServed, LoadEnds, ConfigFails, SaveServed, SaveAnswered,
         SaveFails
<1>2. ThemeAnswers \/ Theming => UNCHANGED <<entryVars, visitVars>>
  BY DEF ThemeAnswers, Theming
<1>3. PollSent \/ PollAnswered \/ PollFails => UNCHANGED <<entryVars, visitVars>>
  BY DEF PollSent, PollAnswered, PollFails
<1>4. ASSUME NEW m \in Modes, SaveMode(m) \/ ModeSavedElsewhere(m)
      PROVE  UNCHANGED <<entryVars, visitVars>>
  BY <1>4 DEF SaveMode, ModeSavedElsewhere
<1>5. ASSUME NEW v, ThemeSynced(v) \/ LoadsSettled(v)
      PROVE  UNCHANGED <<nav, guards, token, epoch>>
  BY <1>5 DEF ThemeSynced, LoadsSettled, entryVars
<1>6. vars' = vars => UNCHANGED <<entryVars, visitVars>>
  BY DEF vars
<1> QED
  BY <1>1, <1>2, <1>3, <1>4, <1>5, <1>6 DEF Next, Mounting

LEMMA StepOwner == OwnerInv /\ [Next]_vars => OwnerInv'
<1> SUFFICES ASSUME OwnerInv, [Next]_vars
             PROVE  OwnerInv'
  OBVIOUS
<1>1. CASE Navigations
  BY <1>1, NavigationKeepsOwner
<1>2. CASE Mounting /\ UNCHANGED <<nav, guards, token, epoch>>
  <2>1. PICK v \in dead \union {view} : ThemeSynced(v) \/ LoadsSettled(v)
    BY <1>2 DEF Mounting
  <2>2. nav' \in Nat /\ \A g \in guards' : g.nav \in Nat
    BY <1>2 DEF OwnerInv
  <2>3. CASE ThemeSynced(v) /\ v = view
    BY <2>2, <2>3, OwnerCases, OwnerCasesPrime DEF ThemeSynced, OwnerInv, Phases
  <2>4. CASE LoadsSettled(v) /\ v = view
    BY <2>2, <2>4, OwnerCases, OwnerCasesPrime DEF LoadsSettled, Register, OwnerInv, Phases
  <2>5. CASE v # view
    BY <2>1, <2>2, <2>5, OwnerCases, OwnerCasesPrime
    DEF ThemeSynced, LoadsSettled, Register, OwnerInv
  <2> QED
    BY <2>1, <2>3, <2>4, <2>5
<1>3. CASE UNCHANGED <<entryVars, visitVars>>
  BY <1>3, IdleKeepsOwner DEF entryVars, OwnerInv
<1> QED
  BY <1>1, <1>2, <1>3, OtherSteps

(* The intervals and listeners are those of the mounted dashboard, whatever
   was unmounted during an await. *)
THEOREM TimersAreOwned == Spec => []TimersHaveOwner
<1>1. Init => OwnerInv
  BY NoViewType, OwnerCases DEF Init, OwnerInv
<1>2. Spec => []OwnerInv
  BY <1>1, StepOwner, PTL DEF Spec
<1>3. OwnerInv => TimersHaveOwner
  BY DEF OwnerInv
<1> QED
  BY <1>2, <1>3, PTL

-----------------------------------------------------------------------------
(* The staged status *)

\* Only the last navigation can stage, unless a logout has cleared it, and
\* then its guard asked since the last logout.
StageInv ==
    /\ StagedForThisVisit
    /\ token \in {0, nav} /\ nav \in Nat
    /\ \A g \in guards : g.nav \in 1 .. nav /\ (g.nav = token => g.epoch = epoch)

LEMMA BeginKeepsStage ==
    ASSUME StageInv, Begin, UNCHANGED epoch,
           \A g \in guards' : g \in guards \/ g = [nav |-> nav', epoch |-> epoch]
    PROVE  StageInv'
<1>1. nav' = nav + 1 /\ nav' \in Nat /\ token' = nav' /\ staged' = NoStatus
  BY DEF StageInv, Begin
<1>2. ASSUME NEW g \in guards'
      PROVE  g.nav \in 1 .. nav' /\ (g.nav = token' => g.epoch = epoch')
  BY <1>1, <1>2 DEF StageInv
<1> QED
  BY <1>1, <1>2 DEF StageInv, StagedForThisVisit

\* A step that leaves the store alone, or only consumes what is staged.
LEMMA IdleKeepsStage ==
    ASSUME StageInv, UNCHANGED <<nav, token, epoch>>, staged' \in {staged, NoStatus},
           guards' \subseteq guards
    PROVE  StageInv'
BY DEF StageInv, StagedForThisVisit

LEMMA StepStage == StageInv /\ [Next]_vars => StageInv'
<1> SUFFICES ASSUME StageInv, [Next]_vars
             PROVE  StageInv'
  OBVIOUS
<1>1. CASE Navigations
  <2>1. CASE GoToLogin
    BY <2>1, BeginKeepsStage DEF GoToLogin, ShowLogin
  <2>2. CASE GoToDashboard
    BY <2>2, BeginKeepsStage DEF GoToDashboard
  <2>3. ASSUME NEW g \in guards, GuardPasses(g) PROVE StageInv'
    <3>1. UNCHANGED <<nav, token, epoch>> /\ guards' \subseteq guards
      BY <2>3 DEF GuardPasses
    <3>2. CASE g.nav = token
      <4>1. staged' = g /\ g.nav = nav /\ g.epoch = epoch
        BY <2>3, <3>2 DEF GuardPasses, Stage, StageInv
      <4> QED
        BY <3>1, <4>1 DEF StageInv, StagedForThisVisit
    <3>3. CASE g.nav # token
      BY <2>3, <3>1, <3>3, IdleKeepsStage DEF GuardPasses, Stage
    <3> QED
      BY <3>2, <3>3
  <2>4. ASSUME NEW g \in guards, GuardPassesUnstaged(g) PROVE StageInv'
    BY <2>4, IdleKeepsStage DEF GuardPassesUnstaged
  <2>5. ASSUME NEW g \in guards, GuardRedirects(g) PROVE StageInv'
    <3>1. guards' \subseteq guards /\ UNCHANGED epoch
      BY <2>5 DEF GuardRedirects
    <3>2. CASE g.nav = nav
      BY <2>5, <3>1, <3>2, BeginKeepsStage DEF GuardRedirects, ShowLogin
    <3>3. CASE g.nav # nav
      BY <2>5, <3>1, <3>3, IdleKeepsStage DEF GuardRedirects
    <3> QED
      BY <3>2, <3>3
  <2>6. CASE Logout
    <3>1. token' = 0 /\ staged' = NoStatus /\ UNCHANGED <<nav, guards>>
      BY <2>6 DEF Logout, ClearStatus
    <3>2. \A g \in guards' : g.nav \in 1 .. nav' /\ g.nav # token'
      BY <3>1 DEF StageInv
    <3> QED
      BY <3>1, <3>2 DEF StageInv, StagedForThisVisit
  <2>7. CASE LogoutAnswered
    BY <2>7, BeginKeepsStage DEF LogoutAnswered, ShowLogin
  <2>8. CASE LogoutFails
    BY <2>8, IdleKeepsStage DEF LogoutFails
  <2> QED
    BY <1>1, <2>1, <2>2, <2>3, <2>4, <2>5, <2>6, <2>7, <2>8 DEF Navigations
<1>2. CASE Mounting /\ UNCHANGED <<nav, guards, token, epoch>>
  <2>1. PICK v \in dead \union {view} : ThemeSynced(v) \/ LoadsSettled(v)
    BY <1>2 DEF Mounting
  <2>2. staged' \in {staged, NoStatus}
    BY <2>1 DEF ThemeSynced, Consume, LoadsSettled, entryVars
  <2> QED
    BY <1>2, <2>2, IdleKeepsStage
<1>3. CASE UNCHANGED <<entryVars, visitVars>>
  BY <1>3, IdleKeepsStage DEF entryVars
<1> QED
  BY <1>1, <1>2, <1>3, OtherSteps

(* What is staged was asked for by the navigation that began last and since
   the last logout, also when its guard waited through a logout. *)
THEOREM StagedIsCurrent == Spec => []StagedForThisVisit
<1>1. Init => StageInv
  BY DEF Init, StageInv, StagedForThisVisit
<1>2. Spec => []StageInv
  BY <1>1, StepStage, PTL DEF Spec
<1>3. StageInv => StagedForThisVisit
  BY DEF StageInv
<1> QED
  BY <1>2, <1>3, PTL

-----------------------------------------------------------------------------
(* The theme *)

Syncs == [visit : Nat, newest : BOOLEAN, fresh : BOOLEAN, clean : BOOLEAN,
          answer : Themes \union {"none"}]

\* A save in flight is that of the theme shown, and a sync that no choice has
\* overtaken reads what is stored for good, unless there is a doubt.
ThemeInv ==
    /\ ThemeTypeOK /\ syncs \subseteq Syncs
    /\ ~doubt /\ puts = {} => theme = stored
    /\ ~doubt => \A p, q \in puts : p = q /\ p.theme = theme
    /\ \A s \in syncs : s.fresh /\ s.clean => puts = {} /\ s.answer \in {"none", stored}
    /\ \A s \in syncs : s.fresh /\ ~s.clean => doubt

LEMMA SyncShape ==
    ASSUME NEW s \in Syncs
    PROVE  /\ [s EXCEPT !.newest = FALSE] \in Syncs
           /\ [s EXCEPT !.fresh = FALSE] \in Syncs
           /\ ~[s EXCEPT !.fresh = FALSE].fresh
           /\ [s EXCEPT !.newest = FALSE].fresh = s.fresh
           /\ [s EXCEPT !.newest = FALSE].clean = s.clean
           /\ [s EXCEPT !.newest = FALSE].answer = s.answer
BY DEF Syncs

LEMMA SendKeepsTheme ==
    ASSUME ThemeInv, NEW v \in Nat, SendSync(v)
    PROVE  ThemeInv'
<1> DEFINE new == [visit |-> v, newest |-> TRUE, fresh |-> TRUE, clean |-> puts = {},
                   answer |-> "none"]
           old == {[s EXCEPT !.newest = FALSE] : s \in syncs}
<1>1. syncs' = old \union {new} /\ doubt' = (doubt \/ puts # {})
      /\ UNCHANGED <<theme, stored, puts, choices>>
  BY DEF SendSync
<1>2. new \in Syncs /\ new.clean = (puts = {}) /\ new.answer = "none"
  BY DEF Syncs
<1>3. \A s \in old : \E r \in syncs :
         s \in Syncs /\ s.fresh = r.fresh /\ s.clean = r.clean /\ s.answer = r.answer
  <2> SUFFICES ASSUME NEW s \in old
               PROVE  \E r \in syncs :
                        s \in Syncs /\ s.fresh = r.fresh /\ s.clean = r.clean
                        /\ s.answer = r.answer
    OBVIOUS
  <2>1. PICK r \in syncs : s = [r EXCEPT !.newest = FALSE]
    OBVIOUS
  <2>2. r \in Syncs
    BY DEF ThemeInv
  <2> QED
    BY <2>1, <2>2, SyncShape
<1>4. doubt' \in BOOLEAN /\ (doubt => doubt')
  BY <1>1
<1> HIDE DEF new, old
<1>5. syncs' \subseteq Syncs
  BY <1>1, <1>2, <1>3
<1>6. ThemeTypeOK'
  BY <1>1, <1>4, <1>5 DEF ThemeInv, ThemeTypeOK, Syncs
<1>7. \A s \in syncs' : s.fresh /\ s.clean => puts = {} /\ s.answer \in {"none", stored}
  BY <1>1, <1>2, <1>3 DEF ThemeInv
<1>8. \A s \in syncs' : s.fresh /\ ~s.clean => doubt'
  BY <1>1, <1>2, <1>3 DEF ThemeInv
<1>9. ~doubt' => ~doubt
  BY <1>4
<1> QED
  BY <1>1, <1>5, <1>6, <1>7, <1>8, <1>9 DEF ThemeInv

LEMMA ServedKeepsTheme ==
    ASSUME ThemeInv, NEW s \in syncs, SyncServed(s)
    PROVE  ThemeInv'
<1>1. PICK new : new = [s EXCEPT !.answer = stored]
  OBVIOUS
<1>2. new \in Syncs /\ new.fresh = s.fresh /\ new.clean = s.clean /\ new.answer = stored
  BY <1>1 DEF Syncs, ThemeInv, ThemeTypeOK
<1>3. syncs' = (syncs \ {s}) \union {new} /\ UNCHANGED <<theme, stored, puts, choices, doubt>>
  BY <1>1 DEF SyncServed
<1>4. ThemeTypeOK' /\ syncs' \subseteq Syncs
  BY <1>2, <1>3 DEF ThemeInv, ThemeTypeOK, Syncs
<1> QED
  BY <1>2, <1>3, <1>4 DEF ThemeInv

\* Some of the syncs go, or all of those that stay are overtaken.
LEMMA AnsweredKeepsTheme ==
    ASSUME ThemeInv, NEW s \in syncs, SyncAnswered(s)
    PROVE  ThemeInv'
<1>1. CASE ~Taken(s)
  <2>1. syncs' = syncs \ {s} /\ UNCHANGED <<theme, stored, puts, choices, doubt>>
    BY <1>1 DEF SyncAnswered
  <2> QED
    BY <2>1 DEF ThemeInv, ThemeTypeOK
<1>2. CASE Taken(s)
  <2>1. /\ s.answer # "none" /\ s.fresh /\ theme' = s.answer
        /\ syncs' = {[r EXCEPT !.fresh = FALSE] : r \in syncs \ {s}}
        /\ doubt' = (doubt /\ ~s.clean)
        /\ UNCHANGED <<stored, puts, choices>>
    BY <1>2 DEF SyncAnswered, Taken
  <2>2. \A r \in syncs' : r \in Syncs /\ ~r.fresh
    <3> SUFFICES ASSUME NEW r \in syncs'
                 PROVE  r \in Syncs /\ ~r.fresh
      OBVIOUS
    <3>1. PICK q \in syncs : r = [q EXCEPT !.fresh = FALSE]
      BY <2>1
    <3>2. q \in Syncs
      BY DEF ThemeInv
    <3> QED
      BY <3>1, <3>2, SyncShape
  <2>3. theme' \in Themes /\ doubt' \in BOOLEAN
    BY <2>1 DEF ThemeInv, ThemeTypeOK
  <2>4. ThemeTypeOK' /\ syncs' \subseteq Syncs
    BY <2>1, <2>2, <2>3 DEF ThemeInv, ThemeTypeOK, Syncs
  <2>5. CASE s.clean
    <3>1. puts = {} /\ s.answer = stored
      BY <2>1, <2>5 DEF ThemeInv
    <3> QED
      BY <2>1, <2>2, <2>4, <3>1 DEF ThemeInv
  <2>6. CASE ~s.clean
    <3>1. doubt'
      BY <2>1, <2>6 DEF ThemeInv
    <3> QED
      BY <2>2, <2>4, <3>1 DEF ThemeInv
  <2> QED
    BY <2>5, <2>6
<1> QED
  BY <1>1, <1>2

LEMMA FailsKeepsTheme ==
    ASSUME ThemeInv, NEW s \in syncs, SyncFails(s)
    PROVE  ThemeInv'
BY DEF SyncFails, ThemeInv, ThemeTypeOK

LEMMA ChooseKeepsTheme ==
    ASSUME ThemeInv, NEW t \in Themes, Choose(t)
    PROVE  ThemeInv'
<1>1. PICK new : new = [number |-> choices', theme |-> t]
  OBVIOUS
<1>2. choices' \in 0 .. MaxChoices /\ choices' \in 1 .. MaxChoices
  <2>1. choices \in Nat /\ MaxChoices \in Nat
    BY DashboardAssumption DEF ThemeInv, ThemeTypeOK
  <2> QED
    BY <2>1 DEF Choose
<1>3. new \in [number : 1 .. MaxChoices, theme : Themes] /\ new.theme = t
  BY <1>1, <1>2
<1>4. /\ theme' = t /\ puts' = puts \union {new} /\ doubt' = (puts # {})
      /\ syncs' = {[s EXCEPT !.fresh = FALSE] : s \in syncs} /\ stored' = stored
  BY <1>1 DEF Choose
<1>5. \A s \in syncs' : s \in Syncs /\ ~s.fresh
  <2> SUFFICES ASSUME NEW s \in syncs'
               PROVE  s \in Syncs /\ ~s.fresh
    OBVIOUS
  <2>1. PICK r \in syncs : s = [r EXCEPT !.fresh = FALSE]
    BY <1>4
  <2>2. r \in Syncs
    BY DEF ThemeInv
  <2> QED
    BY <2>1, <2>2, SyncShape
<1>6. doubt' \in BOOLEAN
  BY <1>4
<1>7. ThemeTypeOK' /\ syncs' \subseteq Syncs
  BY <1>2, <1>3, <1>4, <1>5, <1>6 DEF ThemeInv, ThemeTypeOK, Syncs
<1>8. puts' # {} /\ (~doubt' => puts' = {new})
  BY <1>4
<1> QED
  BY <1>3, <1>4, <1>5, <1>7, <1>8 DEF ThemeInv

LEMMA PutEndsKeepsTheme ==
    ASSUME ThemeInv, NEW p \in puts, PutEnds(p)
    PROVE  ThemeInv'
<1>1. p.theme \in Themes /\ puts' = puts \ {p} /\ UNCHANGED <<theme, syncs, choices>>
  BY DEF PutEnds, ThemeInv, ThemeTypeOK
<1>2. \A s \in syncs : s.fresh => ~s.clean /\ doubt
  BY DEF ThemeInv
<1>3. CASE stored' = p.theme /\ doubt' = doubt
  <2>1. ThemeTypeOK'
    BY <1>1, <1>3 DEF ThemeInv, ThemeTypeOK
  <2>2. ~doubt' => puts' = {} /\ theme' = stored'
    BY <1>1, <1>3 DEF ThemeInv
  <2> QED
    BY <1>1, <1>2, <1>3, <2>1, <2>2 DEF ThemeInv
<1>4. CASE stored' \in {stored, p.theme} /\ doubt' = TRUE
  <2>1. ThemeTypeOK'
    BY <1>1, <1>4 DEF ThemeInv, ThemeTypeOK
  <2> QED
    BY <1>1, <1>2, <1>4, <2>1 DEF ThemeInv
<1> QED
  BY <1>3, <1>4 DEF PutEnds

\* The steps that change the theme, or what is known about it.
LEMMA ThemeSteps ==
    ASSUME [Next]_vars
    PROVE  \/ \E g \in guards : SendSync(g.nav)
           \/ \E s \in syncs : SyncServed(s) \/ SyncAnswered(s) \/ SyncFails(s)
           \/ \E t \in Themes : Choose(t)
           \/ \E p \in puts : PutEnds(p)
           \/ UNCHANGED themeVars
<1>1. ASSUME NEW g \in guards, Arrive(g.nav)
      PROVE  SendSync(g.nav) \/ UNCHANGED themeVars
  BY <1>1 DEF Arrive, ShowDashboard
<1>2. ASSUME NEW g \in guards,
             GuardPasses(g) \/ GuardPassesUnstaged(g) \/ GuardRedirects(g)
      PROVE  SendSync(g.nav) \/ UNCHANGED themeVars
  BY <1>1, <1>2 DEF GuardPasses, GuardPassesUnstaged, GuardRedirects, ShowLogin
<1>3. GoToLogin \/ GoToDashboard \/ Logout \/ LogoutAnswered \/ LogoutFails
        => UNCHANGED themeVars
  BY DEF GoToLogin, GoToDashboard, Logout, LogoutAnswered, LogoutFails, ShowLogin
<1>4. Mounting => UNCHANGED themeVars
  BY DEF Mounting, ThemeSynced, LoadsSettled
<1>5. Answers => UNCHANGED themeVars
  BY DEF Answers, StatusSettles, ConfigServed, LoadEnds, ConfigFails, SaveServed, SaveAnswered,
         SaveFails
<1>6. PollSent \/ PollAnswered \/ PollFails => UNCHANGED themeVars
  BY DEF PollSent, PollAnswered, PollFails
<1>7. ASSUME NEW m \in Modes, SaveMode(m) \/ ModeSavedElsewhere(m) PROVE UNCHANGED themeVars
  BY <1>7 DEF SaveMode, ModeSavedElsewhere
<1>8. ThemeAnswers => \E s \in syncs : SyncServed(s) \/ SyncAnswered(s) \/ SyncFails(s)
  BY DEF ThemeAnswers
<1>9. Theming => (\E t \in Themes : Choose(t)) \/ \E p \in puts : PutEnds(p)
  BY DEF Theming
<1>10. vars' = vars => UNCHANGED themeVars
  BY DEF vars
<1> QED
  BY <1>2, <1>3, <1>4, <1>5, <1>6, <1>7, <1>8, <1>9, <1>10 DEF Next, Navigations

LEMMA StepTheme ==
    ASSUME ThemeInv, StageInv, [Next]_vars
    PROVE  ThemeInv'
<1>1. CASE UNCHANGED themeVars
  BY <1>1 DEF themeVars, ThemeInv, ThemeTypeOK
<1>2. \A g \in guards : g.nav \in Nat
  BY DEF StageInv
<1> QED
  BY <1>1, <1>2, ThemeSteps, SendKeepsTheme, ServedKeepsTheme, AnsweredKeepsTheme,
     FailsKeepsTheme, ChooseKeepsTheme, PutEndsKeepsTheme

(* The theme chosen last is the one on the server as soon as it was saved. *)
THEOREM ChosenThemeSticks == Spec => []ChoiceSticks
<1> DEFINE Inv == ThemeInv /\ StageInv
<1>1. Init => Inv
  <2> SUFFICES ASSUME Init PROVE Inv
    OBVIOUS
  <2>1. StageInv
    BY DEF Init, StageInv, StagedForThisVisit
  <2>2. 0 \in 0 .. MaxChoices
    BY DashboardAssumption
  <2>3. ThemeInv
    BY <2>2 DEF Init, ThemeInit, ThemeInv, ThemeTypeOK, Themes
  <2> QED
    BY <2>1, <2>3
<1>2. Inv /\ [Next]_vars => Inv'
  BY StepTheme, StepStage
<1>3. Inv => ChoiceSticks
  BY DEF ThemeInv, ChoiceSticks
<1> HIDE DEF Inv
<1>4. Spec => []Inv
  BY <1>1, <1>2, PTL DEF Spec
<1> QED
  BY <1>3, <1>4, PTL

-----------------------------------------------------------------------------
(* The connection mode *)

ModeLoads == [number : Nat \ {0}, status : {"waiting", "shown", "null"},
              config : Modes \union {"sent"}]
ModeType == [configured : Modes, cached : Modes \union {Unknown}, loads : SUBSET ModeLoads,
             number : Nat, owner : Nat]

\* The loads have numbers of their own, and the owner waits for its status.
Good(m) ==
    /\ m \in ModeType
    /\ \A l \in m.loads : l.number <= m.number
    /\ \A k, l \in m.loads : k.number = l.number => k = l
    /\ m.owner \in {0, Poll} \/ \E l \in m.loads : l.status = "waiting" /\ l.number = m.owner

\* The configuration that is cached is the server's, or will be.
Current(m, server) ==
    \/ \E l \in m.loads : l.number = m.number /\ l.config \in {"sent", server}
    \/ m.cached = server /\ \A l \in m.loads : l.number # m.number

LEMMA ModeFacts ==
    ASSUME NEW m, Good(m)
    PROVE  /\ m.configured \in Modes /\ m.cached \in Modes \union {Unknown}
           /\ m.loads \subseteq ModeLoads /\ m.number \in Nat /\ m.owner \in Nat
           /\ \A l \in m.loads : l.number \in Nat \ {0} /\ l.config \in Modes \union {"sent"}
BY DEF Good, ModeType, ModeLoads

LEMMA FreshIsGood == Good(FreshMode) /\ FreshMode.loads = {}
BY DashboardAssumption DEF Good, FreshMode, ModeType

LEMMA LoadIsGood ==
    ASSUME NEW m, Good(m), NEW server
    PROVE  Good(Load(m)) /\ Current(Load(m), server)
<1> DEFINE new == [number |-> m.number + 1, status |-> "waiting", config |-> "sent"]
<1>1. m.number + 1 \in Nat \ {0}
  BY ModeFacts
<1>2. new \in ModeLoads /\ new.number = m.number + 1 /\ new.status = "waiting"
      /\ new.config = "sent"
  BY <1>1 DEF ModeLoads
<1>3. Load(m) = [m EXCEPT !.number = m.number + 1, !.loads = m.loads \union {new},
                          !.owner = m.number + 1]
  BY DEF Load
<1> HIDE DEF new
<1>4. /\ Load(m) \in ModeType /\ Load(m).number = m.number + 1
      /\ Load(m).loads = m.loads \union {new} /\ Load(m).owner = m.number + 1
  <2> DEFINE all == m.loads \union {new}
             next == m.number + 1
  <2>1. all \in SUBSET ModeLoads
    BY <1>2, ModeFacts
  <2>2. Load(m) = [m EXCEPT !.number = next, !.loads = all, !.owner = next] /\ next \in Nat
    BY <1>1, <1>3
  <2> HIDE DEF all, next
  <2>3. Load(m) \in ModeType /\ Load(m).number = next /\ Load(m).loads = all
        /\ Load(m).owner = next
    BY <2>1, <2>2 DEF Good, ModeType
  <2> QED
    BY <2>3 DEF all, next
<1>5. \A l \in m.loads : l.number \in Nat /\ l.number <= m.number /\ m.number \in Nat
  BY ModeFacts DEF Good
<1>6. \A l \in Load(m).loads : l.number <= Load(m).number
  <2>1. m.number \in Nat
    BY ModeFacts
  <2>2. \A l \in m.loads \union {new} : l.number <= m.number + 1
    BY <1>2, <1>5, <2>1
  <2> QED
    BY <1>4, <2>2
<1>7. \A k, l \in Load(m).loads : k.number = l.number => k = l
  <2>1. \A l \in m.loads : l.number # new.number
    BY <1>2, <1>5
  <2> QED
    BY <1>4, <2>1 DEF Good
<1>8. \E l \in Load(m).loads : l.status = "waiting" /\ l.number = Load(m).owner
  BY <1>2, <1>4
<1>9. Current(Load(m), server)
  BY <1>2, <1>4 DEF Current
<1> QED
  BY <1>4, <1>6, <1>7, <1>8, <1>9 DEF Good

\* Only the configured mode is set.
LEMMA ConfiguredIsGood ==
    ASSUME NEW m, Good(m), NEW c \in Modes, NEW server
    PROVE  /\ Good([m EXCEPT !.configured = c])
           /\ Current(m, server) => Current([m EXCEPT !.configured = c], server)
<1> DEFINE n == [m EXCEPT !.configured = c]
<1>1. /\ n \in ModeType /\ n.loads = m.loads /\ n.number = m.number /\ n.owner = m.owner
      /\ n.cached = m.cached
  BY DEF Good, ModeType
<1> HIDE DEF n
<1>2. Good(n) /\ (Current(m, server) => Current(n, server))
  BY <1>1 DEF Good, Current
<1> QED
  BY <1>2 DEF n

LEMMA ApplyIsGood ==
    ASSUME NEW m, Good(m), NEW server
    PROVE  Good(Apply(m)) /\ (Current(m, server) => Current(Apply(m), server))
<1>1. CASE m.cached = Unknown
  BY <1>1 DEF Apply
<1>2. CASE m.cached # Unknown
  BY <1>2, ModeFacts, ConfiguredIsGood DEF Apply
<1> QED
  BY <1>1, <1>2

\* Another request becomes the owner, or none.
LEMMA OwnerIsGood ==
    ASSUME NEW m, Good(m), NEW o \in {0, Poll, m.owner}, NEW server
    PROVE  /\ Good([m EXCEPT !.owner = o])
           /\ [m EXCEPT !.owner = o].owner = o /\ [m EXCEPT !.owner = o].loads = m.loads
           /\ Current(m, server) => Current([m EXCEPT !.owner = o], server)
<1> DEFINE n == [m EXCEPT !.owner = o]
<1>0. o \in Nat
  BY ModeFacts, DashboardAssumption DEF Poll
<1>1. /\ n \in ModeType /\ n.loads = m.loads /\ n.number = m.number /\ n.owner = o
      /\ n.cached = m.cached
  BY <1>0 DEF Good, ModeType
<1> HIDE DEF n
<1>2. Good(n) /\ (Current(m, server) => Current(n, server))
  BY <1>1 DEF Good, Current
<1> QED
  BY <1>1, <1>2 DEF n

\* A load goes on, and keeps the answer it had or gets the server's.
LEMMA ReplaceIsGood ==
    ASSUME NEW m, Good(m), NEW l \in m.loads, NEW new \in ModeLoads, new.number = l.number,
           new.status = l.status \/ m.owner \in {0, Poll} \/ m.owner # l.number,
           NEW server, new.config \in {l.config, server}
    PROVE  /\ Good(Replace(m, l, new))
           /\ Current(m, server) => Current(Replace(m, l, new), server)
<1> DEFINE n == Replace(m, l, new)
<1>1. /\ n \in ModeType /\ n.loads = (m.loads \ {l}) \union {new} /\ n.number = m.number
      /\ n.owner = m.owner /\ n.cached = m.cached
  BY DEF Good, ModeType, Replace
<1> HIDE DEF n
<1>2. Good(n)
  BY <1>1 DEF Good
<1>3. Current(m, server) => Current(n, server)
  BY <1>1 DEF Current
<1> QED
  BY <1>2, <1>3 DEF n

LEMMA RemoveIsGood ==
    ASSUME NEW m, Good(m), NEW l \in m.loads, l.status # "waiting"
    PROVE  LET n == [m EXCEPT !.loads = @ \ {l}]
           IN  /\ Good(n) /\ n.loads = m.loads \ {l} /\ n.number = m.number
               /\ n.cached = m.cached
<1> DEFINE n == [m EXCEPT !.loads = @ \ {l}]
<1>1. /\ n \in ModeType /\ n.loads = m.loads \ {l} /\ n.number = m.number
      /\ n.owner = m.owner /\ n.cached = m.cached
  BY DEF Good, ModeType
<1> HIDE DEF n
<1>2. Good(n)
  BY <1>1 DEF Good
<1> QED
  BY <1>1, <1>2 DEF n

LEMMA CachedIsGood ==
    ASSUME NEW m, Good(m), NEW c \in Modes
    PROVE  LET n == [m EXCEPT !.cached = c]
           IN  Good(n) /\ n.loads = m.loads /\ n.number = m.number /\ n.cached = c
<1> DEFINE n == [m EXCEPT !.cached = c]
<1>1. /\ n \in ModeType /\ n.loads = m.loads /\ n.number = m.number
      /\ n.owner = m.owner /\ n.cached = c
  BY DEF Good, ModeType
<1> HIDE DEF n
<1>2. Good(n)
  BY <1>1 DEF Good
<1> QED
  BY <1>1, <1>2 DEF n

Saves == [visit : Nat, mode : Modes, served : BOOLEAN]

ModeInv ==
    /\ Good(mode) /\ serverMode \in Modes /\ saving \subseteq Saves
    /\ view.phase \in {"loads", "ready"} /\ ~missed /\ ~elsewhere =>
         (\E s \in saving : s.served) \/ Current(mode, serverMode)

\* The mode is what it was, or what it promises has been kept.
LEMMA KeptMode ==
    ASSUME ModeInv, Good(mode'), UNCHANGED <<view, serverMode, saving, elsewhere>>,
           missed => missed',
           Current(mode, serverMode) => Current(mode', serverMode) \/ missed'
    PROVE  ModeInv'
BY DEF ModeInv

LEMMA StatusKeepsMode ==
    ASSUME ModeInv, NEW l \in mode.loads, StatusSettles(l)
    PROVE  ModeInv'
<1>1. Good(mode) /\ l \in ModeLoads
  BY ModeFacts DEF ModeInv
<1>2. UNCHANGED <<view, serverMode, saving, missed, elsewhere>> /\ l.status = "waiting"
  BY DEF StatusSettles, visitVars
<1>3. ASSUME NEW s \in {"shown", "null"}, NEW o \in {0, Poll, mode.owner}, o # l.number \/ o = Poll
      PROVE  LET n == Replace([mode EXCEPT !.owner = o], l, [l EXCEPT !.status = s])
             IN  Good(n) /\ (Current(mode, serverMode) => Current(n, serverMode))
  <2> DEFINE m == [mode EXCEPT !.owner = o]
             new == [l EXCEPT !.status = s]
  <2>1. Good(m) /\ m.owner = o /\ m.loads = mode.loads
        /\ (Current(mode, serverMode) => Current(m, serverMode))
    BY <1>1, OwnerIsGood
  <2>2. new \in ModeLoads /\ new.number = l.number /\ new.config = l.config
    BY <1>1 DEF ModeLoads
  <2> HIDE DEF m, new
  <2>3. m.owner \in {0, Poll} \/ m.owner # l.number
    BY <1>3, <2>1
  <2>4. Good(Replace(m, l, new))
        /\ (Current(m, serverMode) => Current(Replace(m, l, new), serverMode))
    BY <2>1, <2>2, <2>3, ReplaceIsGood
  <2> QED
    BY <2>1, <2>4 DEF m, new
<1>4. CASE mode' = Apply(Replace([mode EXCEPT !.owner = 0], l, [l EXCEPT !.status = "shown"]))
  <2> DEFINE n == Replace([mode EXCEPT !.owner = 0], l, [l EXCEPT !.status = "shown"])
  <2>1. 0 # l.number
    BY <1>1 DEF ModeLoads
  <2>2. Good(n) /\ (Current(mode, serverMode) => Current(n, serverMode))
    BY <1>3, <2>1
  <2>3. mode' = Apply(n)
    BY <1>4
  <2> HIDE DEF n
  <2>4. Good(mode') /\ (Current(mode, serverMode) => Current(mode', serverMode))
    BY <2>2, <2>3, ApplyIsGood
  <2> QED
    BY <1>2, <2>4, KeptMode
<1>5. ASSUME NEW o \in {0, Poll, mode.owner}, o # l.number,
             mode' = Replace([mode EXCEPT !.owner = o], l, [l EXCEPT !.status = "null"])
      PROVE  ModeInv'
  <2>1. Good(mode') /\ (Current(mode, serverMode) => Current(mode', serverMode))
    BY <1>3, <1>5
  <2> QED
    BY <1>2, <2>1, KeptMode
<1>6. CASE mode.owner = l.number
      /\ mode' = Replace([mode EXCEPT !.owner = IF @ = l.number THEN 0 ELSE @],
                         l, [l EXCEPT !.status = "null"])
  <2>1. mode' = Replace([mode EXCEPT !.owner = 0], l, [l EXCEPT !.status = "null"])
    BY <1>6
  <2>2. 0 # l.number
    BY <1>1 DEF ModeLoads
  <2> QED
    BY <1>5, <2>1, <2>2
<1>7. CASE mode.owner # l.number
      /\ mode' = Replace([mode EXCEPT !.owner = IF @ = l.number THEN 0 ELSE @],
                         l, [l EXCEPT !.status = "null"])
  <2>1. mode' = Replace([mode EXCEPT !.owner = mode.owner], l, [l EXCEPT !.status = "null"])
    BY <1>7
  <2> QED
    BY <1>5, <1>7, <2>1
<1> QED
  BY <1>4, <1>6, <1>7 DEF StatusSettles

LEMMA ServedKeepsMode ==
    ASSUME ModeInv, NEW l \in mode.loads, ConfigServed(l)
    PROVE  ModeInv'
<1> DEFINE new == [l EXCEPT !.config = serverMode]
<1>1. Good(mode) /\ l \in ModeLoads /\ serverMode \in Modes
  BY ModeFacts DEF ModeInv
<1>2. new \in ModeLoads /\ new.number = l.number /\ new.status = l.status
      /\ new.config = serverMode
  BY <1>1 DEF ModeLoads
<1>3. mode' = Replace(mode, l, new) /\ UNCHANGED <<view, serverMode, saving, missed, elsewhere>>
  BY DEF ConfigServed, visitVars
<1> HIDE DEF new
<1>4. Good(mode') /\ (Current(mode, serverMode) => Current(mode', serverMode))
  BY <1>1, <1>2, <1>3, ReplaceIsGood
<1> QED
  BY <1>3, <1>4, KeptMode

LEMMA EndKeepsMode ==
    ASSUME ModeInv, NEW l \in mode.loads, LoadEnds(l)
    PROVE  ModeInv'
<1> DEFINE rest == [mode EXCEPT !.loads = @ \ {l}]
           taken == [rest EXCEPT !.cached = l.config]
<1>1. Good(mode) /\ l.status # "waiting" /\ l.config \in Modes
      /\ UNCHANGED <<view, serverMode, saving>>
  BY DEF ModeInv, LoadEnds, visitVars
<1>2. Good(rest) /\ rest.loads = mode.loads \ {l} /\ rest.number = mode.number
      /\ rest.cached = mode.cached
  BY <1>1, RemoveIsGood
<1>3. CASE l.number # mode.number
  <2>1. mode' = rest /\ UNCHANGED <<missed, elsewhere>>
    BY <1>3 DEF LoadEnds
  <2> HIDE DEF rest
  <2>2. Current(mode, serverMode) => Current(rest, serverMode)
    BY <1>2, <1>3 DEF Current
  <2> QED
    BY <1>1, <1>2, <2>1, <2>2, KeptMode
<1>4. CASE l.number = mode.number
  <2>1. mode' \in {taken, Apply(taken)} /\ missed' = (missed /\ l.config # serverMode)
        /\ elsewhere' = (elsewhere /\ l.config # serverMode)
    BY <1>4 DEF LoadEnds
  <2> HIDE DEF rest
  <2>2. Good(taken) /\ taken.loads = mode.loads \ {l} /\ taken.number = mode.number
        /\ taken.cached = l.config
    BY <1>1, <1>2, CachedIsGood
  <2> HIDE DEF taken
  <2>3. l.config = serverMode => Current(taken, serverMode)
    BY <1>1, <1>4, <2>2 DEF Current, Good
  <2>4. Current(mode, serverMode) => l.config = serverMode
    BY <1>1, <1>4, DashboardAssumption DEF Current, Good
  <2>5. Good(mode') /\ (Current(taken, serverMode) => Current(mode', serverMode))
    BY <2>1, <2>2, ApplyIsGood
  <2> QED
    BY <1>1, <2>1, <2>3, <2>4, <2>5 DEF ModeInv
<1> QED
  BY <1>3, <1>4

LEMMA ConfigFailsKeepsMode ==
    ASSUME ModeInv, NEW l \in mode.loads, ConfigFails(l)
    PROVE  ModeInv'
<1> DEFINE rest == [mode EXCEPT !.loads = @ \ {l}]
<1>1. Good(mode) /\ l.status # "waiting" /\ UNCHANGED <<view, serverMode, saving, elsewhere>>
      /\ mode' = rest /\ missed' = (missed \/ l.number = mode.number)
  BY DEF ModeInv, ConfigFails, visitVars
<1>2. Good(rest) /\ rest.loads = mode.loads \ {l} /\ rest.number = mode.number
      /\ rest.cached = mode.cached
  BY <1>1, RemoveIsGood
<1> HIDE DEF rest
<1>3. l.number # mode.number /\ Current(mode, serverMode) => Current(rest, serverMode)
  BY <1>2 DEF Current
<1> QED
  BY <1>1, <1>2, <1>3, KeptMode

LEMMA PollKeepsMode ==
    ASSUME ModeInv, PollSent \/ PollAnswered \/ PollFails
    PROVE  ModeInv'
<1>1. Good(mode) /\ UNCHANGED <<view, serverMode, saving, missed, elsewhere>>
  BY DEF ModeInv, PollSent, PollAnswered, PollFails, visitVars
<1>2. CASE PollSent
  <2>1. mode' = [mode EXCEPT !.owner = Poll]
    BY <1>2 DEF PollSent
  <2> QED
    BY <1>1, <2>1, OwnerIsGood, KeptMode
<1>3. CASE PollAnswered
  <2>1. mode' = Apply([mode EXCEPT !.owner = 0])
    BY <1>3 DEF PollAnswered
  <2> DEFINE m == [mode EXCEPT !.owner = 0]
  <2>2. Good(m) /\ (Current(mode, serverMode) => Current(m, serverMode))
    BY <1>1, OwnerIsGood
  <2> HIDE DEF m
  <2>3. mode' = Apply(m)
    BY <2>1 DEF m
  <2>4. Good(mode') /\ (Current(mode, serverMode) => Current(mode', serverMode))
    BY <2>2, <2>3, ApplyIsGood
  <2> QED
    BY <1>1, <2>4, KeptMode
<1>4. CASE PollFails
  <2>1. mode' = [mode EXCEPT !.owner = 0]
    BY <1>4 DEF PollFails
  <2> QED
    BY <1>1, <2>1, OwnerIsGood, KeptMode
<1> QED
  BY <1>2, <1>3, <1>4

\* The saves in flight that are served are so after a step that takes none.
LEMMA SaveKeepsMode ==
    ASSUME ModeInv, view.visit \in Nat,
           \/ \E m \in Modes : SaveMode(m) \/ ModeSavedElsewhere(m)
           \/ \E s \in saving : SaveServed(s) \/ SaveAnswered(s) \/ SaveFails(s)
    PROVE  ModeInv'
<1>1. ASSUME NEW m \in Modes, SaveMode(m) PROVE ModeInv'
  <2>1. PICK new : new = [visit |-> view.visit, mode |-> m, served |-> FALSE]
    OBVIOUS
  <2>2. new \in Saves
    BY <2>1 DEF Saves
  <2>3. saving' = saving \union {new} /\ UNCHANGED <<view, mode, serverMode, missed, elsewhere>>
    BY <1>1, <2>1 DEF SaveMode, visitVars
  <2> QED
    BY <2>2, <2>3 DEF ModeInv
<1>2. ASSUME NEW s \in saving, SaveServed(s) PROVE ModeInv'
  <2>1. PICK new : new = [s EXCEPT !.served = TRUE]
    OBVIOUS
  <2>2. new \in Saves /\ new.served /\ s.mode \in Modes
    BY <2>1 DEF Saves, ModeInv
  <2>3. saving' = (saving \ {s}) \union {new} /\ serverMode' = s.mode /\ UNCHANGED <<view, mode>>
    BY <1>2, <2>1 DEF SaveServed, visitVars
  <2> QED
    BY <2>2, <2>3 DEF ModeInv
<1>3. ASSUME NEW s \in saving, SaveAnswered(s) PROVE ModeInv'
  <2> DEFINE shown == IF view.visit = s.visit
                      THEN [mode EXCEPT !.configured = s.mode] ELSE mode
             heard == view.visit \in timers
  <2>1. /\ mode' = IF heard THEN Load(shown) ELSE shown
        /\ missed' = (missed \/ ~heard)
        /\ saving' = saving \ {s} /\ UNCHANGED <<view, serverMode, elsewhere>>
    BY <1>3 DEF SaveAnswered, ModeUpdated, visitVars
  <2>2. s.mode \in Modes /\ Good(mode)
    BY DEF ModeInv, Saves
  <2>3. Good(shown)
    <3>1. CASE view.visit = s.visit
      BY <2>2, <3>1, ConfiguredIsGood
    <3>2. CASE view.visit # s.visit
      BY <2>2, <3>2
    <3> QED
      BY <3>1, <3>2
  <2> HIDE DEF shown
  <2>4. Good(Load(shown)) /\ Current(Load(shown), serverMode)
    BY <2>3, LoadIsGood
  <2>5. CASE heard
    BY <2>1, <2>4, <2>5 DEF ModeInv
  <2>6. CASE ~heard
    BY <2>1, <2>3, <2>6 DEF ModeInv
  <2> QED
    BY <2>5, <2>6
<1>4. ASSUME NEW s \in saving, SaveFails(s) PROVE ModeInv'
  BY <1>4 DEF SaveFails, ModeInv, visitVars
<1>5. ASSUME NEW m \in Modes, ModeSavedElsewhere(m) PROVE ModeInv'
  BY <1>5 DEF ModeSavedElsewhere, ModeInv
<1> QED
  BY <1>1, <1>2, <1>3, <1>4, <1>5

\* A navigation leaves the mode alone, or takes the view with its mode.
LEMMA NavigationKeepsMode ==
    ASSUME ModeInv, Navigations
    PROVE  ModeInv'
<1>1. ASSUME mode' = FreshMode, view'.phase \in {"none", "theme"}, UNCHANGED <<serverMode, saving>>
      PROVE  ModeInv'
  BY <1>1, FreshIsGood DEF ModeInv
<1>2. ASSUME UNCHANGED <<view, modeVars>>
      PROVE  ModeInv'
  BY <1>2 DEF ModeInv, modeVars
<1>3. ShowLogin => ModeInv'
  BY <1>1, NoViewType DEF ShowLogin, Unmount
<1>4. ASSUME NEW n, Arrive(n) PROVE ModeInv'
  BY <1>1, <1>2, <1>4 DEF Arrive, ShowDashboard, visitVars
<1>5. ASSUME NEW g \in guards,
             GuardPasses(g) \/ GuardPassesUnstaged(g) \/ GuardRedirects(g)
      PROVE  ModeInv'
  BY <1>2, <1>3, <1>4, <1>5 DEF GuardPasses, GuardPassesUnstaged, GuardRedirects, visitVars
<1>6. GoToLogin \/ LogoutAnswered => ModeInv'
  BY <1>3 DEF GoToLogin, LogoutAnswered
<1>7. GoToDashboard \/ Logout \/ LogoutFails => ModeInv'
  BY <1>2 DEF GoToDashboard, Logout, LogoutFails, visitVars
<1> QED
  BY <1>5, <1>6, <1>7 DEF Navigations

LEMMA MountingKeepsMode ==
    ASSUME ModeInv, OwnerInv, Mounting
    PROVE  ModeInv'
<1>1. PICK v \in dead \union {view} : ThemeSynced(v) \/ LoadsSettled(v)
  BY DEF Mounting
<1>2. CASE ThemeSynced(v) /\ v = view
  <2>1. mode' = Load(mode) /\ UNCHANGED <<serverMode, saving>>
    BY <1>2 DEF ThemeSynced
  <2> QED
    BY <2>1, LoadIsGood DEF ModeInv
<1>3. CASE LoadsSettled(v) /\ v = view
  <2>1. view.phase = "loads" /\ UNCHANGED modeVars
    BY <1>3 DEF LoadsSettled
  <2> QED
    BY <2>1 DEF ModeInv, modeVars
<1>4. CASE v # view
  <2>1. UNCHANGED <<view, modeVars>>
    BY <1>1, <1>4 DEF ThemeSynced, LoadsSettled, modeVars
  <2> QED
    BY <2>1 DEF ModeInv, modeVars
<1> QED
  BY <1>1, <1>2, <1>3, <1>4

LEMMA StepMode ==
    ASSUME OwnerInv, ModeInv, [Next]_vars
    PROVE  ModeInv'
<1>1. CASE Navigations \/ Mounting
  BY <1>1, NavigationKeepsMode, MountingKeepsMode
<1>2. CASE Answers
  BY <1>2, StatusKeepsMode, ServedKeepsMode, EndKeepsMode, ConfigFailsKeepsMode, SaveKeepsMode
  DEF Answers, OwnerInv
<1>3. CASE ThemeAnswers \/ Theming \/ UNCHANGED vars
  BY <1>3 DEF ThemeAnswers, Theming, vars, visitVars, modeVars, ModeInv
<1>4. CASE PollSent \/ PollAnswered \/ PollFails
  BY <1>4, PollKeepsMode
<1>5. CASE \E m \in Modes : SaveMode(m) \/ ModeSavedElsewhere(m)
  BY <1>5, SaveKeepsMode DEF OwnerInv
<1> QED
  BY <1>1, <1>2, <1>3, <1>4, <1>5 DEF Next

(* When nothing is in flight a cached configuration that is not the server's
   has a cause: an answer that was lost or that nobody listened to, or another
   page saved the server's mode and no load has read it since. *)
THEOREM StaleModeIsExplained == Spec => []StaleModeHasCause
<1> DEFINE Inv == OwnerInv /\ ModeInv
<1>1. Init => Inv
  <2> SUFFICES ASSUME Init PROVE Inv
    OBVIOUS
  <2>1. OwnerInv
    BY NoViewType, OwnerCases DEF Init, OwnerInv
  <2>2. ModeInv
    BY FreshIsGood, NoViewType DEF Init, ModeInv
  <2> QED
    BY <2>1, <2>2
<1>2. Inv /\ [Next]_vars => Inv'
  BY StepOwner, StepMode
<1>3. Inv => StaleModeHasCause
  BY DEF ModeInv, StaleModeHasCause, Current
<1> HIDE DEF Inv
<1>4. Spec => []Inv
  BY <1>1, <1>2, PTL DEF Spec
<1> QED
  BY <1>3, <1>4, PTL

-----------------------------------------------------------------------------
(* The shape of the state *)

\* Every guard in flight may still begin the navigation of its redirect.
EntryInv ==
    /\ nav \in Nat /\ IsFiniteSet(guards)
    /\ guards \subseteq [nav : 1 .. nav, epoch : 0 .. epoch]
    /\ nav + Cardinality(guards) <= MaxNavs
    /\ token \in 0 .. nav /\ staged \in [nav : 0 .. nav, epoch : 0 .. MaxLogouts]
    /\ epoch \in 0 .. MaxLogouts /\ leaving \in 0 .. epoch

LEMMA EntryNumbers ==
    ASSUME EntryInv
    PROVE  /\ nav \in 0 .. MaxNavs /\ epoch \in Nat /\ leaving \in 0 .. MaxLogouts
           /\ Cardinality(guards) \in Nat
<1>1. Cardinality(guards) \in Nat
  BY FS_CardinalityType DEF EntryInv
<1> QED
  BY <1>1, DashboardAssumption DEF EntryInv

LEMMA BeginType ==
    ASSUME EntryInv, Begin, IsFiniteSet(guards'),
           guards' \subseteq guards \union {[nav |-> nav', epoch |-> epoch]},
           nav' + Cardinality(guards') <= MaxNavs, UNCHANGED epoch, leaving' \in 0 .. epoch
    PROVE  EntryInv'
<1>1. nav' = nav + 1 /\ nav \in Nat /\ nav' \in Nat /\ token' = nav' /\ staged' = NoStatus
  BY DEF Begin, EntryInv
<1>2. guards' \subseteq [nav : 1 .. nav', epoch : 0 .. epoch']
  BY <1>1 DEF EntryInv
<1>3. staged' \in [nav : 0 .. nav', epoch : 0 .. MaxLogouts]
  BY <1>1, DashboardAssumption DEF NoStatus
<1> QED
  BY <1>1, <1>2, <1>3 DEF EntryInv

\* A guard that ends makes room for a navigation.
LEMMA GuardGone ==
    ASSUME EntryInv, NEW g \in guards
    PROVE  /\ IsFiniteSet(guards \ {g})
           /\ g.nav \in 1 .. nav /\ g \in [nav : 0 .. nav, epoch : 0 .. MaxLogouts]
           /\ nav + 1 + Cardinality(guards \ {g}) <= MaxNavs
           /\ nav + Cardinality(guards \ {g}) <= MaxNavs
<1>1. /\ IsFiniteSet(guards \ {g})
      /\ Cardinality(guards \ {g}) = Cardinality(guards) - 1
  BY FS_RemoveElement DEF EntryInv
<1>2. Cardinality(guards) \in Nat /\ MaxNavs \in Nat
  BY EntryNumbers, DashboardAssumption
<1>3. g.nav \in 1 .. nav /\ g \in [nav : 0 .. nav, epoch : 0 .. MaxLogouts]
  BY DashboardAssumption DEF EntryInv
<1> QED
  BY <1>1, <1>2, <1>3 DEF EntryInv

\* The store is left alone but for what is staged.
LEMMA KeptEntry ==
    ASSUME EntryInv, UNCHANGED <<nav, epoch>>, guards' \subseteq guards, IsFiniteSet(guards'),
           nav + Cardinality(guards') <= MaxNavs, token' \in {0, token}, leaving' \in 0 .. epoch,
           staged' \in [nav : 0 .. nav, epoch : 0 .. MaxLogouts]
    PROVE  EntryInv'
BY DEF EntryInv

LEMMA NoStatusType ==
    ASSUME EntryInv
    PROVE  NoStatus \in [nav : 0 .. nav, epoch : 0 .. MaxLogouts]
BY DashboardAssumption DEF NoStatus, EntryInv

LEMMA StepEntry == EntryInv /\ [Next]_vars => EntryInv'
<1> SUFFICES ASSUME EntryInv, [Next]_vars
             PROVE  EntryInv'
  OBVIOUS
<1> USE EntryNumbers, NoStatusType
<1>0. nav \in Nat /\ MaxNavs \in Nat /\ leaving \in 0 .. epoch /\ IsFiniteSet(guards)
      /\ nav + Cardinality(guards) <= MaxNavs
      /\ staged \in [nav : 0 .. nav, epoch : 0 .. MaxLogouts]
  BY DashboardAssumption DEF EntryInv
<1>1. CASE Navigations
  <2>1. CASE GoToLogin
    <3>1. Begin /\ UNCHANGED <<guards, epoch, leaving>>
          /\ nav + Cardinality(guards) < MaxNavs
      BY <2>1 DEF GoToLogin, ShowLogin, MayNavigate
    <3>2. nav' + Cardinality(guards') <= MaxNavs
      BY <1>0, <3>1 DEF Begin
    <3> QED
      BY <1>0, <3>1, <3>2, BeginType
  <2>2. CASE GoToDashboard
    <3> DEFINE new == [nav |-> nav', epoch |-> epoch]
    <3>1. Begin /\ guards' = guards \union {new} /\ UNCHANGED <<epoch, leaving>>
          /\ nav + Cardinality(guards) + 1 < MaxNavs /\ nav' = nav + 1
      BY <2>2 DEF GoToDashboard, Begin
    <3>2. new \notin guards
      BY <1>0, <3>1 DEF EntryInv
    <3>3. IsFiniteSet(guards') /\ Cardinality(guards') = Cardinality(guards) + 1
      BY <1>0, <3>1, <3>2, FS_AddElement
    <3>4. nav' + Cardinality(guards') <= MaxNavs
      BY <1>0, <3>1, <3>3
    <3> QED
      BY <1>0, <3>1, <3>3, <3>4, BeginType
  <2>3. ASSUME NEW g \in guards, GuardPasses(g) PROVE EntryInv'
    <3>1. UNCHANGED <<nav, token, epoch, leaving>> /\ guards' = guards \ {g}
      BY <2>3 DEF GuardPasses
    <3>2. staged' \in [nav : 0 .. nav, epoch : 0 .. MaxLogouts]
      BY <1>0, <2>3, GuardGone DEF GuardPasses, Stage, EntryInv
    <3> QED
      BY <1>0, <3>1, <3>2, GuardGone, KeptEntry
  <2>4. ASSUME NEW g \in guards, GuardPassesUnstaged(g) PROVE EntryInv'
    BY <1>0, <2>4, GuardGone, KeptEntry DEF GuardPassesUnstaged
  <2>5. ASSUME NEW g \in guards, GuardRedirects(g) PROVE EntryInv'
    <3>1. guards' = guards \ {g} /\ UNCHANGED <<epoch, leaving>>
      BY <2>5 DEF GuardRedirects
    <3>2. CASE g.nav = nav
      <4>1. Begin /\ nav' = nav + 1
        BY <2>5, <3>2 DEF GuardRedirects, ShowLogin, Begin
      <4> QED
        BY <1>0, <3>1, <4>1, GuardGone, BeginType
    <3>3. CASE g.nav # nav
      BY <1>0, <2>5, <3>1, <3>3, GuardGone, KeptEntry DEF GuardRedirects
    <3> QED
      BY <3>2, <3>3
  <2>6. CASE Logout
    BY <1>0, <2>6, DashboardAssumption DEF Logout, ClearStatus, EntryInv
  <2>7. CASE LogoutAnswered
    <3>1. Begin /\ UNCHANGED <<guards, epoch>> /\ leaving > 0 /\ leaving' = leaving - 1
          /\ nav + Cardinality(guards) < MaxNavs
      BY <2>7 DEF LogoutAnswered, ShowLogin, MayNavigate
    <3>2. nav' + Cardinality(guards') <= MaxNavs
      BY <1>0, <3>1 DEF Begin
    <3>3. leaving' \in 0 .. epoch
      BY <1>0, <3>1
    <3> QED
      BY <1>0, <3>1, <3>2, <3>3, BeginType
  <2>8. CASE LogoutFails
    <3>1. leaving' \in 0 .. epoch /\ UNCHANGED <<nav, guards, token, staged, epoch>>
      BY <1>0, <2>8 DEF LogoutFails
    <3> QED
      BY <1>0, <3>1, KeptEntry
  <2> QED
    BY <1>1, <2>1, <2>2, <2>3, <2>4, <2>5, <2>6, <2>7, <2>8 DEF Navigations
<1>2. CASE Mounting
  <2>1. UNCHANGED <<nav, guards, token, epoch, leaving>> /\ staged' \in {staged, NoStatus}
    BY <1>2 DEF Mounting, ThemeSynced, Consume, LoadsSettled, entryVars
  <2> QED
    BY <1>0, <2>1, KeptEntry
<1>3. CASE UNCHANGED <<entryVars, visitVars>>
  BY <1>0, <1>3, KeptEntry DEF entryVars
<1> QED
  BY <1>1, <1>2, <1>3, OtherSteps

Alive == [visit : 1 .. nav, phase : {"theme", "loads", "ready"}]

\* A dashboard is mounted exactly when its route is shown.
VisitInv ==
    /\ route \in [page : {"none", "login", "dashboard"}, nav : 0 .. nav]
    /\ \/ view = NoView /\ route.page # "dashboard" /\ mode = FreshMode
       \/ view \in Alive /\ route.page = "dashboard"
    /\ dead \subseteq [visit : 1 .. nav, phase : {"theme", "loads"}]
    /\ saving \subseteq [visit : 1 .. nav, mode : Modes, served : BOOLEAN]
    /\ saves \in 0 .. MaxSaves /\ others \in 0 .. MaxOthers
    /\ missed \in BOOLEAN /\ elsewhere \in BOOLEAN

\* A view is none, or has a visit.
LEMMA AliveIsNoNone ==
    ASSUME EntryInv, view \in Alive
    PROVE  view # NoView /\ view.visit \in 1 .. nav
BY DEF EntryInv, Alive, NoView

\* Numbers of visits stay numbers of visits.
LEMMA KeptVisits ==
    ASSUME EntryInv, VisitInv, nav' \in {nav, nav + 1},
           UNCHANGED <<view, dead, saving, saves, missed, others, elsewhere>>,
           mode' = mode \/ view \in Alive,
           route' = route
    PROVE  VisitInv'
<1>1. 1 .. nav \subseteq 1 .. nav' /\ 0 .. nav \subseteq 0 .. nav'
  BY DEF EntryInv
<1> HIDE DEF FreshMode, NoView
<1>2. dead' \subseteq [visit : 1 .. nav', phase : {"theme", "loads"}]
      /\ saving' \subseteq [visit : 1 .. nav', mode : Modes, served : BOOLEAN]
  BY <1>1 DEF VisitInv
<1>3. route' \in [page : {"none", "login", "dashboard"}, nav : 0 .. nav']
  BY <1>1 DEF VisitInv
<1>4. view \in Alive => view' \in Alive'
  BY <1>1 DEF Alive
<1>5. saves' \in 0 .. MaxSaves /\ others' \in 0 .. MaxOthers
      /\ missed' \in BOOLEAN /\ elsewhere' \in BOOLEAN
  BY DEF VisitInv
<1>6. \/ view' = NoView /\ route'.page # "dashboard" /\ mode' = FreshMode
      \/ view' \in Alive' /\ route'.page = "dashboard"
  <2>1. CASE view \in Alive /\ route.page = "dashboard"
    BY <1>4, <2>1
  <2>2. CASE ~(view \in Alive /\ route.page = "dashboard")
    <3>1. view = NoView /\ route.page # "dashboard" /\ mode = FreshMode
      BY <2>2 DEF VisitInv
    <3>2. view \notin Alive
      BY <3>1, AliveIsNoNone
    <3> QED
      BY <3>1, <3>2
  <2> QED
    BY <2>1, <2>2
<1> QED
  BY <1>2, <1>3, <1>5, <1>6 DEF VisitInv

LEMMA LoginVisits ==
    ASSUME EntryInv, VisitInv, ShowLogin
    PROVE  VisitInv'
<1>1. nav' = nav + 1 /\ nav' \in 0 .. nav' /\ 1 .. nav \subseteq 1 .. nav'
  BY DEF ShowLogin, Begin, EntryInv
<1>2. route' = [page |-> "login", nav |-> nav'] /\ view' = NoView /\ mode' = FreshMode
      /\ UNCHANGED <<saving, saves, missed, others, elsewhere>>
      /\ dead' = dead \union {v \in {view} : v.phase \in {"theme", "loads"}}
  BY DEF ShowLogin, Unmount
<1>3. \A v \in {view} : v.phase \in {"theme", "loads"} =>
        v \in [visit : 1 .. nav, phase : {"theme", "loads"}]
  BY DEF VisitInv, Alive, NoView
<1>4. dead' \subseteq [visit : 1 .. nav', phase : {"theme", "loads"}]
  BY <1>1, <1>2, <1>3 DEF VisitInv
<1>5. saving' \subseteq [visit : 1 .. nav', mode : Modes, served : BOOLEAN]
  BY <1>1, <1>2 DEF VisitInv
<1>6. route' \in [page : {"none", "login", "dashboard"}, nav : 0 .. nav']
      /\ route'.page # "dashboard"
  BY <1>1, <1>2
<1> HIDE DEF FreshMode, NoView
<1> QED
  BY <1>2, <1>4, <1>5, <1>6 DEF VisitInv

LEMMA ArriveVisits ==
    ASSUME EntryInv, VisitInv, NEW n \in 1 .. nav, Arrive(n), nav' = nav
    PROVE  VisitInv'
<1>1. CASE n # nav
  BY <1>1, KeptVisits DEF Arrive, visitVars, modeVars
<1>2. CASE n = nav
  <2>1. ShowDashboard(n)
    BY <1>2 DEF Arrive
  <2>2. route' = [page |-> "dashboard", nav |-> n]
    BY <2>1 DEF ShowDashboard
  <2>3. route' \in [page : {"none", "login", "dashboard"}, nav : 0 .. nav']
        /\ route'.page = "dashboard"
    BY <2>2 DEF EntryInv
  <2>4. CASE view # NoView
    <3>1. UNCHANGED <<view, dead, saving, saves, missed, others, elsewhere, mode>> /\ view \in Alive
      BY <2>1, <2>4 DEF ShowDashboard, visitVars, modeVars, VisitInv
    <3> QED
      BY <2>3, <3>1 DEF VisitInv, Alive
  <2>5. CASE view = NoView
    <3>1. view' = [visit |-> n, phase |-> "theme"] /\ missed' = FALSE
          /\ elsewhere' = FALSE /\ UNCHANGED <<dead, saving, saves, others>>
      BY <2>1, <2>5 DEF ShowDashboard
    <3>2. view' \in Alive'
      BY <3>1 DEF Alive
    <3> QED
      BY <2>3, <3>1, <3>2 DEF VisitInv
  <2> QED
    BY <2>4, <2>5
<1> QED
  BY <1>1, <1>2

LEMMA StepVisits ==
    ASSUME EntryInv, VisitInv, OwnerInv, Good(mode), [Next]_vars
    PROVE  VisitInv'
<1> USE AliveIsNoNone
<1>0. nav \in Nat /\ \A g \in guards : g.nav \in 1 .. nav
  BY DEF EntryInv
<1>1. CASE Navigations
  <2>1. CASE GoToLogin \/ LogoutAnswered
    BY <2>1, LoginVisits DEF GoToLogin, LogoutAnswered
  <2>2. CASE GoToDashboard
    BY <2>2, KeptVisits DEF GoToDashboard, Begin, visitVars, modeVars
  <2>3. ASSUME NEW g \in guards, GuardPasses(g) \/ GuardPassesUnstaged(g) PROVE VisitInv'
    BY <1>0, <2>3, ArriveVisits DEF GuardPasses, GuardPassesUnstaged
  <2>4. ASSUME NEW g \in guards, GuardRedirects(g) PROVE VisitInv'
    BY <1>0, <2>4, LoginVisits, KeptVisits DEF GuardRedirects, visitVars, modeVars
  <2>5. CASE Logout \/ LogoutFails
    BY <2>5, KeptVisits DEF Logout, LogoutFails, visitVars, modeVars
  <2> QED
    BY <1>1, <2>1, <2>2, <2>3, <2>4, <2>5 DEF Navigations
<1>2. CASE Mounting
  <2>1. PICK v \in dead \union {view} : ThemeSynced(v) \/ LoadsSettled(v)
    BY <1>2 DEF Mounting
  <2>2. UNCHANGED <<nav, route, saving, saves, missed, others, elsewhere>>
    BY <2>1 DEF ThemeSynced, LoadsSettled, entryVars, modeVars
  <2>3. CASE v = view
    <3>1. view \in Alive /\ route.page = "dashboard"
      BY <2>1, <2>3 DEF ThemeSynced, LoadsSettled, VisitInv, NoView
    <3>2. view' \in Alive /\ dead' = dead
      BY <2>1, <2>3, <3>1 DEF ThemeSynced, LoadsSettled, Alive
    <3> QED
      BY <2>2, <3>1, <3>2 DEF VisitInv, Alive
  <2>4. CASE v # view
    <3>1. v \in [visit : 1 .. nav, phase : {"theme", "loads"}] /\ UNCHANGED <<view, mode>>
      BY <2>1, <2>4 DEF ThemeSynced, LoadsSettled, VisitInv, modeVars
    <3>2. [v EXCEPT !.phase = "loads"] \in [visit : 1 .. nav, phase : {"theme", "loads"}]
      BY <3>1
    <3>3. dead' \subseteq [visit : 1 .. nav, phase : {"theme", "loads"}]
      BY <2>1, <2>4, <3>2 DEF ThemeSynced, LoadsSettled, VisitInv
    <3> HIDE DEF FreshMode, NoView
    <3> QED
      BY <2>2, <3>1, <3>3 DEF VisitInv, Alive
  <2> QED
    BY <2>3, <2>4
<1>3. CASE Answers
  <2>1. mode.loads # {} => view \in Alive
    BY FreshIsGood DEF VisitInv
  <2>2. ASSUME NEW l \in mode.loads,
               StatusSettles(l) \/ ConfigServed(l) \/ LoadEnds(l) \/ ConfigFails(l)
        PROVE  VisitInv'
    <3>1. UNCHANGED <<nav, route, view, dead, saving, saves, others>>
      BY <2>2 DEF StatusSettles, ConfigServed, LoadEnds, ConfigFails, entryVars, visitVars
    <3>2. missed' \in BOOLEAN /\ elsewhere' \in BOOLEAN
      BY <2>2 DEF StatusSettles, ConfigServed, LoadEnds, ConfigFails, VisitInv
    <3> QED
      BY <2>1, <3>1, <3>2 DEF VisitInv, Alive
  <2>3. ASSUME NEW s \in saving, SaveServed(s) PROVE VisitInv'
    <3>1. [s EXCEPT !.served = TRUE] \in [visit : 1 .. nav, mode : Modes, served : BOOLEAN]
      BY DEF VisitInv
    <3>2. UNCHANGED <<nav, route, view, dead, saves, missed, others, mode>>
          /\ elsewhere' \in BOOLEAN /\ saving' = (saving \ {s}) \union {[s EXCEPT !.served = TRUE]}
      BY <2>3 DEF SaveServed, entryVars, visitVars
    <3> HIDE DEF FreshMode, NoView
    <3> QED
      BY <3>1, <3>2 DEF VisitInv, Alive
  <2>4. ASSUME NEW s \in saving, SaveAnswered(s) PROVE VisitInv'
    <3>1. UNCHANGED <<nav, route, view, dead, saves, others, elsewhere>>
          /\ saving' = saving \ {s}
          /\ missed' \in BOOLEAN
      BY <2>4 DEF SaveAnswered, entryVars, visitVars
    <3>2. CASE view \in Alive
      BY <3>1, <3>2 DEF VisitInv, Alive
    <3>3. CASE view = NoView
      <4>1. view.visit # s.visit /\ view.visit \notin timers
        BY <3>3, OwnerCases DEF VisitInv, NoView, OwnerInv
      <4>2. mode' = mode
        BY <2>4, <4>1 DEF SaveAnswered
      <4> HIDE DEF FreshMode, NoView
      <4> QED
        BY <3>1, <4>2 DEF VisitInv, Alive
    <3> QED
      BY <3>2, <3>3 DEF VisitInv
  <2>5. ASSUME NEW s \in saving, SaveFails(s) PROVE VisitInv'
    <3>1. UNCHANGED <<nav, route, view, dead, saves, others, elsewhere, mode>>
          /\ saving' = saving \ {s}
          /\ missed' \in BOOLEAN
      BY <2>5 DEF SaveFails, entryVars, visitVars
    <3> HIDE DEF FreshMode, NoView
    <3> QED
      BY <3>1 DEF VisitInv, Alive
  <2> QED
    BY <1>3, <2>2, <2>3, <2>4, <2>5 DEF Answers
<1>4. CASE ThemeAnswers \/ Theming \/ UNCHANGED vars
  BY <1>4, KeptVisits DEF ThemeAnswers, Theming, vars, entryVars, visitVars, modeVars
<1>5. CASE PollSent \/ PollAnswered \/ PollFails
  <2>1. view \in Alive
    <3>1. Poll # 0
      BY DashboardAssumption DEF Poll
    <3>2. FreshMode.owner = 0 /\ NoView.phase = "none"
      BY DEF FreshMode, NoView
    <3>3. view = NoView => timers = {}
      BY <3>2, OwnerCases DEF OwnerInv
    <3>4. view # NoView
      BY <1>5, <3>1, <3>2, <3>3 DEF PollSent, PollAnswered, PollFails, VisitInv
    <3> QED
      BY <3>4 DEF VisitInv
  <2> QED
    BY <1>5, <2>1, KeptVisits
    DEF PollSent, PollAnswered, PollFails, entryVars, visitVars
<1>6. ASSUME NEW m \in Modes, SaveMode(m) PROVE VisitInv'
  <2>1. PICK new : new = [visit |-> view.visit, mode |-> m, served |-> FALSE]
    OBVIOUS
  <2>2. new \in [visit : 1 .. nav, mode : Modes, served : BOOLEAN]
    BY <1>6, <2>1 DEF SaveMode, VisitInv
  <2>3. UNCHANGED <<nav, route, view, dead, missed, others, elsewhere, mode>>
        /\ saving' = saving \union {new}
        /\ saves' \in 0 .. MaxSaves
    BY <1>6, <2>1, DashboardAssumption DEF SaveMode, VisitInv, entryVars, visitVars
  <2> HIDE DEF FreshMode, NoView
  <2> QED
    BY <2>2, <2>3 DEF VisitInv, Alive
<1>7. ASSUME NEW m \in Modes, ModeSavedElsewhere(m) PROVE VisitInv'
  <2>1. UNCHANGED <<nav, route, view, dead, saving, saves, missed, mode>> /\ elsewhere'
        /\ others' \in 0 .. MaxOthers
    BY <1>7, DashboardAssumption DEF ModeSavedElsewhere, VisitInv, entryVars, visitVars
  <2> HIDE DEF FreshMode, NoView
  <2> QED
    BY <2>1 DEF VisitInv, Alive
<1> QED
  BY <1>1, <1>2, <1>3, <1>4, <1>5, <1>6, <1>7 DEF Next

(* The shape of the state holds in every state: the view and the connection
   mode are those of the route, and a status request has an owner that waits
   for it or none. *)
THEOREM TypeCorrect == Spec => []TypeOK
<1> DEFINE Inv == EntryInv /\ VisitInv /\ OwnerInv /\ ModeInv /\ StageInv /\ ThemeInv
<1>1. Init => Inv
  <2> SUFFICES ASSUME Init PROVE Inv
    OBVIOUS
  <2>1. OwnerInv
    BY NoViewType, OwnerCases DEF Init, OwnerInv
  <2>2. ModeInv
    BY FreshIsGood, NoViewType DEF Init, ModeInv
  <2>3. StageInv
    BY DEF Init, StageInv, StagedForThisVisit
  <2>4. 0 \in 0 .. MaxChoices /\ 0 \in 0 .. MaxSaves /\ 0 \in 0 .. MaxOthers /\ 0 \in 0 .. MaxLogouts /\ 0 \in 0 .. 0
    BY DashboardAssumption
  <2>5. ThemeInv
    BY <2>4 DEF Init, ThemeInit, ThemeInv, ThemeTypeOK, Themes
  <2>6. EntryInv
    <3>1. IsFiniteSet({}) /\ Cardinality({}) = 0
      BY FS_EmptySet
    <3> QED
      BY <2>4, <3>1, DashboardAssumption DEF Init, EntryInv, NoStatus
  <2>7. VisitInv
    BY <2>4 DEF Init, VisitInv
  <2> QED
    BY <2>1, <2>2, <2>3, <2>5, <2>6, <2>7
<1>2. Inv /\ [Next]_vars => Inv'
  <2> SUFFICES ASSUME EntryInv, VisitInv, OwnerInv, ModeInv, StageInv, ThemeInv, [Next]_vars
               PROVE  Inv'
    OBVIOUS
  <2>1. EntryInv' /\ OwnerInv' /\ StageInv'
    BY StepEntry, StepOwner, StepStage
  <2>2. VisitInv'
    BY StepVisits DEF ModeInv
  <2>3. ModeInv'
    BY StepMode
  <2>4. ThemeInv'
    BY StepTheme
  <2> QED
    BY <2>1, <2>2, <2>3, <2>4
<1>3. Inv => TypeOK
  <2> SUFFICES ASSUME Inv PROVE TypeOK
    OBVIOUS
  <2>1. nav \in 0 .. MaxNavs /\ leaving \in 0 .. MaxLogouts /\ nav \in Nat
    BY EntryNumbers DEF EntryInv
  <2>2. view \in [visit : 0 .. nav, phase : {"none", "theme", "loads", "ready"}]
        /\ (view = NoView) = (route.page # "dashboard")
        /\ (view = NoView => mode = FreshMode)
    BY <2>1, AliveIsNoNone DEF VisitInv, Alive, NoView
  <2>3. /\ mode.configured \in Modes /\ mode.cached \in Modes \union {Unknown}
        /\ \A l \in mode.loads : l.number \in 1 .. mode.number
    BY ModeFacts DEF ModeInv, Good
  <2>4. mode.owner \in {0, Poll} \union
           {l.number : l \in {k \in mode.loads : k.status = "waiting"}}
    BY DEF ModeInv, Good
  <2> QED
    BY <2>1, <2>2, <2>3, <2>4 DEF TypeOK, EntryInv, VisitInv, ModeInv, ThemeInv
<1> HIDE DEF Inv
<1>4. Spec => []Inv
  BY <1>1, <1>2, PTL DEF Spec
<1> QED
  BY <1>3, <1>4, PTL
===============================================================================
