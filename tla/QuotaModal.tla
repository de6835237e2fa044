------------------------------- MODULE QuotaModal -------------------------------
(***************************************************************************)
(* The quota of one provider in the dashboard: the snapshot its card shows *)
(* (DashboardView: the polls, the refresh button of the card, the import), *)
(* the dialog with the settings (ProviderUsageModal), the steps of a save             *)
(* (quotaSaveFlow), what it sends (quotaForm), and the dialog that has a   *)
(* script generated (ScriptGeneratorModal).                                *)
(*                                                                         *)
(* The server is what QuotaManager shows of it: a query stores its result  *)
(* only if no save invalidated it since it began, and whoever asks while   *)
(* one of the same generation runs gets its result.  A generation is       *)
(* numbered by the revision of the settings that began it.  The clock      *)
(* numbers what happens to the snapshot, queried_at in the code.  What the *)
(* user fills in matters when a button is pressed, so it is chosen then.   *)
(***************************************************************************)
EXTENDS Naturals, FiniteSets

CONSTANTS
    Secrets,    \* the secret fields of the form
    Purposes,   \* what the template and the plan use them for
    Purpose,    \* the purpose of each secret
    Exclusive,  \* the secrets that are cleared when their purpose is left
    Uncompared, \* the secrets whose change invalidates nothing
    MaxLoads,   \* bound on the loads of all snapshots in flight
    MaxActs     \* bound on what the user, the polls and other pages begin,
                \* and on the requests that are lost

ASSUME QuotaModalAssumption ==
    /\ Purpose \in [Secrets -> Purposes]
    /\ Exclusive \subseteq Secrets /\ Uncompared \subseteq Secrets
    /\ {MaxLoads, MaxActs} \subseteq Nat

VARIABLES
    enabled,     \* whether the quota query is enabled on the server
    secrets,     \* the secrets on the server, and whether the dialog stored them
    revision,    \* how often the settings changed
    generation,  \* snapshotGenerations
    running,     \* the queries in flight: generation, and revision they ask with
    snapshot,    \* the stored snapshot, or that there is none
    clock,       \* how often a snapshot was produced or deleted
    shown,       \* the entry of quotaSnapshots
    loads,       \* loadQuotaSnapshots calls in flight
    dialog,      \* the ProviderUsageModal
    configured,  \* the secrets that savedConfig calls configured
    generator,   \* the ScriptGeneratorModal: hidden, shown or loading
    ops,         \* the handlers that wait for an answer
    acts         \* how much of MaxActs was used

serverVars == <<enabled, secrets, revision, generation, running, snapshot, clock>>
cardVars == <<shown, loads>>
dialogVars == <<dialog, configured, generator>>
vars == <<serverVars, cardVars, dialogVars, ops, acts>>

Snapshot(at, rev) == [at |-> at, some |-> TRUE, rev |-> rev]
NoSnapshot(at) == [at |-> at, some |-> FALSE, rev |-> 0]

Handlers == {"card", "import", "open", "refresh", "save", "test"}
\* asked: the query whose result is waited for; result and reply: what came
\* back; sent: the payload of a save, then what the server made of it.
Op(stage, sent) ==
    [stage |-> stage, sent |-> sent, asked |-> 0,
     result |-> [at |-> 0, ok |-> FALSE], reply |-> NoSnapshot(0)]
Nothing == [enabled |-> FALSE]
IdleOp == Op("idle", Nothing)
Busy(o) == ops[o] # IdleOp

IdleLoad == [stage |-> "idle", newest |-> FALSE, reply |-> NoSnapshot(0)]

Init ==
    /\ enabled \in BOOLEAN
    /\ secrets = [s \in Secrets |-> "old"]
    /\ revision = 0 /\ generation = 0 /\ running = {} /\ clock = 0
    /\ snapshot = NoSnapshot(0) /\ shown = snapshot
    /\ loads = [l \in 1 .. MaxLoads |-> IdleLoad]
    /\ dialog = "closed" /\ configured = {} /\ generator = "hidden"
    /\ ops = [o \in Handlers |-> IdleOp]
    /\ acts = 0

Act == acts < MaxActs /\ acts' = acts + 1

Goto(o, stage) == ops' = [ops EXCEPT ![o].stage = stage]
Ends(o) == ops' = [ops EXCEPT ![o] = IdleOp]

-----------------------------------------------------------------------------
(* What a form is sent as *)

\* The settings of the form: the purpose its template has, what was typed into
\* the fields of any template, and which clear buttons were pressed.
Forms ==
    [enabled : BOOLEAN, purpose : Purposes, typed : SUBSET Secrets, cleared : SUBSET configured]

\* Fault: a secret typed for another template is sent with the form.
AllTyped(form) == form.typed

Replaced(form) == {s \in form.typed : Purpose[s] = form.purpose}

\* buildSavePayload
SavePayload(form) ==
    [enabled |-> form.enabled,
     replace |-> Replaced(form),
     clear |-> {s \in Exclusive \intersect configured : Purpose[s] # form.purpose}
               \union (form.cleared \ Replaced(form)),
     form |-> form]

\* applyQuotaUpdate, with NormalizeForTemplate.
Patched(p) ==
    [s \in Secrets |->
        IF s \in p.replace THEN "typed"
        ELSE IF s \in p.clear \/ (s \in Exclusive /\ Purpose[s] # p.form.purpose) THEN "none"
        ELSE secrets[s]]

\* validateProviderQuotaSecretPatches, and the checks of the other fields.
Valid(p) == p.replace \intersect p.clear = {}

-----------------------------------------------------------------------------
(* The server *)

Invalidate ==
    /\ revision' = revision + 1 /\ generation' = revision'
    /\ clock' = clock + 1
    /\ snapshot' = NoSnapshot(clock')

\* isMaterialQuotaChange sees no difference: snapshot and queries stay.
Unnoticed ==
    /\ revision' \in {revision, revision + 1}
    /\ UNCHANGED <<generation, clock, snapshot>>

UpdateServed ==
    /\ ops["save"].stage = "update"
    /\ LET p == ops["save"].sent
           alters == \E s \in Uncompared : secrets'[s] # secrets[s] \/ s \in p.replace
       IN /\ Valid(p)
          /\ enabled' = p.enabled
          /\ secrets' = Patched(p)
          /\ \/ Invalidate
             \/ /\ p.enabled /\ enabled
                /\ \A s \in Secrets \ Uncompared : secrets'[s] = secrets[s]
                /\ Unnoticed /\ (alters => revision' # revision)
          /\ ops' = [ops EXCEPT
                 !["save"].stage = "updated", !["save"].reply = NoSnapshot(clock'),
                 !["save"].sent = [enabled |-> p.enabled, mine |-> revision',
                                   unnoticed |-> generation' # revision',
                                   configured |-> {s \in Secrets : secrets'[s] # "none"}]]
    /\ UNCHANGED <<running, cardVars, dialogVars, acts>>

\* Another field of the form, or the save of the configuration, is at fault.
UpdateRefused ==
    /\ ops["save"].stage = "update"
    /\ Goto("save", "refused")
    /\ UNCHANGED <<serverVars, cardVars, dialogVars, acts>>

\* Or an import, of this page or another, that overwrites the provider.
OtherPageSaves ==
    /\ Act
    /\ \/ enabled' \in BOOLEAN /\ Invalidate
       \/ enabled /\ UNCHANGED enabled /\ Unnoticed
    /\ UNCHANGED <<secrets, running, cardVars, dialogVars, ops>>

\* Who asks while a query of the generation runs waits for it; the others load
\* the settings.
JoinQuery ==
    running' = IF \E q \in running : q.gen = generation THEN running
               ELSE running \union {[gen |-> generation, rev |-> revision]}

\* The scheduler, or another page that refreshes.
QueryElsewhere ==
    /\ enabled
    /\ Act
    /\ JoinQuery
    /\ UNCHANGED <<enabled, secrets, revision, generation, snapshot, clock, cardVars, dialogVars,
                   ops>>

QueryServed(o) ==
    /\ ops[o].stage = "query"
    /\ IF enabled
       THEN /\ JoinQuery
            /\ ops' = [ops EXCEPT ![o].stage = "asked", ![o].asked = generation]
       ELSE Goto(o, "refused") /\ UNCHANGED running
    /\ UNCHANGED <<enabled, secrets, revision, generation, snapshot, clock, cardVars, dialogVars,
                   acts>>

\* The upstream answers, well or badly, and whoever asked gets the result.
Finish(q) ==
    /\ q \in running
    /\ running' = running \ {q}
    /\ clock' = clock + 1
    /\ snapshot' = IF q.gen = generation THEN Snapshot(clock', q.rev) ELSE snapshot
    /\ \E ok \in BOOLEAN :
         ops' = [o \in Handlers |->
                   IF ops[o].stage = "asked" /\ ops[o].asked = q.gen
                   THEN [ops[o] EXCEPT !.stage = "answered", !.asked = 0, !.result = [at |-> clock', ok |-> ok]]
                   ELSE ops[o]]
    /\ UNCHANGED <<enabled, secrets, revision, generation, cardVars, dialogVars, acts>>

ReloadServed(o) ==
    /\ ops[o].stage = "reload"
    /\ ops' = [ops EXCEPT ![o].stage = "loaded", ![o].reply = snapshot,
                          ![o].sent = IF o # "open" THEN @
                                      ELSE [configured |-> {s \in Secrets : secrets[s] # "none"}]]
    /\ UNCHANGED <<serverVars, cardVars, dialogVars, acts>>

-----------------------------------------------------------------------------
(* The snapshot of the card *)

\* quotaSnapshotLoadVersion += 1
Supersede(ls) == [l \in DOMAIN ls |-> [ls[l] EXCEPT !.newest = FALSE]]

NewLoad ==
    \E l \in DOMAIN loads :
        /\ loads[l] = IdleLoad
        /\ \A k \in DOMAIN loads : loads[k] = IdleLoad => l <= k
        /\ loads' = [Supersede(loads) EXCEPT ![l] = [IdleLoad EXCEPT !.stage = "sent", !.newest = TRUE]]

\* Fault: what a refresh or a save brings does not supersede the loads.
ShowNowOnly(snap) == shown' = snap /\ UNCHANGED loads

ShowNow(snap) == shown' = snap /\ loads' = Supersede(loads)

LoadSnapshots ==
    /\ Act
    /\ NewLoad
    /\ UNCHANGED <<serverVars, shown, dialogVars, ops>>

LoadServed(l) ==
    /\ loads[l].stage = "sent"
    /\ loads' = [loads EXCEPT ![l].stage = "served", ![l].reply = snapshot]
    /\ UNCHANGED <<serverVars, shown, dialogVars, ops, acts>>

LoadAnswered(l) ==
    /\ loads[l].stage = "served"
    /\ shown' = IF loads[l].newest THEN loads[l].reply ELSE shown
    /\ loads' = [loads EXCEPT ![l] = IdleLoad]
    /\ UNCHANGED <<serverVars, dialogVars, ops, acts>>

LoadFails(l) ==
    /\ loads[l] # IdleLoad
    /\ Act
    /\ loads' = [loads EXCEPT ![l] = IdleLoad]
    /\ UNCHANGED <<serverVars, shown, dialogVars, ops>>

RefreshCard ==
    /\ dialog = "closed" /\ ~Busy("card")
    /\ Act
    /\ ops' = [ops EXCEPT !["card"] = Op("query", Nothing)]
    /\ UNCHANGED <<serverVars, cardVars, dialogVars>>

\* The card does not look at the result: the stored snapshot has it.
CardAnswered ==
    /\ ops["card"].stage = "answered"
    /\ ops' = [ops EXCEPT !["card"] = Op("reload", Nothing)]
    /\ UNCHANGED <<serverVars, cardVars, dialogVars, acts>>

CardLoaded ==
    /\ ops["card"].stage = "loaded"
    /\ IF ops["card"].reply.some THEN ShowNow(ops["card"].reply) ELSE UNCHANGED cardVars
    /\ Ends("card")
    /\ UNCHANGED <<serverVars, dialogVars, acts>>

\* importProviders has answered (OtherPageSaves), and confirmImport loads all
\* snapshots, with the providers beside them.
Imported ==
    /\ ~Busy("import")
    /\ Act
    /\ ops' = [ops EXCEPT !["import"] = Op("reload", Nothing)]
    /\ UNCHANGED <<serverVars, cardVars, dialogVars>>

\* The providers are there as well.  No version is compared.
ImportLoaded ==
    /\ ops["import"].stage = "loaded"
    /\ ShowNow(ops["import"].reply)
    /\ Ends("import")
    /\ UNCHANGED <<serverVars, dialogVars, acts>>

-----------------------------------------------------------------------------
(* The dialog *)

OpenDialog ==
    /\ dialog = "closed" /\ dialog' = "loading"
    /\ Act
    /\ ops' = [ops EXCEPT !["open"] = Op("reload", Nothing)]
    /\ UNCHANGED <<serverVars, cardVars, configured, generator>>

ConfigLoaded ==
    /\ ops["open"].stage = "loaded"
    /\ dialog' = "ready"
    /\ configured' = ops["open"].sent.configured
    /\ Ends("open")
    /\ UNCHANGED <<serverVars, cardVars, generator, acts>>

\* Fault: the handlers do not look at disposed.
UnmountUnnoticed ==
    /\ dialog' = "closed" /\ configured' = {} /\ generator' = "hidden"
    /\ UNCHANGED ops

\* disposed: no handler of a closed dialog goes on.
Unmount ==
    /\ dialog' = "closed" /\ configured' = {} /\ generator' = "hidden"
    /\ ops' = [o \in Handlers |-> IF o \in {"card", "import"} THEN ops[o] ELSE IdleOp]

\* Fault: the escape key closes the dialog under a running save.
CloseAnyway ==
    /\ dialog # "closed"
    /\ Unmount /\ NewLoad
    /\ UNCHANGED <<serverVars, shown, acts>>

\* requestClose; the dashboard loads the snapshots again.
RequestClose ==
    /\ dialog # "closed" /\ ~Busy("save")
    /\ Unmount /\ NewLoad
    /\ UNCHANGED <<serverVars, shown, acts>>

RefreshNow ==
    /\ dialog = "ready" /\ ~Busy("refresh") /\ ~Busy("save")
    /\ Act
    /\ ops' = [ops EXCEPT !["refresh"] = Op("query", Nothing)]
    /\ UNCHANGED <<serverVars, cardVars, dialogVars>>

RefreshAnswered ==
    /\ ops["refresh"].stage = "answered"
    /\ ops' = [ops EXCEPT !["refresh"] =
                  IF @.result.ok THEN Op("reload", Nothing) ELSE IdleOp]
    /\ UNCHANGED <<serverVars, cardVars, dialogVars, acts>>

\* The snapshot of the dialog itself is left out.
RefreshLoaded ==
    /\ ops["refresh"].stage = "loaded"
    /\ Ends("refresh")
    /\ UNCHANGED <<serverVars, cardVars, dialogVars, acts>>

TestQuery ==
    /\ dialog = "ready" /\ ~Busy("test") /\ ~Busy("save")
    /\ Act
    /\ ops' = [ops EXCEPT !["test"] = Op("testing", Nothing)]
    /\ UNCHANGED <<serverVars, cardVars, dialogVars>>

TestEnds ==
    /\ Busy("test") /\ Ends("test")
    /\ UNCHANGED <<serverVars, cardVars, dialogVars, acts>>

-----------------------------------------------------------------------------
(* The steps of a save *)

SaveConfig ==
    /\ dialog = "ready" /\ ~Busy("save") /\ ~Busy("test")
    /\ Act
    /\ \E form \in Forms : ops' = [ops EXCEPT !["save"] = Op("update", SavePayload(form))]
    /\ UNCHANGED <<serverVars, cardVars, dialogVars>>

\* configSaved: the outcome names the new configuration, whether or not the
\* query that follows succeeds.
SaveStored == configured' = ops["save"].sent.configured

Updated ==
    /\ ops["save"].stage = "updated"
    /\ IF ops["save"].sent.enabled
       THEN Goto("save", "query") /\ UNCHANGED configured
       ELSE Goto("save", "delay") /\ SaveStored
    /\ UNCHANGED <<serverVars, cardVars, dialog, generator, acts>>

SaveAnswered ==
    /\ ops["save"].stage = "answered"
    /\ IF ops["save"].result.ok
       THEN Goto("save", "reload") /\ UNCHANGED configured
       ELSE Ends("save") /\ SaveStored
    /\ UNCHANGED <<serverVars, cardVars, dialog, generator, acts>>

\* Fault: any snapshot will do.
OwnResultOrAny(op) == TRUE

\* The snapshot is the result of the query of this save.
OwnResult(op) == op.reply.some /\ op.reply.at = op.result.at

SaveLoaded ==
    /\ ops["save"].stage = "loaded"
    /\ IF OwnResult(ops["save"]) THEN Goto("save", "delay") ELSE Ends("save")
    /\ SaveStored
    /\ UNCHANGED <<serverVars, cardVars, dialog, generator, acts>>

\* 800 ms later: saved is emitted and the dashboard closes the dialog.
ReportSaved ==
    /\ ops["save"].stage = "delay"
    /\ ShowNow(ops["save"].reply)
    /\ Unmount
    /\ UNCHANGED <<serverVars, acts>>

\* Fault: a refusal leaves the handler waiting.
RefusedLingers(o) == ops[o].stage = "refused" /\ FALSE /\ UNCHANGED vars

\* fetch throws, or the server says no.  What was stored stays stored, and the
\* dialog knows of it if the answer to the update came.
Refused(o) ==
    /\ ops[o].stage = "refused"
    /\ Ends(o)
    /\ dialog' = IF o = "open" THEN "failed" ELSE dialog
    /\ configured' = IF o = "save" /\ "configured" \in DOMAIN ops[o].sent
                     THEN ops[o].sent.configured ELSE configured
    /\ UNCHANGED <<serverVars, cardVars, generator, acts>>

RequestFails(o) ==
    /\ ops[o].stage \in {"update", "updated", "query", "asked", "answered", "reload", "loaded"}
    /\ Act
    /\ ops' = [ops EXCEPT ![o].stage = "refused",
                          ![o].sent = IF ops[o].stage = "updated" THEN Nothing ELSE @]
    /\ UNCHANGED <<serverVars, cardVars, dialogVars>>

-----------------------------------------------------------------------------
(* The dialog that generates a script *)

OpenGenerator ==
    /\ dialog = "ready" /\ generator = "hidden" /\ generator' = "shown"
    /\ Act
    /\ UNCHANGED <<serverVars, cardVars, dialog, configured, ops>>

CloseGenerator ==
    /\ generator # "hidden" /\ generator' = "hidden"
    /\ UNCHANGED <<serverVars, cardVars, dialog, configured, ops, acts>>

Generate ==
    /\ generator = "shown" /\ generator' = "loading"
    /\ Act
    /\ UNCHANGED <<serverVars, cardVars, dialog, configured, ops>>

\* The script goes into the form, which is read when it is saved.  Warnings and
\* errors keep the generator open.
Generated ==
    /\ generator = "loading" /\ generator' \in {"shown", "hidden"}
    /\ UNCHANGED <<serverVars, cardVars, dialog, configured, ops, acts>>

-----------------------------------------------------------------------------
Server ==
    \/ UpdateServed \/ UpdateRefused \/ OtherPageSaves \/ QueryElsewhere
    \/ \E o \in Handlers : QueryServed(o) \/ ReloadServed(o)
    \/ \E q \in running : Finish(q)

Card ==
    \/ LoadSnapshots \/ RefreshCard \/ CardAnswered \/ CardLoaded \/ Imported \/ ImportLoaded
    \/ \E l \in DOMAIN loads : LoadServed(l) \/ LoadAnswered(l) \/ LoadFails(l)

Dialog ==
    \/ OpenDialog \/ ConfigLoaded \/ RequestClose
    \/ RefreshNow \/ RefreshAnswered \/ RefreshLoaded \/ TestQuery \/ TestEnds
    \/ SaveConfig \/ Updated \/ SaveAnswered \/ SaveLoaded \/ ReportSaved
    \/ \E o \in Handlers : Refused(o) \/ RequestFails(o)

Generator == OpenGenerator \/ CloseGenerator \/ Generate \/ Generated

Next == Server \/ Card \/ Dialog \/ Generator

Spec == Init /\ [][Next]_vars

\* The server answers every request, and the page takes every answer.
Settles ==
    \/ UpdateServed \/ UpdateRefused
    \/ \E o \in Handlers : QueryServed(o) \/ ReloadServed(o) \/ Refused(o)
    \/ \E q \in running : Finish(q)
    \/ Updated \/ SaveAnswered \/ SaveLoaded \/ ReportSaved \/ ConfigLoaded
    \/ CardAnswered \/ CardLoaded \/ ImportLoaded \/ RefreshAnswered \/ RefreshLoaded

FairSpec == Spec /\ WF_vars(Settles)

-----------------------------------------------------------------------------
(* The shape of the state.  The handlers of the dialog run only in the dialog
   that started them. *)
TypeOK ==
    /\ enabled \in BOOLEAN
    /\ secrets \in [Secrets -> {"old", "typed", "none"}]
    /\ generation \in 0 .. revision
    /\ running \subseteq [gen : 0 .. generation, rev : 0 .. revision]
    /\ snapshot.at <= clock /\ shown.at <= clock
    /\ snapshot.some => snapshot.rev \in generation .. revision
    /\ dialog \in {"closed", "loading", "ready", "failed"}
    /\ configured \subseteq Secrets
    /\ generator \in {"hidden", "shown", "loading"}
    /\ DOMAIN ops = Handlers
    /\ Busy("open") = (dialog = "loading")
    /\ generator # "hidden" \/ Busy("save") \/ Busy("refresh") \/ Busy("test") => dialog = "ready"

(* What the card shows goes back to an older snapshot only when the refresh
   of the card, a save or an import of this page brings the one it has loaded,
   which none of them compares: the load of an opened, a closed or a polling
   page never does, however refreshes, saves, imports and loads overlap
   (quotaSnapshotLoadVersion). *)
LoadNeverOlder ==
    [][shown'.at < shown.at =>
         \E o \in {"card", "save", "import"} :
            Busy(o) /\ ~Busy(o)' /\ shown' = ops[o].reply]_vars

(* A save that reports success with the query enabled reports the snapshot
   of a query that was asked with what it stored or with something later, not
   with the settings before, and not nothing, although other pages and the
   scheduler query and save in between (quotaSaveFlow.ts).  Not so when the
   last change is one that isMaterialQuotaChange does not compare, a new
   script_api_key_2: its query may join one that was asked with the old one. *)
SavedResultIsNew ==
    ops["save"].stage = "delay" /\ ops["save"].sent.enabled =>
        /\ ops["save"].reply.some
        /\ ops["save"].reply.rev >= ops["save"].sent.mine \/ ops["save"].sent.unnoticed

(* A save replaces exactly the secrets that were typed for the template that
   is saved, and what it leaves without a value was cleared by the user or
   belongs to a template that was left (quotaForm.ts:86). *)
SecretsChangeByIntent ==
    [][\A s \in Secrets :
         secrets'[s] # secrets[s] =>
            LET form == ops["save"].sent.form
            IN \/ secrets'[s] = "typed" /\ s \in form.typed /\ Purpose[s] = form.purpose
               \/ secrets'[s] = "none" /\ s \in form.cleared
               \/ secrets'[s] = "none" /\ s \in Exclusive /\ Purpose[s] # form.purpose]_vars

(* The user learns how a save ended: the dialog is still there when it fails,
   and the card shows its result when it succeeds, whatever key or button is
   used meanwhile (requestClose, handleKeydown). *)
SaveIsReported ==
    [][Busy("save") /\ ~Busy("save")' =>
          \/ dialog' = "ready"
          \/ ops["save"].stage = "delay" /\ shown' = ops["save"].reply]_vars

(* No save keeps the dialog locked: it ends, whichever of its requests is
   refused or lost. *)
SaveEnds == Busy("save") ~> ~Busy("save")
=================================================================================
