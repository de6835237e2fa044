------------------------------ MODULE ProviderList ------------------------------
(***************************************************************************)
(* The provider cards of the dashboard (DashboardView, ProviderCard): the  *)
(* list and the poll that refreshes it, the edits of one provider, the     *)
(* optimistic reordering by drag or by the arrow buttons, the import of a  *)
(* file (providerImportFlow), and the form of one provider                 *)
(* (ProviderModal).  The server takes each request in one step, as its     *)
(* configuration store does; other pages edit the list as well.            *)
(*                                                                         *)
(* A list is the order of the providers, the stored default and who is     *)
(* disabled; of a provider's other fields only the token is kept.  A fetch *)
(* that fails before or after the server acted is the same to the page.    *)
(***************************************************************************)
EXTENDS Naturals, FiniteSetsExt, SequencesExt

CONSTANTS
    First,     \* the list the server starts with, a sequence of ids
    Fresh,     \* the ids it will generate, a sequence of ids
    File,      \* the providers of the import file, a sequence of ids
    None,      \* no provider, or the form of a provider still to be created
    OtherEdits,  \* the edits that other pages make
    MaxCalls,  \* bound on the requests in flight
    MaxActs,   \* bound on what the users of this and other pages do
    MaxFails   \* bound on the requests that fail

ASSUME ProviderAssumption ==
    /\ \A s \in {First, Fresh, File} : s \in Seq(ToSet(s))
    /\ IsInjective(First \o Fresh) /\ First # <<>>
    /\ IsInjective(File) /\ ToSet(File) \intersect ToSet(Fresh) = {}
    /\ None \notin ToSet(First \o File \o Fresh)
    /\ OtherEdits \subseteq {"delete", "toggle", "activate", "duplicate"}
    /\ {MaxCalls, MaxActs, MaxFails} \subseteq Nat
    \* Ids do not run out: an act uses one, an import of the file no more than
    \* one for each provider in it.
    /\ MaxActs * (1 + Len(File)) <= Len(Fresh)

VARIABLES
    store,     \* the list on the server
    made,      \* how many ids it generated
    tokens,    \* the API token of each provider on the server
    providers, \* the list the cards show
    active,    \* activeProviderId
    tab,       \* activeTab is the providers tab
    timer,     \* providersRefreshTimer: the handle, and whether it fires
    drag,      \* providerDragIndex, 0 when nothing is dragged
    form,      \* the open ProviderModal
    closing,   \* forms whose save waits 800 ms to report it
    stored,    \* forms whose save the server took
    preview,   \* whether importPreview holds a file
    calls,     \* the requests in flight
    acts,      \* what the users did so far
    fails      \* and how many requests failed

serverVars == <<store, made, tokens>>
shownVars == <<providers, active>>
formVars == <<form, closing, stored>>
pageVars == <<tab, timer, drag>>
bounds == <<acts, fails>>
listVars == <<serverVars, shownVars, formVars, preview, pageVars, calls, bounds>>

Ids == ToSet(First \o File \o Fresh)
Calls == 1 .. MaxCalls
CardEdits == {"delete", "toggle", "activate", "duplicate"}

Listing(order, default, off) == [order |-> order, default |-> default, off |-> off]

Mask == "mask"     \* what the server shows in place of a token
Blank == "blank"
Initial == "initial"
Typed == "typed"
Undefined == "undefined"  \* what the form holds after a refused reveal

NoForm == [number |-> 0, who |-> None, token |-> Blank, revealed |-> FALSE]
Idle == [kind |-> "none"]
Call(kind, arg) == [kind |-> kind, arg |-> arg, stage |-> "sent", reply |-> None]
Load == Call("load", None)

ListInit ==
    /\ store \in {Listing(First, First[1], {}), Listing(First, None, {First[1]})}
    /\ made = 0 /\ tokens = [p \in Ids |-> Initial]
    /\ providers = store /\ active = store.default
    /\ tab = TRUE /\ timer = [handle |-> TRUE, fires |-> TRUE] /\ drag = 0
    /\ form = NoForm /\ closing = {} /\ stored = {}
    /\ preview = FALSE
    /\ calls = [c \in Calls |-> Idle]
    /\ acts = 0 /\ fails = 0

Act == acts < MaxActs /\ acts' = acts + 1 /\ UNCHANGED fails

\* Which of the free numbers a request gets is immaterial.
Start(call) ==
    LET free == {c \in Calls : calls[c] = Idle}
    IN free # {} /\ calls' = [calls EXCEPT ![Min(free)] = call]

End(c) == calls' = [calls EXCEPT ![c] = Idle]

-----------------------------------------------------------------------------
(* What the server does with a list: the outcomes of a request, each the list
   afterwards and whether the request was accepted. *)
Accepted(list) == [ok |-> TRUE, list |-> list]
Refused(list) == [ok |-> FALSE, list |-> list]

\* GetActiveProvider: the stored default when it is enabled, else the first
\* enabled provider.
Effective(s) ==
    LET on == {i \in DOMAIN s.order : s.order[i] \notin s.off}
    IN IF \E i \in on : s.order[i] = s.default THEN s.default
       ELSE IF on = {} THEN None ELSE s.order[Min(on)]

\* generateProviderID.
NewId == Fresh[made + 1]

Deleted(s, p) ==
    LET rest == RemoveAt(s.order, CHOOSE i \in DOMAIN s.order : s.order[i] = p)
    IN Listing(rest,
               IF s.default # p THEN s.default ELSE IF rest = <<>> THEN None ELSE rest[1],
               s.off \ {p})

Toggled(s, p) ==
    IF p \in s.off
    THEN [s EXCEPT !.off = @ \ {p}]
    ELSE [s EXCEPT !.off = @ \union {p}, !.default = IF @ = p THEN None ELSE @]

Appended(s, p) == [s EXCEPT !.order = Append(@, p)]

Created(s, p) ==
    IF s.order = <<>> THEN Listing(<<p>>, p, {}) ELSE Appended(s, p)

\* Fault: the default in effect is not made the stored one.
ReorderedOnly(s, ids) == [s EXCEPT !.order = ids]

\* Reordering must not change the default in effect, so it is stored first.
Reordered(s, ids) ==
    [s EXCEPT !.order = ids,
              !.default = IF Effective(s) = None THEN @ ELSE Effective(s)]

\* Fault: a request that knows all providers but one is taken.
SameProvidersOrFewer(s, ids) == ToSet(ids) \subseteq ToSet(s.order)

SameProviders(s, ids) == ToSet(ids) = ToSet(s.order)

\* The members of a sequence that are not in S, in their order.
Without(order, S) ==
    LET kept == {i \in DOMAIN order : order[i] \notin S}
    IN [n \in 1 .. Cardinality(kept) |->
           order[CHOOSE i \in kept : Cardinality({j \in kept : j <= i}) = n]]

\* The file, with a new id for each of its providers that is in the list.
Renamed(order) ==
    LET clash == {i \in DOMAIN File : File[i] \in ToSet(order)}
    IN [i \in DOMAIN File |->
           IF i \in clash THEN Fresh[made + Cardinality({j \in clash : j <= i})] ELSE File[i]]

\* The file enables its providers; a conflict is skipped, overwritten in
\* place, or added under a new id.
Imported(s, strategy) ==
    LET merged == [s EXCEPT !.order = @ \o Without(File, ToSet(@))]
    IN CASE strategy = "skip" -> merged
         [] strategy = "overwrite" -> [merged EXCEPT !.off = @ \ ToSet(File)]
         [] strategy = "duplicate" -> [s EXCEPT !.order = @ \o Renamed(@)]

Outcome(s, kind, a) ==
    LET Known(p, list) == IF p \in ToSet(s.order) THEN Accepted(list) ELSE Refused(s)
    IN CASE kind = "delete" -> Known(a, Deleted(s, a))
         [] kind = "toggle" -> Known(a, Toggled(s, a))
         [] kind = "activate" ->
              IF a \in s.off THEN Refused(s) ELSE Known(a, [s EXCEPT !.default = a])
         [] kind = "duplicate" -> Known(a, Appended(s, NewId))
         [] kind = "reorder" ->
              IF SameProviders(s, a.ids) THEN Accepted(Reordered(s, a.ids)) ELSE Refused(s)
         [] kind = "import" -> Accepted(Imported(s, a.strategy))
         [] kind = "save" ->
              IF ~a.valid THEN Refused(s)
              ELSE IF a.who = None THEN Accepted(Created(s, NewId)) ELSE Known(a.who, s)
         [] kind = "reveal" -> Known(a.who, s)
         [] kind \in {"load", "reload"} -> Accepted(s)

\* updateProvider leaves the token alone when it is empty; a copy has the
\* token of the original, and the file its own.
TokensAfter(kind, a, list) ==
    LET Set(p, token) == [tokens EXCEPT ![p] = token]
        added == ToSet(list.order) \ ToSet(store.order)
    IN CASE kind = "save" /\ a.who = None -> Set(Last(list.order), a.token)
         [] kind = "save" /\ a.who # None /\ a.token # Blank -> Set(a.who, a.token)
         [] kind = "duplicate" -> Set(Last(list.order), tokens[a])
         [] kind = "import" ->
              [p \in Ids |-> IF p \in added \/ (a.strategy = "overwrite" /\ p \in ToSet(File))
                             THEN Initial ELSE tokens[p]]
         [] OTHER -> tokens

Take(out) ==
    /\ store' = out.list
    /\ made' = made + Cardinality({i \in DOMAIN Fresh :
                         Fresh[i] \in ToSet(out.list.order) \ ToSet(store.order)})

\* What is read of the answer: a token, or the list.
ReplyTo(k, out) ==
    CASE k.kind = "reveal" -> IF out.ok THEN tokens[k.arg.who] ELSE Undefined
      [] k.kind \in {"load", "reload", "reorder"} -> out.list
      [] OTHER -> None

Serve(c) ==
    /\ calls[c] # Idle /\ calls[c].stage = "sent"
    /\ LET k == calls[c]
           out == Outcome(store, k.kind, k.arg)
       IN /\ Take(out)
          /\ tokens' = IF out.ok THEN TokensAfter(k.kind, k.arg, out.list) ELSE tokens
          /\ stored' = IF out.ok /\ k.kind = "save" THEN stored \union {k.arg.number} ELSE stored
          /\ calls' = [calls EXCEPT ![c] =
                 [k EXCEPT !.stage = IF out.ok THEN "done" ELSE "refused",
                           !.reply = ReplyTo(k, out)]]
    /\ UNCHANGED <<shownVars, form, closing, preview, pageVars, bounds>>

\* Another page of the admin, or a failover that moves the default.
OtherPageEdits ==
    /\ Act
    /\ \E kind \in OtherEdits, p \in ToSet(store.order) : Take(Outcome(store, kind, p))
    /\ UNCHANGED <<tokens, shownVars, formVars, preview, pageVars, calls>>

-----------------------------------------------------------------------------
(* The cards *)

Shown == ToSet(providers.order)

\* delete, activate, toggle, duplicate: the list is loaded afterwards,
\* whatever the server said.
EditCard(kind, p) ==
    /\ tab /\ p \in Shown
    /\ kind = "activate" => p # providers.default /\ p \notin providers.off
    /\ Act
    /\ Start(Call(kind, p))
    /\ UNCHANGED <<serverVars, shownVars, formVars, preview, pageVars>>

Moved(order, from, to) == InsertAt(RemoveAt(order, from), to, order[from])

\* The array is reordered and shown at once; the request takes its ids.  An
\* index that a refresh left behind the end throws, and is rolled back.
ReorderTo(from, to) ==
    IF from = to \/ from > Len(providers.order)
    THEN UNCHANGED <<providers, calls>>
    ELSE /\ providers' = [providers EXCEPT !.order = Moved(@, from, to)]
         /\ Start(Call("reorder", [ids |-> providers'.order, original |-> providers]))

Grab(i) ==
    /\ tab /\ drag = 0 /\ i \in DOMAIN providers.order
    /\ Act
    /\ drag' = i
    /\ UNCHANGED <<serverVars, shownVars, formVars, preview, tab, timer, calls>>

DropOn(i) ==
    /\ tab /\ drag # 0 /\ i \in DOMAIN providers.order
    /\ drag' = 0
    /\ ReorderTo(drag, i)
    /\ UNCHANGED <<serverVars, active, formVars, preview, tab, timer, bounds>>

DragEnd ==
    /\ drag # 0 /\ drag' = 0
    /\ UNCHANGED <<serverVars, shownVars, formVars, preview, tab, timer, calls, bounds>>

\* The buttons are disabled at the ends of the list.
MoveCard(i, j) ==
    /\ tab /\ {i, j} \subseteq DOMAIN providers.order /\ (j = i + 1 \/ i = j + 1)
    /\ Act
    /\ ReorderTo(i, j)
    /\ UNCHANGED <<serverVars, active, formVars, preview, pageVars>>

-----------------------------------------------------------------------------
(* The form of one provider *)

\* Fault: the mask is sent as the token.
PayloadAsShown(token) == token

Payload(token) == IF token = Mask THEN Blank ELSE token

OpenForm(who) ==
    /\ tab /\ form = NoForm /\ who \in Shown \union {None}
    /\ Act
    /\ form' = [number |-> acts', who |-> who, revealed |-> FALSE,
                token |-> IF who = None \/ tokens[who] = Blank THEN Blank ELSE Mask]
    /\ UNCHANGED <<serverVars, shownVars, closing, stored, preview, pageVars, calls>>

TypeToken ==
    /\ form # NoForm /\ form' = [form EXCEPT !.token = Typed]
    /\ UNCHANGED <<serverVars, shownVars, closing, stored, preview, pageVars, calls, bounds>>

RevealToken ==
    /\ form.who # None /\ ~form.revealed
    /\ Start(Call("reveal", [number |-> form.number, who |-> form.who]))
    /\ UNCHANGED <<serverVars, shownVars, formVars, preview, pageVars, bounds>>

\* The button stays enabled while a save is in flight.  Whether the server
\* accepts the other fields is left open.
SaveForm ==
    /\ form # NoForm /\ form.token # Undefined
    /\ Act
    /\ \E valid \in BOOLEAN :
         Start(Call("save", [number |-> form.number, who |-> form.who,
                             token |-> Payload(form.token), valid |-> valid]))
    /\ UNCHANGED <<serverVars, shownVars, formVars, preview, pageVars>>

CloseForm ==
    /\ form # NoForm /\ form' = NoForm
    /\ UNCHANGED <<serverVars, shownVars, closing, stored, preview, pageVars, calls, bounds>>

\* emit('saved') of a form that is gone does nothing.
ReportSaved(n) ==
    /\ n \in closing
    /\ closing' = closing \ {n}
    /\ IF form.number = n THEN form' = NoForm /\ Start(Load) ELSE UNCHANGED <<form, calls>>
    /\ UNCHANGED <<serverVars, shownVars, stored, preview, pageVars, bounds>>

-----------------------------------------------------------------------------
(* The import of a file *)

ReadFile ==
    /\ tab /\ Act
    /\ preview' = TRUE
    /\ UNCHANGED <<serverVars, shownVars, formVars, pageVars, calls>>

ClosePreview ==
    /\ preview /\ preview' = FALSE
    /\ UNCHANGED <<serverVars, shownVars, formVars, pageVars, calls, bounds>>

\* The button stays enabled while an import is in flight.
ConfirmImport(strategy) ==
    /\ preview /\ Act
    /\ Start(Call("import", [strategy |-> strategy]))
    /\ UNCHANGED <<serverVars, shownVars, formVars, preview, pageVars>>

-----------------------------------------------------------------------------
(* Answers *)

Show(list) == providers' = list /\ active' = list.default

ProvidersLoaded(c) ==
    /\ calls[c].kind \in {"load", "reload"} /\ Show(calls[c].reply) /\ End(c)
    /\ UNCHANGED <<formVars, preview>>

CardAnswered(c) ==
    /\ calls[c].kind \in CardEdits
    /\ calls' = [calls EXCEPT ![c] = Load]
    /\ UNCHANGED <<shownVars, formVars, preview>>

ReorderAnswered(c) ==
    /\ calls[c].kind = "reorder"
    /\ providers' = IF calls[c].stage = "done" THEN calls[c].reply ELSE calls[c].arg.original
    /\ End(c)
    /\ UNCHANGED <<active, formVars, preview>>

\* onImported closes the preview, whatever becomes of the reload.
ImportAnswered(c) ==
    /\ calls[c].kind = "import"
    /\ preview' = FALSE
    /\ calls' = [calls EXCEPT ![c] = Call("reload", None)]
    /\ UNCHANGED <<shownVars, formVars>>

\* Fault: a refused save closes the form as well.
SaveReportedAnyway(c) ==
    /\ calls[c].kind = "save"
    /\ closing' = closing \union {calls[c].arg.number}
    /\ End(c)
    /\ UNCHANGED <<shownVars, form, stored, preview>>

SaveAnswered(c) ==
    /\ calls[c].kind = "save"
    /\ closing' = IF calls[c].stage = "done" THEN closing \union {calls[c].arg.number} ELSE closing
    /\ End(c)
    /\ UNCHANGED <<shownVars, form, stored, preview>>

RevealAnswered(c) ==
    /\ calls[c].kind = "reveal"
    /\ form' = IF form.number = calls[c].arg.number
               THEN [form EXCEPT !.token = calls[c].reply, !.revealed = TRUE] ELSE form
    /\ End(c)
    /\ UNCHANGED <<shownVars, closing, stored, preview>>

Answered(c) ==
    /\ calls[c] # Idle /\ calls[c].stage # "sent"
    /\ \/ ProvidersLoaded(c) \/ CardAnswered(c) \/ ReorderAnswered(c)
       \/ ImportAnswered(c) \/ SaveAnswered(c) \/ RevealAnswered(c)
    /\ UNCHANGED <<serverVars, pageVars, bounds>>

\* fetch throws, or the body is no JSON: only the reorder has something to
\* take back.
Failed(c) ==
    /\ calls[c] # Idle
    /\ fails < MaxFails /\ fails' = fails + 1 /\ UNCHANGED acts
    /\ providers' = IF calls[c].kind = "reorder" THEN calls[c].arg.original ELSE providers
    /\ End(c)
    /\ UNCHANGED <<serverVars, active, formVars, preview, pageVars>>

-----------------------------------------------------------------------------
(* The poll *)

\* Fault: the handle of a cleared interval is kept.
KeepHandle(open) ==
    timer' = CASE open /\ ~timer.handle -> [handle |-> TRUE, fires |-> TRUE]
               [] ~open /\ timer.handle -> [timer EXCEPT !.fires = FALSE]
               [] OTHER -> timer

EnsureProvidersRefresh(open) ==
    timer' = CASE open /\ ~timer.handle -> [handle |-> TRUE, fires |-> TRUE]
               [] ~open /\ timer.handle -> [handle |-> FALSE, fires |-> FALSE]
               [] OTHER -> timer

SwitchTab ==
    /\ tab' = ~tab
    /\ EnsureProvidersRefresh(tab')
    /\ UNCHANGED <<serverVars, shownVars, formVars, preview, drag, calls, bounds>>

Poll ==
    /\ timer.fires /\ tab
    /\ Start(Load)
    /\ UNCHANGED <<serverVars, shownVars, formVars, preview, pageVars, bounds>>

CardAction ==
    \/ \E kind \in CardEdits, p \in Ids : EditCard(kind, p)
    \/ \E i, j \in 1 .. Cardinality(Ids) : MoveCard(i, j)
    \/ \E i \in 1 .. Cardinality(Ids) : Grab(i) \/ DropOn(i)
    \/ DragEnd

FormAction ==
    \/ \E who \in Ids \union {None} : OpenForm(who)
    \/ TypeToken \/ RevealToken \/ SaveForm \/ CloseForm
    \/ \E n \in closing : ReportSaved(n)

ImportAction ==
    \/ ReadFile \/ ClosePreview
    \/ \E strategy \in {"skip", "overwrite", "duplicate"} : ConfirmImport(strategy)

ListNext ==
    \/ CardAction \/ FormAction \/ ImportAction
    \/ \E c \in Calls : Serve(c) \/ Answered(c) \/ Failed(c)
    \/ OtherPageEdits \/ SwitchTab \/ Poll

ListSpec == ListInit /\ [][ListNext]_listVars

\* Every fetch settles and the interval fires.
FairListSpec ==
    /\ ListSpec
    /\ \A c \in Calls : WF_listVars(Serve(c)) /\ WF_listVars(Answered(c))
    /\ WF_listVars(Poll)

-----------------------------------------------------------------------------
IsList(l) ==
    /\ l \in [order : Seq(Ids), default : Ids \union {None}, off : SUBSET Ids]
    /\ IsInjective(l.order)
    /\ l.off \subseteq ToSet(l.order)

(* The shape of the state.  The list on the server and the one that is shown
   have every provider once and no hole, and no token on the server is the
   mask that stands for one, whatever is saved from which form. *)
ListTypeOK ==
    /\ IsList(store) /\ IsList(providers)
    /\ made \in 0 .. Len(Fresh)
    /\ tokens \in [Ids -> {Blank, Initial, Typed}]
    /\ active \in Ids \union {None}
    /\ tab \in BOOLEAN /\ timer = [handle |-> tab, fires |-> tab]
    /\ drag \in 0 .. Cardinality(Ids)
    /\ form \in [number : 0 .. acts, who : Ids \union {None}, revealed : BOOLEAN,
                 token : {Mask, Blank, Initial, Typed, Undefined}]
    /\ closing \subseteq stored /\ stored \subseteq 1 .. acts
    /\ preview \in BOOLEAN
    /\ acts \in 0 .. MaxActs /\ fails \in 0 .. MaxFails

(* A reordering never adds or loses a provider and never changes the default
   that requests without a route go to, although the list it was made from
   may be old (DashboardView.vue:1442; handleProviderOrder). *)
ReorderKeepsDefault ==
    [][\A c \in Calls :
         calls[c] # Idle /\ calls[c].kind = "reorder" /\ calls'[c] # calls[c] =>
            /\ ToSet(store'.order) = ToSet(store.order)
            /\ Effective(store') = Effective(store)]_listVars

(* A form that the user does not close goes away only after the server took
   a save of this form, not when a save fails, is answered after the form
   was closed, or belongs to the form opened before (ProviderModal.vue:366). *)
FormClosesWhenStored ==
    [][form # NoForm /\ form' # form /\ form'.number # form.number
          => CloseForm \/ form.number \in stored]_listVars

(* While the providers tab stays open the cards end up showing the list and
   the default of the server, after any reorderings, rollbacks, lost answers
   and edits of other pages. *)
ListConverges ==
    <>[]tab => <>[](providers = store /\ active = store.default)
=================================================================================
