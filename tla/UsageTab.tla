-------------------------------- MODULE UsageTab --------------------------------
(***************************************************************************)
(* The usage tab of the dashboard (DashboardView): the filters with their  *)
(* delayed load, the pages of the request table, the dialog that clears    *)
(* the usage data, and the chart, whose library is imported when it is     *)
(* first needed and whose element comes and goes with the overview.        *)
(*                                                                         *)
(* The six requests of a load are taken as one, read by the server in one  *)
(* step.  What the user does in one go is one step with its watchers.      *)
(***************************************************************************)
EXTENDS Naturals

CONSTANTS
    Filters,   \* the settings of usageFilters
    First,     \* the one a visit starts with
    Sizes,     \* usageRequestPageSizes
    Small,     \* the one a visit starts with
    MaxRows,   \* bound on the rows recorded
    MaxLoads,  \* bound on the loads
    MaxActs    \* bound on what the user does

ASSUME UsageTabAssumption ==
    /\ First \in Filters /\ Small \in Sizes
    /\ Sizes \subseteq Nat \ {0}
    /\ {MaxRows, MaxLoads, MaxActs} \subseteq Nat

VARIABLES
    rows,      \* how many recorded requests each filter selects
    epoch,     \* how often the usage data were cleared
    tab,       \* activeTab is the usage tab
    sub,       \* activeUsageTab
    filter, page, size,
    timer,     \* filterTimer is set
    loads,     \* loadUsageData calls in flight
    sent,      \* how many were sent
    shown,     \* the answer that is shown
    element,   \* usageChartEl by a number of its own, 0 when not rendered
    chart,     \* usageChart: its element, 0 when disposed, and what it draws
    echarts,   \* the chart library
    modal,     \* showUsageClearModal
    clearing,  \* the request that clears
    reload,    \* the load that confirmUsageClear waits for, 0 if none
    doubt,     \* the shown answer may not be that of the last load
    acts       \* what the user did so far

serverVars == <<rows, epoch>>
tabVars == <<tab, sub, element>>
queryVars == <<filter, page, size, timer>>
loadVars == <<loads, sent, doubt>>
chartVars == <<chart, echarts>>
clearVars == <<modal, clearing, reload>>
vars == <<serverVars, tabVars, queryVars, loadVars, shown, chartVars, clearVars, acts>>

Want(f, p, s) == [filter |-> f, page |-> p, size |-> s]
Answer(n, want, total, e) == [number |-> n, want |-> want, total |-> total, epoch |-> e]
Nothing == Answer(0, Want(First, 1, Small), 0, 0)
NoChart == [on |-> 0, draws |-> 0]

Init ==
    /\ rows \in [Filters -> 0 .. MaxRows] /\ epoch = 0
    /\ tab = FALSE /\ sub = "overview" /\ element = 0
    /\ filter = First /\ page = 1 /\ size = Small /\ timer = FALSE
    /\ loads = {} /\ sent = 0 /\ doubt = FALSE /\ shown = Nothing
    /\ chart = NoChart /\ echarts = "absent"
    /\ modal = FALSE /\ clearing = "no" /\ reload = 0
    /\ acts = 0

Act == acts < MaxActs /\ acts' = acts + 1

\* The dialog covers the page.
Use == tab /\ ~modal /\ Act

-----------------------------------------------------------------------------
(* The chart *)

\* A chart on an element that is gone is disposed and made anew.
Draw == chart' = [on |-> element', draws |-> shown'.number]

UpdateUsageChart ==
    CASE ~tab' \/ sub' # "overview" -> chart' = NoChart /\ UNCHANGED echarts
      [] tab' /\ sub' = "overview" /\ echarts = "loaded" -> Draw /\ UNCHANGED echarts
      [] OTHER -> echarts' = "importing" /\ UNCHANGED chart

\* The dashboard is resized, or its theme changes.
Redraw ==
    /\ tab /\ Act
    /\ UNCHANGED <<serverVars, tabVars, queryVars, loadVars, shown, clearVars>>
    /\ UpdateUsageChart

\* The tab may have been left, and entered again, since the import began.
ImportDone ==
    /\ echarts = "importing" /\ echarts' = "loaded"
    /\ UNCHANGED <<serverVars, tabVars, queryVars, loadVars, shown, clearVars, acts>>
    /\ IF tab /\ sub = "overview" THEN Draw ELSE UNCHANGED chart

ImportFails ==
    /\ echarts = "importing" /\ echarts' = "absent"
    /\ doubt' = TRUE
    /\ UNCHANGED <<serverVars, tabVars, queryVars, loads, sent, shown, chart, clearVars, acts>>

-----------------------------------------------------------------------------
(* The loads *)

\* Nothing puts the answers of two loads in order.
LoadUsageData ==
    /\ sent < MaxLoads /\ sent' = sent + 1
    /\ loads' = loads \union
         {[number |-> sent', want |-> Want(filter', page', size'), reply |-> Nothing]}
    /\ doubt' = (loads # {})

LoadServed(l) ==
    /\ l \in loads /\ l.reply = Nothing
    /\ loads' = (loads \ {l}) \union
         {[l EXCEPT !.reply = Answer(l.number, l.want, rows[l.want.filter], epoch)]}
    /\ UNCHANGED <<serverVars, tabVars, queryVars, sent, doubt, shown, chartVars, clearVars, acts>>

LoadEnds(l) ==
    /\ loads' = loads \ {l}
    /\ reload' = IF reload = l.number THEN 0 ELSE reload
    /\ UNCHANGED <<serverVars, tabVars, queryVars, sent, modal, clearing, acts>>

LoadAnswered(l) ==
    /\ l \in loads /\ l.reply # Nothing
    /\ LoadEnds(l)
    /\ shown' = l.reply
    /\ UNCHANGED doubt
    /\ UpdateUsageChart

LoadFails(l) ==
    /\ l \in loads
    /\ LoadEnds(l)
    /\ doubt' = TRUE
    /\ UNCHANGED <<shown, chartVars>>

-----------------------------------------------------------------------------
(* The tab *)

\* Fault: what was loaded before is good enough.
EnterTabOnce ==
    /\ ~tab /\ tab' = TRUE
    /\ Act
    /\ element' = IF sub = "overview" THEN acts' ELSE 0
    /\ UNCHANGED <<serverVars, sub, queryVars, shown, chartVars, clearVars>>
    /\ IF shown = Nothing THEN LoadUsageData ELSE UNCHANGED loadVars

EnterTab ==
    /\ ~tab /\ tab' = TRUE
    /\ Act
    /\ element' = IF sub = "overview" THEN acts' ELSE 0
    /\ UNCHANGED <<serverVars, sub, queryVars, shown, chartVars, clearVars>>
    /\ LoadUsageData

\* Fault: the chart is not disposed.
LeaveTabOnly ==
    /\ Use
    /\ tab' = FALSE /\ element' = 0
    /\ UNCHANGED <<serverVars, sub, queryVars, loadVars, shown, chartVars, clearVars>>

LeaveTab ==
    /\ Use
    /\ tab' = FALSE /\ element' = 0
    /\ chart' = NoChart
    /\ UNCHANGED <<serverVars, sub, queryVars, loadVars, shown, echarts, clearVars>>

ShowSub(s) ==
    /\ Use /\ s # sub
    /\ sub' = s
    /\ element' = IF s = "overview" THEN acts' ELSE 0
    /\ UNCHANGED <<serverVars, tab, queryVars, loadVars, shown, clearVars>>
    /\ UpdateUsageChart

\* The watcher of the filters loads 250 ms after the last change.
ChangeFilter(f) ==
    /\ Use /\ f # filter
    /\ filter' = f /\ page' = 1 /\ timer' = TRUE
    /\ UNCHANGED <<serverVars, tabVars, size, loadVars, shown, chartVars, clearVars>>

FilterTimer ==
    /\ timer /\ timer' = FALSE
    /\ UNCHANGED <<serverVars, tabVars, filter, page, size, shown, chartVars, clearVars, acts>>
    /\ IF tab THEN LoadUsageData ELSE UNCHANGED loadVars

Refresh ==
    /\ Use
    /\ UNCHANGED <<serverVars, tabVars, queryVars, shown, chartVars, clearVars>>
    /\ LoadUsageData

\* The pager is shown below a table that is not empty.
Pager == Use /\ sub = "requests" /\ shown.total > 0

ChangeSize(s) ==
    /\ Pager /\ s # size
    /\ size' = s /\ page' = 1
    /\ UNCHANGED <<serverVars, tabVars, filter, timer, shown, chartVars, clearVars>>
    /\ LoadUsageData

\* usageRequestTotalPages
TotalPages ==
    LET pages == (shown.total + size - 1) \div size
    IN IF pages = 0 THEN 1 ELSE pages

Clamped(p) == IF p > TotalPages THEN TotalPages ELSE IF p < 1 THEN 1 ELSE p

\* The first, the previous, the next and the last page.
GoToPage(p) ==
    /\ Pager
    /\ \/ page > 1 /\ p \in {1, page - 1}
       \/ page < TotalPages /\ p \in {page + 1, TotalPages}
    /\ page' = Clamped(p)
    /\ UNCHANGED <<serverVars, tabVars, filter, size, timer, shown, chartVars, clearVars>>
    /\ LoadUsageData

-----------------------------------------------------------------------------
(* Clearing the usage data *)

OpenClear ==
    /\ Use /\ modal' = TRUE
    /\ UNCHANGED <<serverVars, tabVars, queryVars, loadVars, shown, chartVars, clearing, reload>>

\* Fault: the dialog is closed under the request.
CloseClearAnyway ==
    /\ modal /\ modal' = FALSE
    /\ UNCHANGED <<serverVars, tabVars, queryVars, loadVars, shown, chartVars, clearing, reload, acts>>

\* usageClearLoading
Busy == clearing # "no" \/ reload # 0

CloseClear ==
    /\ modal /\ ~Busy /\ modal' = FALSE
    /\ UNCHANGED <<serverVars, tabVars, queryVars, loadVars, shown, chartVars, clearing, reload, acts>>

ConfirmClear ==
    /\ modal /\ ~Busy /\ Act
    /\ clearing' = "sent"
    /\ UNCHANGED <<serverVars, tabVars, queryVars, loadVars, shown, chartVars, modal, reload>>

ClearServed ==
    /\ clearing = "sent" /\ clearing' = "served"
    /\ rows' = [f \in Filters |-> 0] /\ epoch' = epoch + 1
    /\ UNCHANGED <<tabVars, queryVars, loadVars, shown, chartVars, modal, reload, acts>>

ClearAnswered ==
    /\ clearing = "served" /\ clearing' = "no"
    /\ modal' = FALSE /\ page' = 1
    /\ UNCHANGED <<serverVars, tabVars, filter, size, timer, shown, chartVars, acts>>
    /\ LoadUsageData
    /\ reload' = sent'

\* The dialog stays open.
ClearFails ==
    /\ clearing # "no" /\ clearing' = "no"
    /\ doubt' = (doubt \/ clearing = "served")
    /\ UNCHANGED <<serverVars, tabVars, queryVars, loads, sent, shown, chartVars, modal, reload, acts>>

-----------------------------------------------------------------------------
Clear == OpenClear \/ CloseClear \/ ConfirmClear \/ ClearServed \/ ClearAnswered \/ ClearFails

Next ==
    \/ EnterTab \/ LeaveTab \/ (\E s \in {"overview", "requests"} : ShowSub(s))
    \/ (\E f \in Filters : ChangeFilter(f)) \/ FilterTimer \/ Refresh
    \/ (\E s \in Sizes : ChangeSize(s)) \/ (\E p \in 1 .. MaxRows : GoToPage(p))
    \/ (\E l \in loads : LoadServed(l) \/ LoadAnswered(l) \/ LoadFails(l))
    \/ Redraw \/ ImportDone \/ ImportFails
    \/ Clear

Spec == Init /\ [][Next]_vars

-----------------------------------------------------------------------------
(* The shape of the state.  The dialog stays open while the usage data are
   being cleared, so that what is loaded meanwhile is not changed by hand. *)
TypeOK ==
    /\ rows \in [Filters -> 0 .. MaxRows] /\ epoch \in Nat
    /\ tab \in BOOLEAN /\ sub \in {"overview", "requests"}
    /\ (element # 0) = (tab /\ sub = "overview")
    /\ filter \in Filters /\ page \in Nat \ {0} /\ size \in Sizes /\ timer \in BOOLEAN
    /\ sent \in 0 .. MaxLoads /\ \A l \in loads : l.number \in 1 .. sent
    /\ reload \in {0} \union {l.number : l \in loads}
    /\ shown.number \in 0 .. sent /\ chart.draws \in 0 .. sent
    /\ echarts \in {"absent", "importing", "loaded"}
    /\ clearing \in {"no", "sent", "served"}
    /\ clearing # "no" => modal
    /\ modal => tab
    /\ acts \in 0 .. MaxActs

\* Nothing is on its way that will change what is shown.
AtRest == tab /\ loads = {} /\ ~timer /\ clearing = "no" /\ ~doubt

(* What is shown when everything has come to rest was asked for with the
   filters, the page and the page size beside it, although a filter takes
   effect later than a page, and although the tab may be left and entered in
   between, and it was read after the usage data were cleared last.  Excepted
   are a load that failed and loads that overlap, which nothing puts in order
   (DashboardView.vue:1791). *)
ShownFitsFilters ==
    AtRest => shown.want = Want(filter, page, size) /\ shown.epoch = epoch

(* A chart is on the element that is rendered, or there is none, and at rest
   the overview has a chart that draws the answer shown, however the import
   of the library, the answers and the tabs interleave
   (DashboardView.vue:1986). *)
ChartFollows ==
    /\ chart.on \in {0, element}
    /\ AtRest /\ sub = "overview" /\ echarts # "importing" =>
           chart = [on |-> element, draws |-> shown.number]
=================================================================================
