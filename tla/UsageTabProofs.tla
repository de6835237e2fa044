---------------------------- MODULE UsageTabProofs ----------------------------
(***************************************************************************)
(* Proofs about UsageTab: its shape, that the table fits the filters beside *)
(* it, and that the chart follows its element, for any filters, sizes and   *)
(* numbers of loads.                                                        *)
(***************************************************************************)
EXTENDS UsageTab, TLAPS

Wants == [filter : Filters, page : Nat \ {0}, size : Sizes]
Replies == [number : Nat, want : Wants, total : Nat, epoch : Nat]
Loads == [number : Nat \ {0}, want : Wants, reply : Replies]

\* The shape of the state with that of what is loaded and shown.
FullType ==
    /\ TypeOK
    /\ loads \subseteq Loads
    /\ \A l \in loads : l.reply.number <= l.number
    /\ shown \in Replies /\ element \in Nat
    /\ chart \in [on : Nat, draws : Nat]

-----------------------------------------------------------------------------
(* Pages and records *)

LEMMA WantType ==
    ASSUME NEW f \in Filters, NEW p \in Nat \ {0}, NEW s \in Sizes
    PROVE  Want(f, p, s) \in Wants
BY DEF Want, Wants

LEMMA AnswerType ==
    ASSUME NEW n \in Nat, NEW w \in Wants, NEW t \in Nat, NEW e \in Nat
    PROVE  /\ Answer(n, w, t, e) \in Replies
           /\ Answer(n, w, t, e).number = n
           /\ Answer(n, w, t, e).want = w
           /\ Answer(n, w, t, e).epoch = e
BY DEF Answer, Replies

LEMMA NothingType == Nothing \in Replies /\ Nothing.number = 0
BY AnswerType, WantType, UsageTabAssumption DEF Nothing

LEMMA NoChartType ==
    NoChart \in [on : Nat, draws : Nat] /\ NoChart.on = 0 /\ NoChart.draws = 0
BY DEF NoChart

\* A whole number of pages.
LEMMA Division ==
    ASSUME NEW t \in Nat, NEW s \in Nat \ {0}
    PROVE  (t + s - 1) \div s \in Nat
BY SMT

LEMMA PageType ==
    ASSUME FullType, NEW p \in Nat
    PROVE  Clamped(p) \in Nat \ {0}
<1>1. shown.total \in Nat /\ size \in Nat \ {0}
  BY UsageTabAssumption DEF FullType, Replies, TypeOK
<1>2. TotalPages \in Nat \ {0}
  BY <1>1, Division DEF TotalPages
<1> QED
  BY <1>2 DEF Clamped

-----------------------------------------------------------------------------
(* What the two helpers do *)

\* A load is the newest, and asks for what is selected by then.
LEMMA LoadSends ==
    ASSUME FullType, LoadUsageData, filter' \in Filters, page' \in Nat \ {0}, size' \in Sizes
    PROVE  /\ sent' = sent + 1 /\ sent' \in 1 .. MaxLoads
           /\ doubt' = (loads # {})
           /\ \E l \in Loads :
                /\ loads' = loads \union {l}
                /\ l.number = sent' /\ l.reply = Nothing
                /\ l.want = Want(filter', page', size')
<1>1. sent \in Nat /\ sent' = sent + 1 /\ sent' \in 1 .. MaxLoads
  BY UsageTabAssumption DEF FullType, TypeOK, LoadUsageData
<1>2. Want(filter', page', size') \in Wants
  BY WantType
<1> DEFINE new == [number |-> sent', want |-> Want(filter', page', size'), reply |-> Nothing]
<1>3. new \in Loads /\ new.number = sent' /\ new.reply = Nothing
      /\ new.want = Want(filter', page', size')
  BY <1>1, <1>2, NothingType DEF Loads
<1>4. loads' = loads \union {new} /\ doubt' = (loads # {})
  BY DEF LoadUsageData
<1> HIDE DEF new
<1> QED
  BY <1>1, <1>3, <1>4

\* After a load the shape of the loads is kept.
LEMMA LoadKeepsType ==
    ASSUME FullType, LoadUsageData, filter' \in Filters, page' \in Nat \ {0}, size' \in Sizes
    PROVE  /\ sent' \in 0 .. MaxLoads /\ sent <= sent' /\ doubt' \in BOOLEAN
           /\ loads' \subseteq Loads
           /\ \A l \in loads' : l.number \in 1 .. sent' /\ l.reply.number <= l.number
           /\ {l.number : l \in loads} \subseteq {l.number : l \in loads'}
           /\ sent' \in {l.number : l \in loads'}
<1>1. PICK l \in Loads :
        /\ loads' = loads \union {l}
        /\ l.number = sent' /\ l.reply = Nothing
  BY LoadSends
<1>2. sent \in Nat /\ MaxLoads \in Nat
  BY UsageTabAssumption DEF FullType, TypeOK
<1>3. sent' = sent + 1 /\ sent' \in 1 .. MaxLoads /\ doubt' \in BOOLEAN
  BY LoadSends
<1>4. \A k \in loads : k.number \in 1 .. sent /\ k.reply.number <= k.number
  BY DEF FullType, TypeOK
<1>5. sent' \in 0 .. MaxLoads /\ sent <= sent' /\ sent' \in Nat
  BY <1>2, <1>3
<1>6. loads' \subseteq Loads
  BY <1>1 DEF FullType
<1>7. \A k \in loads' : k.number \in 1 .. sent' /\ k.reply.number <= k.number
  <2>1. \A k \in loads : k.number \in 1 .. sent'
    BY <1>2, <1>3, <1>4
  <2>2. l.number \in 1 .. sent' /\ l.reply.number <= l.number
    BY <1>1, <1>5, <1>3, NothingType
  <2> QED
    BY <1>1, <1>4, <2>1, <2>2
<1> QED
  BY <1>1, <1>3, <1>5, <1>6, <1>7

\* The chart is disposed, drawn on the element there is, or left alone while
\* the library is imported.
LEMMA ChartDraws ==
    ASSUME UpdateUsageChart, FullType
    PROVE  /\ echarts' \in {"absent", "importing", "loaded"}
           /\ ~(tab' /\ sub' = "overview") => chart' = NoChart
           /\ tab' /\ sub' = "overview" =>
                \/ chart' = [on |-> element', draws |-> shown'.number]
                \/ chart' = chart /\ echarts' = "importing"
BY DEF UpdateUsageChart, Draw, FullType, TypeOK

LEMMA ChartType ==
    ASSUME UpdateUsageChart, FullType, element' \in Nat, shown'.number \in 0 .. sent',
           sent \in Nat, sent' \in Nat, sent <= sent'
    PROVE  /\ chart' \in [on : Nat, draws : Nat] /\ chart'.draws \in 0 .. sent'
           /\ echarts' \in {"absent", "importing", "loaded"}
<1>1. chart.draws \in 0 .. sent'
  BY DEF FullType, TypeOK
<1>2. shown'.number \in Nat /\ 0 \in 0 .. sent'
  OBVIOUS
<1> QED
  BY <1>1, <1>2, ChartDraws, NoChartType DEF FullType

-----------------------------------------------------------------------------
(* The shape of the state *)

\* Page or not, the counters are numbers.
LEMMA Counters ==
    ASSUME FullType
    PROVE  /\ sent \in Nat /\ acts \in Nat /\ shown.number \in Nat /\ epoch \in Nat
           /\ \A f \in Filters : rows[f] \in Nat
           /\ filter \in Filters /\ size \in Sizes /\ page \in Nat \ {0}
BY UsageTabAssumption DEF FullType, TypeOK

\* What a load that is sent changes, and what it leaves as it was.
LEMMA TypeAfterLoad ==
    ASSUME FullType, LoadUsageData,
           rows' \in [Filters -> 0 .. MaxRows], epoch' \in Nat,
           UNCHANGED <<shown, chartVars>>,
           tab' \in BOOLEAN, sub' \in {"overview", "requests"}, element' \in Nat,
           (element' # 0) = (tab' /\ sub' = "overview"),
           filter' \in Filters, page' \in Nat \ {0}, size' \in Sizes, timer' \in BOOLEAN,
           reload' \in {reload, sent'}, clearing' \in {"no", "sent", "served"},
           clearing' # "no" => modal', modal' => tab', acts' \in 0 .. MaxActs
    PROVE  FullType'
<1>1. /\ sent' \in 0 .. MaxLoads /\ sent <= sent'
      /\ loads' \subseteq Loads
      /\ \A l \in loads' : l.number \in 1 .. sent' /\ l.reply.number <= l.number
      /\ {l.number : l \in loads} \subseteq {l.number : l \in loads'}
      /\ sent' \in {l.number : l \in loads'}
  BY LoadKeepsType
<1>2. reload' \in {0} \union {l.number : l \in loads'}
  BY <1>1 DEF FullType, TypeOK
<1>3. sent \in Nat /\ sent' \in Nat
  BY Counters, <1>1
<1>4. shown'.number \in 0 .. sent' /\ chart'.draws \in 0 .. sent'
  BY <1>1, <1>3 DEF FullType, TypeOK, chartVars
<1>5. shown' \in Replies /\ chart' \in [on : Nat, draws : Nat]
      /\ echarts' \in {"absent", "importing", "loaded"}
  BY DEF FullType, TypeOK, chartVars
<1> QED
  BY <1>1, <1>2, <1>4, <1>5 DEF FullType, TypeOK

\* A load that ends takes with it the wait of the dialog, if it was for it.
LEMMA TypeAfterEnd ==
    ASSUME FullType, NEW l \in loads, LoadEnds(l),
           shown' \in {shown, l.reply},
           \/ UNCHANGED chartVars
           \/ UpdateUsageChart
    PROVE  FullType'
<1>1. /\ UNCHANGED <<serverVars, tabVars, queryVars, sent, modal, clearing, acts>>
      /\ loads' = loads \ {l}
  BY DEF LoadEnds
<1>2. reload' \in {0} \union {k.number : k \in loads'}
  BY <1>1 DEF LoadEnds, FullType, TypeOK
<1>3. l.reply \in Replies /\ l.reply.number \in 0 .. sent
  BY Counters DEF FullType, TypeOK, Loads, Replies
<1>4. shown' \in Replies /\ shown'.number \in 0 .. sent'
  BY <1>1, <1>3 DEF FullType, TypeOK
<1>5. /\ chart' \in [on : Nat, draws : Nat] /\ chart'.draws \in 0 .. sent'
      /\ echarts' \in {"absent", "importing", "loaded"}
  <2>1. CASE UNCHANGED chartVars
    BY <1>1, <2>1 DEF FullType, TypeOK, chartVars
  <2>2. CASE UpdateUsageChart
    BY <1>1, <1>4, <2>2, ChartType, Counters DEF FullType, tabVars
  <2> QED
    BY <2>1, <2>2
<1> QED
  BY <1>1, <1>2, <1>4, <1>5 DEF FullType, TypeOK, serverVars, tabVars, queryVars

\* Everything but the tab, the query, the chart and the acts stays.
LEMMA TypeAfterUse ==
    ASSUME FullType, UNCHANGED <<serverVars, loadVars, shown, clearVars>>,
           tab' \in BOOLEAN, sub' \in {"overview", "requests"}, element' \in Nat,
           (element' # 0) = (tab' /\ sub' = "overview"),
           filter' \in Filters, page' \in Nat \ {0}, size' \in Sizes, timer' \in BOOLEAN,
           modal => tab', acts' \in 0 .. MaxActs,
           \/ UNCHANGED chartVars
           \/ chart' = NoChart /\ UNCHANGED echarts
           \/ UpdateUsageChart
    PROVE  FullType'
<1>1. /\ chart' \in [on : Nat, draws : Nat] /\ chart'.draws \in 0 .. sent'
      /\ echarts' \in {"absent", "importing", "loaded"}
  <2>1. CASE UNCHANGED chartVars
    BY <2>1 DEF FullType, TypeOK, chartVars, loadVars
  <2>2. CASE chart' = NoChart /\ UNCHANGED echarts
    BY <2>2, NoChartType, Counters DEF FullType, TypeOK, loadVars
  <2>3. CASE UpdateUsageChart
    <3>1. shown'.number \in 0 .. sent' /\ sent' = sent
      BY DEF FullType, TypeOK, loadVars
    <3> QED
      BY <2>3, <3>1, ChartType, Counters
  <2> QED
    BY <2>1, <2>2, <2>3
<1> QED
  BY <1>1 DEF FullType, TypeOK, serverVars, loadVars, clearVars

\* Only the dialog and the server change.
LEMMA TypeAfterClear ==
    ASSUME FullType, UNCHANGED <<tabVars, queryVars, loads, sent, shown, chartVars, reload>>,
           rows' \in [Filters -> 0 .. MaxRows], epoch' \in Nat,
           clearing' \in {"no", "sent", "served"}, clearing' # "no" => modal',
           modal' => tab, acts' \in 0 .. MaxActs
    PROVE  FullType'
BY DEF FullType, TypeOK, tabVars, queryVars, chartVars

LEMMA ActType ==
    ASSUME FullType, Act
    PROVE  acts' \in 0 .. MaxActs /\ acts' \in Nat \ {0}
<1>1. acts \in Nat /\ MaxActs \in Nat
  BY Counters, UsageTabAssumption
<1> QED
  BY <1>1 DEF Act

LEMMA InitFullType == Init => FullType
<1> SUFFICES ASSUME Init PROVE FullType
  OBVIOUS
<1>1. First \in Filters /\ Small \in Sizes /\ MaxLoads \in Nat /\ MaxActs \in Nat
  BY UsageTabAssumption
<1>2. chart \in [on : Nat, draws : Nat] /\ chart.draws \in 0 .. sent
  BY NoChartType DEF Init
<1>3. shown \in Replies /\ shown.number \in 0 .. sent
  BY NothingType DEF Init
<1>4. loads \subseteq Loads /\ reload \in {0} \union {l.number : l \in loads}
  BY DEF Init
<1>5. sent \in 0 .. MaxLoads /\ acts \in 0 .. MaxActs /\ epoch \in Nat /\ element \in Nat
      /\ page \in Nat \ {0}
  BY <1>1 DEF Init
<1>6. (element # 0) = (tab /\ sub = "overview") /\ loads = {}
      /\ size \in Sizes /\ filter \in Filters /\ timer \in BOOLEAN
  BY <1>1 DEF Init
<1>7. rows \in [Filters -> 0 .. MaxRows] /\ tab \in BOOLEAN /\ sub \in {"overview", "requests"}
      /\ modal = FALSE /\ clearing = "no" /\ echarts = "absent"
  BY DEF Init
<1> QED
  BY <1>2, <1>3, <1>4, <1>5, <1>6, <1>7 DEF FullType, TypeOK

LEMMA StepFullType == FullType /\ [Next]_vars => FullType'
<1> SUFFICES ASSUME FullType, [Next]_vars
             PROVE  FullType'
  OBVIOUS
<1> USE Counters, ActType
<1>1. CASE EnterTab
  BY <1>1, TypeAfterLoad
  DEF EnterTab, FullType, TypeOK, serverVars, queryVars, clearVars
<1>2. CASE LeaveTab
  BY <1>2, TypeAfterUse DEF LeaveTab, Use, FullType, TypeOK, queryVars, clearVars
<1>3. ASSUME NEW s \in {"overview", "requests"}, ShowSub(s) PROVE FullType'
  BY <1>3, TypeAfterUse DEF ShowSub, Use, FullType, TypeOK, queryVars
<1>4. ASSUME NEW f \in Filters, ChangeFilter(f) PROVE FullType'
  BY <1>4, TypeAfterUse DEF ChangeFilter, Use, FullType, TypeOK, tabVars
<1>5. CASE FilterTimer
  <2>1. CASE tab
    BY <1>5, <2>1, TypeAfterLoad
    DEF FilterTimer, FullType, TypeOK, serverVars, tabVars, clearVars
  <2>2. CASE ~tab
    BY <1>5, <2>2, TypeAfterUse DEF FilterTimer, FullType, TypeOK, tabVars
  <2> QED
    BY <2>1, <2>2
<1>6. CASE Refresh
  BY <1>6, TypeAfterLoad
  DEF Refresh, Use, FullType, TypeOK, serverVars, tabVars, queryVars, clearVars
<1>7. ASSUME NEW s \in Sizes, ChangeSize(s) PROVE FullType'
  BY <1>7, TypeAfterLoad
  DEF ChangeSize, Pager, Use, FullType, TypeOK, serverVars, tabVars, clearVars
<1>8. ASSUME NEW p \in 1 .. MaxRows, GoToPage(p) PROVE FullType'
  <2>1. Clamped(p) \in Nat \ {0}
    BY PageType
  <2>2. page' = Clamped(p)
    BY <1>8 DEF GoToPage
  <2> QED
    BY <1>8, <2>1, <2>2, TypeAfterLoad
    DEF GoToPage, Pager, Use, FullType, TypeOK, serverVars, tabVars, clearVars
<1>9. ASSUME NEW l \in loads, LoadServed(l) PROVE FullType'
  <2>1. l \in Loads /\ l.number \in 1 .. sent /\ l.want \in Wants /\ l.want.filter \in Filters
        /\ l.number \in Nat
    BY DEF FullType, TypeOK, Loads, Wants
  <2> DEFINE answer == Answer(l.number, l.want, rows[l.want.filter], epoch)
             new == [l EXCEPT !.reply = answer]
  <2>2. answer \in Replies /\ answer.number = l.number
    <3>1. rows[l.want.filter] \in Nat /\ epoch \in Nat
      BY <2>1
    <3> QED
      BY <2>1, <3>1 DEF Answer, Replies
  <2> HIDE DEF answer
  <2>3. new \in Loads /\ new.number = l.number /\ new.reply.number = l.number
    BY <2>1, <2>2 DEF Loads
  <2>4. loads' = (loads \ {l}) \union {new}
    BY <1>9 DEF LoadServed, answer
  <2>5. UNCHANGED <<serverVars, tabVars, queryVars, sent, doubt, shown, chartVars, clearVars, acts>>
    BY <1>9 DEF LoadServed
  <2> HIDE DEF new
  <2>6. /\ loads' \subseteq Loads
        /\ \A k \in loads' : k.number \in 1 .. sent /\ k.reply.number <= k.number
    BY <2>1, <2>3, <2>4 DEF FullType, TypeOK
  <2>7. reload \in {0} \union {k.number : k \in loads'}
    BY <2>3, <2>4 DEF FullType, TypeOK
  <2> QED
    BY <2>5, <2>6, <2>7
    DEF FullType, TypeOK, serverVars, tabVars, queryVars, chartVars, clearVars
<1>10. ASSUME NEW l \in loads, LoadAnswered(l) PROVE FullType'
  BY <1>10, TypeAfterEnd DEF LoadAnswered
<1>11. ASSUME NEW l \in loads, LoadFails(l) PROVE FullType'
  BY <1>11, TypeAfterEnd DEF LoadFails
<1>12. CASE Redraw
  BY <1>12, TypeAfterUse DEF Redraw, FullType, TypeOK, tabVars, queryVars
<1>13. CASE ImportDone
  BY <1>13 DEF ImportDone, Draw, FullType, TypeOK, serverVars, tabVars, queryVars, loadVars,
               clearVars
<1>14. CASE ImportFails
  BY <1>14 DEF ImportFails, FullType, TypeOK, serverVars, tabVars, queryVars, clearVars
<1>15. CASE OpenClear
  BY <1>15, TypeAfterClear DEF OpenClear, Use, FullType, TypeOK, serverVars, loadVars
<1>16. CASE CloseClear
  BY <1>16, TypeAfterClear DEF CloseClear, Busy, FullType, TypeOK, serverVars, loadVars
<1>17. CASE ConfirmClear
  BY <1>17, TypeAfterClear DEF ConfirmClear, FullType, TypeOK, serverVars, loadVars
<1>18. CASE ClearServed
  <2>1. [f \in Filters |-> 0] \in [Filters -> 0 .. MaxRows]
    BY UsageTabAssumption
  <2> QED
    BY <1>18, <2>1, TypeAfterClear DEF ClearServed, FullType, TypeOK, loadVars
<1>19. CASE ClearAnswered
  BY <1>19, TypeAfterLoad DEF ClearAnswered, FullType, TypeOK, serverVars, tabVars
<1>20. CASE ClearFails
  BY <1>20, TypeAfterClear DEF ClearFails, FullType, TypeOK, serverVars
<1>21. CASE UNCHANGED vars
  BY <1>21 DEF vars, FullType, TypeOK, serverVars, tabVars, queryVars, loadVars, chartVars,
               clearVars
<1> QED
  BY <1>1, <1>2, <1>3, <1>4, <1>5, <1>6, <1>7, <1>8, <1>9, <1>10, <1>11, <1>12, <1>13,
     <1>14, <1>15, <1>16, <1>17, <1>18, <1>19, <1>20, <1>21 DEF Next, Clear

(* The shape of the state holds in every state: the dialog stays open while
   the usage data are being cleared, and it waits for a load in flight. *)
THEOREM TypeCorrect == Spec => []TypeOK
<1>1. Spec => []FullType
  BY InitFullType, StepFullType, PTL DEF Spec
<1>2. FullType => TypeOK
  BY DEF FullType
<1> QED
  BY <1>1, <1>2, PTL

-----------------------------------------------------------------------------
(* The chart *)

Overview == tab /\ sub = "overview"

\* There is no chart without its element, and unless something is on its way
\* the chart of the overview draws what is shown.
ChartInv ==
    /\ FullType
    /\ chart.on \in {0, element}
    /\ ~Overview => chart.on = 0
    /\ Overview =>
         \/ echarts = "importing" \/ loads # {} \/ doubt
         \/ chart = [on |-> element, draws |-> shown.number]

\* An update brings the chart up to date, whatever happened to the element.
LEMMA UpdateKeepsChart ==
    ASSUME ChartInv, FullType', UpdateUsageChart, element' = element \/ chart.on = 0
    PROVE  ChartInv'
<1>1. CASE ~(tab' /\ sub' = "overview")
  BY <1>1, ChartDraws, NoChartType DEF ChartInv, Overview
<1>2. CASE tab' /\ sub' = "overview"
  BY <1>2, ChartDraws DEF ChartInv, Overview
<1> QED
  BY <1>1, <1>2

\* A load in flight excuses a chart that does not draw what is shown yet.
LEMMA LoadKeepsChart ==
    ASSUME ChartInv, FullType', LoadUsageData, UNCHANGED <<tabVars, chartVars>>
    PROVE  ChartInv'
<1>1. loads' # {}
  BY DEF LoadUsageData
<1> QED
  BY <1>1 DEF ChartInv, Overview, tabVars, chartVars

\* So does a doubt.
LEMMA DoubtKeepsChart ==
    ASSUME ChartInv, FullType', doubt', UNCHANGED <<tabVars, chart>>
    PROVE  ChartInv'
BY DEF ChartInv, Overview, tabVars

\* Nothing that the chart depends on changes.
LEMMA IdleKeepsChart ==
    ASSUME ChartInv, FullType', UNCHANGED <<tabVars, chartVars, shown>>,
           loads # {} => loads' # {}, doubt => doubt'
    PROVE  ChartInv'
BY DEF ChartInv, Overview, tabVars, chartVars

LEMMA StepChart == ChartInv /\ [Next]_vars => ChartInv'
<1> SUFFICES ASSUME ChartInv, [Next]_vars
             PROVE  ChartInv'
  OBVIOUS
<1>0. FullType /\ FullType'
  BY StepFullType DEF ChartInv
<1> USE <1>0
<1>1. CASE EnterTab
  BY <1>1 DEF EnterTab, LoadUsageData, ChartInv, Overview, chartVars
<1>2. CASE LeaveTab
  BY <1>2, NoChartType DEF LeaveTab, ChartInv, Overview
<1>3. ASSUME NEW s \in {"overview", "requests"}, ShowSub(s) PROVE ChartInv'
  <2>1. CASE s = "overview"
    BY <1>3, <2>1, UpdateKeepsChart DEF ShowSub, ChartInv, Overview
  <2>2. CASE s = "requests"
    BY <1>3, <2>2, ChartDraws, NoChartType DEF ShowSub, ChartInv, Overview
  <2> QED
    BY <2>1, <2>2
<1>4. ASSUME NEW f \in Filters, ChangeFilter(f) PROVE ChartInv'
  BY <1>4, IdleKeepsChart DEF ChangeFilter, loadVars
<1>5. CASE FilterTimer
  BY <1>5, IdleKeepsChart, LoadKeepsChart DEF FilterTimer, loadVars
<1>6. CASE Refresh
  BY <1>6, LoadKeepsChart DEF Refresh
<1>7. ASSUME NEW s \in Sizes, ChangeSize(s) PROVE ChartInv'
  BY <1>7, LoadKeepsChart DEF ChangeSize
<1>8. ASSUME NEW p \in 1 .. MaxRows, GoToPage(p) PROVE ChartInv'
  BY <1>8, LoadKeepsChart DEF GoToPage
<1>9. ASSUME NEW l \in loads, LoadServed(l) PROVE ChartInv'
  BY <1>9, IdleKeepsChart DEF LoadServed
<1>10. ASSUME NEW l \in loads, LoadAnswered(l) PROVE ChartInv'
  BY <1>10, UpdateKeepsChart DEF LoadAnswered, LoadEnds, tabVars
<1>11. ASSUME NEW l \in loads, LoadFails(l) PROVE ChartInv'
  BY <1>11, DoubtKeepsChart DEF LoadFails, LoadEnds, chartVars
<1>12. CASE Redraw
  BY <1>12, UpdateKeepsChart DEF Redraw, tabVars
<1>13. CASE ImportDone
  BY <1>13 DEF ImportDone, Draw, ChartInv, Overview, tabVars
<1>14. CASE ImportFails
  BY <1>14, DoubtKeepsChart DEF ImportFails
<1>15. CASE OpenClear \/ CloseClear \/ ConfirmClear \/ ClearServed
  BY <1>15, IdleKeepsChart DEF OpenClear, CloseClear, ConfirmClear, ClearServed, loadVars
<1>16. CASE ClearAnswered
  BY <1>16, LoadKeepsChart DEF ClearAnswered
<1>17. CASE ClearFails
  BY <1>17, IdleKeepsChart DEF ClearFails
<1>18. CASE UNCHANGED vars
  BY <1>18, IdleKeepsChart DEF vars, loadVars
<1> QED
  BY <1>1, <1>2, <1>3, <1>4, <1>5, <1>6, <1>7, <1>8, <1>9, <1>10, <1>11, <1>12, <1>13,
     <1>14, <1>15, <1>16, <1>17, <1>18 DEF Next, Clear

(* The chart is on the element that is rendered, and at rest it draws the
   answer that is shown. *)
THEOREM ChartIsCurrent == Spec => []ChartFollows
<1>1. Init => ChartInv
  BY InitFullType, NoChartType DEF Init, ChartInv, Overview
<1>2. Spec => []ChartInv
  BY <1>1, StepChart, PTL DEF Spec
<1>3. ChartInv => ChartFollows
  BY DEF ChartInv, ChartFollows, AtRest, Overview
<1> QED
  BY <1>2, <1>3, PTL

-----------------------------------------------------------------------------
(* The answer that is shown *)

\* An answer was read after the usage data were cleared last, or the answer
\* to that will send a load.
Recent(a) == clearing = "served" \/ a.epoch = epoch

\* What is asked for is what is selected, or a filter is about to load.
Fits(w) == timer \/ w = Want(filter, page, size)

FitsInv ==
    /\ FullType
    /\ ~doubt => \A k, l \in loads : k = l
    /\ ~doubt /\ tab => \A l \in loads :
         Fits(l.want) /\ (l.reply # Nothing => l.reply.want = l.want /\ Recent(l.reply))
    /\ ~doubt /\ tab /\ loads = {} => Fits(shown.want) /\ Recent(shown)

\* The only load in flight asks for what is selected.
LEMMA LoadFits ==
    ASSUME FitsInv, FullType', LoadUsageData,
           filter' \in Filters, page' \in Nat \ {0}, size' \in Sizes
    PROVE  FitsInv'
<1>1. PICK l \in Loads :
        /\ loads' = loads \union {l} /\ doubt' = (loads # {})
        /\ l.reply = Nothing /\ l.want = Want(filter', page', size')
  BY LoadSends DEF FitsInv
<1>2. CASE loads # {}
  BY <1>1, <1>2 DEF FitsInv
<1>3. CASE loads = {}
  <2>1. loads' = {l} /\ ~doubt'
    BY <1>1, <1>3
  <2> QED
    BY <1>1, <2>1 DEF FitsInv, Fits
<1> QED
  BY <1>2, <1>3

\* Nothing is promised in doubt.
LEMMA DoubtFits ==
    ASSUME FullType', doubt'
    PROVE  FitsInv'
BY DEF FitsInv

\* Nothing is promised about a tab that is not shown.
LEMMA HiddenFits ==
    ASSUME FitsInv, FullType', ~tab', UNCHANGED <<loads, doubt>>
    PROVE  FitsInv'
BY DEF FitsInv

\* The query and the clearing stay what they were, or excuse what is shown.
LEMMA IdleFits ==
    ASSUME FitsInv, FullType', tab' => tab, UNCHANGED <<loads, shown>>, doubt => doubt',
           timer' \/ (timer' = timer /\ UNCHANGED <<filter, page, size>>),
           clearing' = "served" \/ (clearing # "served" /\ epoch' = epoch)
             \/ UNCHANGED <<clearing, epoch>>
    PROVE  FitsInv'
<1>1. \A w : Fits(w) => Fits(w)'
  BY DEF Fits, Want
<1>2. \A a : Recent(a) => Recent(a)'
  BY DEF Recent
<1> QED
  BY <1>1, <1>2 DEF FitsInv

LEMMA StepFits == FitsInv /\ [Next]_vars => FitsInv'
<1> SUFFICES ASSUME FitsInv, [Next]_vars
             PROVE  FitsInv'
  OBVIOUS
<1>0. FullType /\ FullType'
  BY StepFullType DEF FitsInv
<1>a. filter' \in Filters /\ page' \in Nat \ {0} /\ size' \in Sizes
  BY <1>0 DEF FullType, TypeOK
<1> USE <1>0
<1>1. CASE EnterTab
  BY <1>1, <1>a, LoadFits DEF EnterTab
<1>2. CASE LeaveTab
  BY <1>2, HiddenFits DEF LeaveTab, loadVars
<1>3. ASSUME NEW s \in {"overview", "requests"}, ShowSub(s) PROVE FitsInv'
  BY <1>3, IdleFits DEF ShowSub, loadVars, queryVars, serverVars, clearVars
<1>4. ASSUME NEW f \in Filters, ChangeFilter(f) PROVE FitsInv'
  BY <1>4, IdleFits DEF ChangeFilter, loadVars, tabVars, serverVars, clearVars
<1>5. CASE FilterTimer
  <2>1. CASE tab
    BY <1>5, <1>a, <2>1, LoadFits DEF FilterTimer
  <2>2. CASE ~tab
    BY <1>5, <2>2, HiddenFits DEF FilterTimer, loadVars, tabVars
  <2> QED
    BY <2>1, <2>2
<1>6. CASE Refresh
  BY <1>6, <1>a, LoadFits DEF Refresh
<1>7. ASSUME NEW s \in Sizes, ChangeSize(s) PROVE FitsInv'
  BY <1>7, <1>a, LoadFits DEF ChangeSize
<1>8. ASSUME NEW p \in 1 .. MaxRows, GoToPage(p) PROVE FitsInv'
  BY <1>8, <1>a, LoadFits DEF GoToPage
<1>9. ASSUME NEW l \in loads, LoadServed(l) PROVE FitsInv'
  <2>1. CASE doubt
    BY <1>9, <2>1, DoubtFits DEF LoadServed
  <2>2. CASE ~doubt
    <3>a. PICK answer : answer = Answer(l.number, l.want, rows[l.want.filter], epoch)
      OBVIOUS
    <3>b. PICK new : new = [l EXCEPT !.reply = answer]
      OBVIOUS
    <3>1. answer.want = l.want /\ answer.epoch = epoch
      BY <3>a DEF Answer
    <3>2. new.want = l.want /\ new.reply = answer
      BY <3>b DEF FullType, Loads
    <3>3. loads' = {new} /\ UNCHANGED <<serverVars, tabVars, queryVars, doubt, clearVars>>
      BY <1>9, <2>2, <3>a, <3>b DEF LoadServed, FitsInv
    <3>4. \A w : Fits(w) => Fits(w)'
      BY <3>3 DEF Fits, Want, queryVars
    <3>5. Recent(answer)'
      BY <3>1, <3>3 DEF Recent, serverVars, clearVars
    <3>6. tab' => Fits(l.want)
      BY <2>2, <3>3 DEF FitsInv, tabVars
    <3> QED
      BY <3>1, <3>2, <3>3, <3>4, <3>5, <3>6 DEF FitsInv
  <2> QED
    BY <2>1, <2>2
<1>10. ASSUME NEW l \in loads, LoadAnswered(l) PROVE FitsInv'
  <2>1. CASE doubt
    BY <1>10, <2>1, DoubtFits DEF LoadAnswered
  <2>2. CASE ~doubt
    <3>1. loads' = {} /\ shown' = l.reply /\ l.reply # Nothing
          /\ UNCHANGED <<serverVars, tabVars, queryVars, clearing, doubt>>
      BY <1>10, <2>2 DEF LoadAnswered, LoadEnds, FitsInv
    <3>2. tab => Fits(l.reply.want) /\ Recent(l.reply)
      BY <2>2, <3>1 DEF FitsInv
    <3>3. tab => Fits(shown.want)' /\ Recent(shown)'
      BY <3>1, <3>2 DEF Fits, Recent, Want, queryVars, serverVars
    <3> QED
      BY <3>1, <3>3 DEF FitsInv, tabVars
  <2> QED
    BY <2>1, <2>2
<1>11. ASSUME NEW l \in loads, LoadFails(l) PROVE FitsInv'
  BY <1>11, DoubtFits DEF LoadFails
<1>12. CASE Redraw
  BY <1>12, IdleFits DEF Redraw, serverVars, tabVars, queryVars, loadVars, clearVars
<1>13. CASE ImportDone
  BY <1>13, IdleFits DEF ImportDone, serverVars, tabVars, queryVars, loadVars, clearVars
<1>14. CASE ImportFails
  BY <1>14, DoubtFits DEF ImportFails
<1>15. CASE OpenClear \/ CloseClear
  BY <1>15, IdleFits
  DEF OpenClear, CloseClear, serverVars, tabVars, queryVars, loadVars
<1>16. CASE ConfirmClear
  BY <1>16, IdleFits DEF ConfirmClear, Busy, serverVars, tabVars, queryVars, loadVars
<1>17. CASE ClearServed
  BY <1>17, IdleFits DEF ClearServed, tabVars, queryVars, loadVars
<1>18. CASE ClearAnswered
  BY <1>18, <1>a, LoadFits DEF ClearAnswered
<1>19. CASE ClearFails
  <2>1. CASE clearing = "served" \/ doubt
    BY <1>19, <2>1, DoubtFits DEF ClearFails
  <2>2. CASE ~(clearing = "served" \/ doubt)
    BY <1>19, <2>2, IdleFits DEF ClearFails, serverVars, tabVars, queryVars
  <2> QED
    BY <2>1, <2>2
<1>20. CASE UNCHANGED vars
  BY <1>20, IdleFits DEF vars, serverVars, tabVars, queryVars, loadVars, clearVars
<1> QED
  BY <1>1, <1>2, <1>3, <1>4, <1>5, <1>6, <1>7, <1>8, <1>9, <1>10, <1>11, <1>12, <1>13,
     <1>14, <1>15, <1>16, <1>17, <1>18, <1>19, <1>20 DEF Next, Clear

(* What is shown at rest was asked for with the filters and the page beside
   it, and read after the usage data were cleared last. *)
THEOREM ShownAnswerFits == Spec => []ShownFitsFilters
<1>1. Init => FitsInv
  <2> SUFFICES ASSUME Init PROVE FitsInv
    OBVIOUS
  <2>1. loads = {} /\ ~tab
    BY DEF Init
  <2> QED
    BY <2>1, InitFullType DEF FitsInv
<1>2. Spec => []FitsInv
  BY <1>1, StepFits, PTL DEF Spec
<1>3. FitsInv => ShownFitsFilters
  BY DEF FitsInv, ShownFitsFilters, AtRest, Fits, Recent
<1> QED
  BY <1>2, <1>3, PTL
===============================================================================
