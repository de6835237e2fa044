---------------------------- MODULE QuotaModalProofs ----------------------------
(***************************************************************************)
(* Proofs about QuotaModal: its shape, what can bring an older snapshot,   *)
(* that a save reports a result of its own settings and changes only the   *)
(* secrets it was meant to, for any secrets, loads and numbers of acts.    *)
(***************************************************************************)
EXTENDS QuotaModal, TLAPS

Snapshots == [at : Nat, some : BOOLEAN, rev : Nat]
LoadType == [stage : {"idle", "sent", "served"}, newest : BOOLEAN, reply : Snapshots]

FormType ==
    [enabled : BOOLEAN, purpose : Purposes, typed : SUBSET Secrets, cleared : SUBSET Secrets]
Payloads ==
    [enabled : BOOLEAN, replace : SUBSET Secrets, clear : SUBSET Secrets, form : FormType]
Stored ==
    [enabled : BOOLEAN, mine : Nat, unnoticed : BOOLEAN, configured : SUBSET Secrets]
Opened == [configured : SUBSET Secrets]

Asking == {"idle", "query", "asked", "answered", "reload", "loaded", "refused"}
Saved == {"updated", "query", "asked", "answered", "reload", "loaded", "delay"}
Stages(h) ==
    CASE h \in {"card", "refresh"} -> Asking
      [] h \in {"open", "import"} -> {"idle", "reload", "loaded", "refused"}
      [] h = "test" -> {"idle", "testing"}
      [] h = "save" -> {"idle", "update", "refused"} \union Saved
AllStages == {"testing", "update"} \union Asking \union Saved

OpType ==
    [stage : AllStages, sent : {Nothing} \union Payloads \union Stored \union Opened,
     asked : Nat, result : [at : Nat, ok : BOOLEAN], reply : Snapshots]

\* A payload does to the secrets what its form says.
Intended(p) ==
    /\ p \in Payloads
    /\ \A s \in p.replace : s \in p.form.typed /\ Purpose[s] = p.form.purpose
    /\ \A s \in p.clear :
         s \in p.form.cleared \/ (s \in Exclusive /\ Purpose[s] # p.form.purpose)

\* The result was asked with what the save stored, or the server did not notice
\* what it stored.
IsNew(op) == op.reply.rev >= op.sent.mine \/ op.sent.unnoticed

\* How far a save is tells what it has sent and what it was told, when the
\* snapshot is that of moment at and the generation is gen.
SaveOK(op, at, gen) ==
    /\ op.stage = "update" => Intended(op.sent)
    /\ op.stage \in Saved => op.sent \in Stored /\ (op.sent.unnoticed \/ op.sent.mine <= gen)
    /\ op.stage = "updated" /\ ~op.sent.enabled => op.reply.at <= at
    /\ op.stage = "loaded" /\ op.reply.some => IsNew(op)
    /\ op.stage = "delay" =>
         /\ op.reply.at <= at
         /\ op.sent.enabled => op.reply.some /\ IsNew(op)

OpOK(h, op, at, gen) ==
    /\ op \in OpType /\ op.stage \in Stages(h)
    /\ op.stage = "idle" => op = IdleOp
    /\ op.stage = "loaded" => op.reply.at <= at
    /\ h = "open" /\ op.stage = "loaded" => op.sent \in Opened
    /\ h = "save" => SaveOK(op, at, gen)

OpsInv ==
    /\ ops \in [Handlers -> OpType]
    /\ \A h \in Handlers : OpOK(h, ops[h], snapshot.at, generation)

ServerInv ==
    /\ enabled \in BOOLEAN /\ secrets \in [Secrets -> {"old", "typed", "none"}]
    /\ revision \in Nat /\ generation \in Nat /\ generation <= revision
    /\ running \subseteq [gen : Nat, rev : Nat]
    /\ \A q \in running : q.gen <= generation /\ q.gen <= q.rev /\ q.rev <= revision
    /\ clock \in Nat /\ snapshot \in Snapshots /\ snapshot.at <= clock
    /\ snapshot.some => generation <= snapshot.rev /\ snapshot.rev <= revision

\* A load that would still be shown brings nothing older than what is.
CardInv ==
    /\ shown \in Snapshots /\ shown.at <= snapshot.at
    /\ loads \in [1 .. MaxLoads -> LoadType]
    /\ \A k, l \in 1 .. MaxLoads : loads[k].newest /\ loads[l].newest => k = l
    /\ \A l \in 1 .. MaxLoads : loads[l].stage = "served" =>
         /\ loads[l].reply.at <= snapshot.at
         /\ loads[l].newest => loads[l].reply.at >= shown.at

DialogInv ==
    /\ dialog \in {"closed", "loading", "ready", "failed"} /\ configured \subseteq Secrets
    /\ generator \in {"hidden", "shown", "loading"}
    /\ (ops["open"].stage # "idle") = (dialog = "loading")
    /\ \/ dialog = "ready"
       \/ /\ generator = "hidden"
          /\ \A h \in {"save", "refresh", "test"} : ops[h].stage = "idle"

IInv == ServerInv /\ OpsInv /\ CardInv /\ DialogInv

-----------------------------------------------------------------------------
(* Snapshots and handlers *)

LEMMA SnapshotType ==
    ASSUME NEW at \in Nat, NEW rev \in Nat
    PROVE  /\ Snapshot(at, rev) \in Snapshots /\ NoSnapshot(at) \in Snapshots
           /\ Snapshot(at, rev).at = at /\ NoSnapshot(at).at = at
           /\ Snapshot(at, rev).some /\ ~NoSnapshot(at).some
           /\ Snapshot(at, rev).rev = rev
BY DEF Snapshot, NoSnapshot, Snapshots

LEMMA NothingSent == Nothing.enabled = FALSE /\ DOMAIN Nothing = {"enabled"}
BY DEF Nothing

LEMMA FreshOp ==
    ASSUME NEW stage \in AllStages,
           NEW sent \in {Nothing} \union Payloads \union Stored \union Opened
    PROVE  /\ Op(stage, sent) \in OpType
           /\ Op(stage, sent).stage = stage /\ Op(stage, sent).sent = sent
           /\ Op(stage, sent).reply = NoSnapshot(0)
BY SnapshotType DEF Op, OpType

LEMMA IdleIsOK ==
    ASSUME NEW h \in Handlers, NEW at, NEW gen
    PROVE  OpOK(h, IdleOp, at, gen) /\ IdleOp.stage = "idle" /\ IdleOp \in OpType
<1>1. IdleOp \in OpType /\ IdleOp.stage = "idle"
  BY FreshOp DEF IdleOp, AllStages, Asking
<1>2. "idle" \in Stages(h)
  BY DEF Stages, Handlers, Asking
<1>3. SaveOK(IdleOp, at, gen)
  BY <1>1 DEF SaveOK, Saved
<1> QED
  BY <1>1, <1>2, <1>3 DEF OpOK

\* Time passes.
LEMMA LaterIsOK ==
    ASSUME NEW h \in Handlers, NEW op, NEW at \in Nat, NEW gen \in Nat, OpOK(h, op, at, gen),
           NEW later \in Nat, NEW next \in Nat, at <= later, gen <= next
    PROVE  OpOK(h, op, later, next)
<1>1. op.reply.at \in Nat
  BY DEF OpOK, OpType, Snapshots
<1>2. op.reply.at <= at => op.reply.at <= later
  BY <1>1
<1>3. op.sent \in Stored /\ op.sent.mine <= gen => op.sent.mine <= next
  BY DEF Stored
<1>4. h = "save" => SaveOK(op, later, next)
  BY <1>2, <1>3 DEF OpOK, SaveOK
<1> QED
  BY <1>2, <1>4 DEF OpOK

\* The handlers, one of which may have gone on.
LEMMA OneGoesOn ==
    ASSUME OpsInv, ServerInv, ServerInv', snapshot.at <= snapshot'.at, generation <= generation',
           NEW h \in Handlers, NEW new, OpOK(h, new, snapshot'.at, generation'),
           ops' = [ops EXCEPT ![h] = new]
    PROVE  OpsInv' /\ ops'[h] = new /\ \A k \in Handlers : k # h => ops'[k] = ops[k]
<1>1. new \in OpType
  BY DEF OpOK
<1>2. ops' \in [Handlers -> OpType] /\ ops'[h] = new
      /\ \A k \in Handlers : k # h => ops'[k] = ops[k]
  BY <1>1 DEF OpsInv
<1>3. snapshot.at \in Nat /\ snapshot'.at \in Nat /\ generation \in Nat /\ generation' \in Nat
  BY DEF ServerInv, Snapshots
<1>4. ASSUME NEW k \in Handlers, k # h PROVE OpOK(k, ops[k], snapshot'.at, generation')
  BY <1>3, <1>4, LaterIsOK DEF OpsInv
<1> QED
  BY <1>2, <1>4 DEF OpsInv

LEMMA NoneGoesOn ==
    ASSUME OpsInv, ServerInv, ServerInv', snapshot.at <= snapshot'.at, generation <= generation',
           UNCHANGED ops
    PROVE  OpsInv'
<1>1. snapshot.at \in Nat /\ snapshot'.at \in Nat /\ generation \in Nat /\ generation' \in Nat
  BY DEF ServerInv, Snapshots
<1>2. ASSUME NEW k \in Handlers PROVE OpOK(k, ops[k], snapshot'.at, generation')
  BY <1>1, LaterIsOK DEF OpsInv
<1> QED
  BY <1>2 DEF OpsInv

LEMMA ServerSame ==
    ASSUME ServerInv, UNCHANGED serverVars
    PROVE  ServerInv' /\ snapshot'.at = snapshot.at /\ snapshot.at <= snapshot'.at
           /\ generation <= generation'
<1>1. snapshot.at \in Nat /\ generation \in Nat
  BY DEF ServerInv, Snapshots
<1> QED
  BY <1>1 DEF ServerInv, serverVars

\* The snapshot may have become newer.
LEMMA CardSame ==
    ASSUME CardInv, UNCHANGED cardVars, ServerInv, ServerInv', snapshot.at <= snapshot'.at
    PROVE  CardInv'
<1>1. snapshot.at \in Nat /\ snapshot'.at \in Nat /\ shown.at \in Nat
  BY DEF ServerInv, CardInv, Snapshots
<1>2. shown.at <= snapshot'.at
  BY <1>1 DEF CardInv
<1>3. \A l \in 1 .. MaxLoads : loads[l].stage = "served" => loads[l].reply.at <= snapshot'.at
  BY <1>1 DEF CardInv, LoadType, Snapshots
<1> QED
  BY <1>2, <1>3 DEF CardInv, cardVars

LEMMA StageChange ==
    ASSUME NEW op \in OpType, NEW s \in AllStages
    PROVE  LET new == [op EXCEPT !.stage = s]
           IN  /\ new \in OpType /\ new.stage = s /\ new.sent = op.sent
               /\ new.asked = op.asked /\ new.result = op.result /\ new.reply = op.reply
BY DEF OpType

LEMMA HandlerType ==
    ASSUME OpsInv, NEW h \in Handlers
    PROVE  /\ ops[h] \in OpType /\ OpOK(h, ops[h], snapshot.at, generation)
           /\ Busy(h) = (ops[h].stage # "idle")
<1>1. ops[h] \in OpType /\ OpOK(h, ops[h], snapshot.at, generation)
  BY DEF OpsInv
<1>2. IdleOp.stage = "idle"
  BY IdleIsOK
<1> QED
  BY <1>1, <1>2 DEF Busy, OpOK

\* What a goto of a handler has to keep.
LEMMA GotoIsOK ==
    ASSUME IInv, NEW h \in Handlers, NEW s \in Stages(h) \ {"idle", "update"}, s \in AllStages,
           ops' = [ops EXCEPT ![h].stage = s],
           UNCHANGED <<serverVars, cardVars, dialog, generator>>,
           configured' \subseteq Secrets,
           ops[h].stage # "idle",
           s = "loaded" => ops[h].stage = "loaded",
           s = "updated" => ops[h].stage = "updated",
           h = "save" /\ s \in Saved => ops[h].stage \in Saved,
           h = "save" /\ s = "delay" =>
             /\ ops[h].reply.at <= snapshot.at
             /\ ops[h].sent.enabled => ops[h].reply.some /\ IsNew(ops[h])
    PROVE  IInv'
<1> DEFINE new == [ops[h] EXCEPT !.stage = s]
<1>1. ServerInv' /\ snapshot'.at = snapshot.at /\ generation' = generation
      /\ snapshot.at <= snapshot'.at /\ generation <= generation'
  BY ServerSame DEF IInv, serverVars
<1>2. ops[h] \in OpType /\ OpOK(h, ops[h], snapshot.at, generation)
  BY HandlerType DEF IInv
<1>3. /\ new \in OpType /\ new.stage = s /\ new.sent = ops[h].sent
      /\ new.asked = ops[h].asked /\ new.result = ops[h].result /\ new.reply = ops[h].reply
  BY <1>2, StageChange
<1>4. ops' = [ops EXCEPT ![h] = new]
  OBVIOUS
<1> HIDE DEF new
<1>5. h = "save" => SaveOK(new, snapshot.at, generation)
  BY <1>2, <1>3 DEF SaveOK, OpOK, IsNew
<1>6. OpOK(h, new, snapshot'.at, generation')
  BY <1>1, <1>2, <1>3, <1>5 DEF OpOK
<1>7. OpsInv' /\ ops'[h] = new /\ \A k \in Handlers : k # h => ops'[k] = ops[k]
  <2>1. OpsInv /\ ServerInv
    BY DEF IInv
  <2>2. OpsInv /\ ServerInv /\ ServerInv' /\ snapshot.at <= snapshot'.at
        /\ generation <= generation' /\ OpOK(h, new, snapshot'.at, generation')
        /\ ops' = [ops EXCEPT ![h] = new]
    BY <1>1, <1>4, <1>6, <2>1
  <2> QED
    BY ONLY <2>2, OneGoesOn, h \in Handlers
<1>8. CardInv'
  BY <1>1, CardSame DEF IInv
<1>9. \A k \in Handlers : (ops'[k].stage = "idle") = (ops[k].stage = "idle")
  BY <1>3, <1>7
<1>10. DialogInv'
  BY <1>9 DEF IInv, DialogInv, Handlers
<1> QED
  BY <1>1, <1>7, <1>8, <1>10 DEF IInv

\* A handler ends, and the dialog it may belong to stays.
LEMMA EndIsOK ==
    ASSUME IInv, NEW h \in Handlers, Ends(h),
           UNCHANGED <<serverVars, generator>>, CardInv',
           configured' \subseteq Secrets,
           dialog' = dialog \/ (h = "open" /\ dialog' \in {"ready", "failed"}),
           h = "open" => dialog' # dialog /\ ops["open"].stage # "idle"
    PROVE  IInv'
<1>1. ServerInv' /\ snapshot.at <= snapshot'.at /\ generation <= generation'
  BY ServerSame DEF IInv
<1>2. OpOK(h, IdleOp, snapshot'.at, generation') /\ IdleOp.stage = "idle"
  BY IdleIsOK
<1>3. OpsInv' /\ ops'[h] = IdleOp /\ \A k \in Handlers : k # h => ops'[k] = ops[k]
  BY <1>1, <1>2, OneGoesOn DEF IInv, Ends
<1>4. DialogInv'
  BY <1>2, <1>3 DEF IInv, DialogInv, Handlers
<1> QED
  BY <1>1, <1>3, <1>4 DEF IInv

\* A handler starts: its first request is on its way.
LEMMA StartIsOK ==
    ASSUME IInv, NEW h \in Handlers, NEW new, ops' = [ops EXCEPT ![h] = new],
           OpOK(h, new, snapshot.at, generation),
           UNCHANGED <<serverVars, cardVars, dialogVars>>, h # "open",
           dialog = "ready" \/ h \in {"card", "import"}
    PROVE  IInv'
<1>1. ServerInv' /\ snapshot'.at = snapshot.at /\ generation' = generation
      /\ snapshot.at <= snapshot'.at /\ generation <= generation'
  BY ServerSame DEF IInv, serverVars
<1>2. OpsInv' /\ ops'[h] = new /\ \A k \in Handlers : k # h => ops'[k] = ops[k]
  BY <1>1, OneGoesOn DEF IInv
<1>3. CardInv'
  BY <1>1, CardSame DEF IInv
<1>4. DialogInv'
  BY <1>2 DEF IInv, DialogInv, dialogVars, Handlers
<1> QED
  BY <1>1, <1>2, <1>3, <1>4 DEF IInv

-----------------------------------------------------------------------------
(* The server *)

LEMMA PatchedType ==
    ASSUME ServerInv, NEW p
    PROVE  Patched(p) \in [Secrets -> {"old", "typed", "none"}]
BY DEF Patched, ServerInv

LEMMA InvalidateType ==
    ASSUME ServerInv, Invalidate, enabled' \in BOOLEAN, running' = running,
           secrets' \in [Secrets -> {"old", "typed", "none"}]
    PROVE  /\ ServerInv' /\ snapshot'.at = clock' /\ snapshot.at <= snapshot'.at
           /\ generation <= generation' /\ clock' \in Nat /\ generation' \in Nat
<1>1. /\ revision \in Nat /\ generation \in Nat /\ generation <= revision
      /\ clock \in Nat /\ snapshot.at \in Nat /\ snapshot.at <= clock
      /\ running \subseteq [gen : Nat, rev : Nat]
      /\ \A q \in running : q.gen <= generation /\ q.gen <= q.rev /\ q.rev <= revision
  BY DEF ServerInv, Snapshots
<1>2. revision' = revision + 1 /\ generation' = revision' /\ clock' = clock + 1
      /\ snapshot' = NoSnapshot(clock')
  BY DEF Invalidate
<1>3. /\ revision' \in Nat /\ generation' \in Nat /\ clock' \in Nat
      /\ generation <= generation' /\ generation' <= revision' /\ snapshot.at <= clock'
      /\ \A q \in running' : q.gen <= generation' /\ q.gen <= q.rev /\ q.rev <= revision'
  BY <1>1, <1>2
<1>4. snapshot' \in Snapshots /\ snapshot'.at = clock' /\ ~snapshot'.some
  BY <1>2, <1>3, SnapshotType
<1>5. snapshot'.at <= clock' /\ snapshot.at <= snapshot'.at
  BY <1>3, <1>4
<1> QED
  BY <1>1, <1>3, <1>4, <1>5 DEF ServerInv

\* A change that is not noticed leaves snapshot and queries.
LEMMA UnnoticedType ==
    ASSUME ServerInv, Unnoticed, enabled' \in BOOLEAN, running' = running,
           secrets' \in [Secrets -> {"old", "typed", "none"}]
    PROVE  /\ ServerInv' /\ snapshot'.at = snapshot.at /\ snapshot.at <= snapshot'.at
           /\ generation <= generation' /\ clock' \in Nat
           /\ generation' \in Nat /\ revision' \in Nat
<1>1. /\ revision \in Nat /\ generation \in Nat /\ generation <= revision
      /\ clock \in Nat /\ snapshot \in Snapshots /\ snapshot.at \in Nat /\ snapshot.rev \in Nat
      /\ running \subseteq [gen : Nat, rev : Nat]
  BY DEF ServerInv, Snapshots
<1>2. revision' \in {revision, revision + 1} /\ UNCHANGED <<generation, clock, snapshot>>
  BY DEF Unnoticed
<1>3. revision' \in Nat /\ revision <= revision' /\ generation' <= revision'
  BY <1>1, <1>2
<1>4. \A q \in running' : q.gen <= generation' /\ q.gen <= q.rev /\ q.rev <= revision'
  BY <1>1, <1>2, <1>3 DEF ServerInv
<1>5. snapshot'.some => generation' <= snapshot'.rev /\ snapshot'.rev <= revision'
  BY <1>1, <1>2, <1>3 DEF ServerInv
<1> QED
  BY <1>1, <1>2, <1>3, <1>4, <1>5 DEF ServerInv

LEMMA UpdateServedOK ==
    ASSUME IInv, UpdateServed
    PROVE  IInv'
<1> DEFINE p == ops["save"].sent
           told == [enabled |-> p.enabled, mine |-> revision',
                    unnoticed |-> generation' # revision',
                    configured |-> {s \in Secrets : secrets'[s] # "none"}]
           new == [ops["save"] EXCEPT !.stage = "updated", !.reply = NoSnapshot(clock'),
                                      !.sent = told]
<1>1. /\ ops["save"].stage = "update" /\ enabled' = p.enabled /\ secrets' = Patched(p)
      /\ \/ Invalidate
         \/ p.enabled /\ Unnoticed
      /\ UNCHANGED <<running, cardVars, dialogVars, acts>>
  BY DEF UpdateServed
<1>2. "save" \in Handlers /\ ops["save"] \in OpType
      /\ OpOK("save", ops["save"], snapshot.at, generation)
  BY HandlerType DEF IInv, Handlers
<1>3. p \in Payloads /\ p.enabled \in BOOLEAN
  BY <1>1, <1>2 DEF OpOK, SaveOK, Intended, Payloads
<1>4. secrets' \in [Secrets -> {"old", "typed", "none"}]
  BY <1>1, PatchedType DEF IInv
<1>5. /\ ServerInv' /\ snapshot.at <= snapshot'.at /\ generation <= generation'
      /\ clock' \in Nat /\ generation' \in Nat /\ revision' \in Nat
      /\ ~p.enabled => snapshot'.at = clock'
  <2>1. CASE Invalidate
    <3>1. ServerInv' => revision' \in Nat
      BY DEF ServerInv
    <3> QED
      BY <1>1, <1>3, <1>4, <2>1, <3>1, InvalidateType DEF IInv
  <2>2. CASE p.enabled /\ Unnoticed
    BY <1>1, <1>3, <1>4, <2>2, UnnoticedType DEF IInv
  <2> QED
    BY <1>1, <2>1, <2>2
<1>6. /\ told \in Stored /\ told.enabled = p.enabled
      /\ told.unnoticed \/ told.mine = generation'
  <2>1. told.mine = revision' /\ told.unnoticed = (generation' # revision')
    OBVIOUS
  <2>2. told \in Stored /\ told.enabled = p.enabled
    BY <1>3, <1>5 DEF Stored
  <2> QED
    BY <2>1, <2>2
<1>7. ops' = [ops EXCEPT !["save"] = new]
  BY DEF UpdateServed
<1> HIDE DEF told
<1>8. NoSnapshot(clock') \in Snapshots /\ NoSnapshot(clock').at = clock'
  BY <1>5, SnapshotType
<1>9. new \in OpType /\ new.stage = "updated" /\ new.sent = told
      /\ new.reply = NoSnapshot(clock')
  BY <1>2, <1>6, <1>8 DEF OpType, AllStages, Saved
<1> HIDE DEF new, p
<1>10. OpOK("save", new, snapshot'.at, generation')
  <2>1. "updated" \in Stages("save")
    BY DEF Stages, Saved
  <2>2. SaveOK(new, snapshot'.at, generation')
    <3>1. clock' <= clock' /\ generation' <= generation'
      BY <1>5
    <3> QED
      BY <1>5, <1>6, <1>8, <1>9, <3>1 DEF SaveOK, Saved
  <2> QED
    BY <1>9, <2>1, <2>2 DEF OpOK
<1>11. OpsInv' /\ ops'["save"] = new /\ \A k \in Handlers : k # "save" => ops'[k] = ops[k]
  BY <1>2, <1>5, <1>7, <1>10, OneGoesOn DEF IInv
<1>12. CardInv'
  BY <1>1, <1>5, CardSame DEF IInv
<1>13. DialogInv'
  <2>1. dialog = "ready"
    BY <1>1 DEF IInv, DialogInv
  <2>2. ops'["open"] = ops["open"]
    BY <1>11 DEF Handlers
  <2> QED
    BY <1>1, <2>1, <2>2 DEF IInv, DialogInv, dialogVars
<1> QED
  BY <1>5, <1>11, <1>12, <1>13 DEF IInv

\* A query that begins asks with the settings in force.
LEMMA JoinQueryType ==
    ASSUME ServerInv, JoinQuery,
           UNCHANGED <<enabled, secrets, revision, generation, snapshot, clock>>
    PROVE  ServerInv' /\ snapshot.at <= snapshot'.at /\ generation <= generation'
<1> DEFINE new == [gen |-> generation, rev |-> revision]
<1>1. /\ revision \in Nat /\ generation \in Nat /\ generation <= revision
      /\ snapshot.at \in Nat
  BY DEF ServerInv, Snapshots
<1>2. new \in [gen : Nat, rev : Nat] /\ new.gen = generation /\ new.rev = revision
  BY <1>1
<1>3. running' \subseteq running \union {new}
  BY DEF JoinQuery
<1> HIDE DEF new
<1>4. running' \subseteq [gen : Nat, rev : Nat]
  BY <1>2, <1>3 DEF ServerInv
<1>5. \A q \in running' : q.gen <= generation /\ q.gen <= q.rev /\ q.rev <= revision
  BY <1>1, <1>2, <1>3 DEF ServerInv
<1> QED
  BY <1>1, <1>4, <1>5 DEF ServerInv

\* The snapshot changes, and no handler goes on.
LEMMA SnapshotIsOK ==
    ASSUME IInv, ServerInv', snapshot.at <= snapshot'.at, generation <= generation',
           UNCHANGED <<cardVars, dialogVars, ops>>
    PROVE  IInv'
<1>1. OpsInv' /\ CardInv'
  BY NoneGoesOn, CardSame DEF IInv
<1> QED
  BY <1>1 DEF IInv, DialogInv, dialogVars

LEMMA OtherPageOK ==
    ASSUME IInv, OtherPageSaves \/ QueryElsewhere
    PROVE  IInv'
<1>1. CASE OtherPageSaves
  <2>1. /\ (Invalidate \/ Unnoticed) /\ enabled' \in BOOLEAN
        /\ running' = running /\ secrets' = secrets
        /\ UNCHANGED <<cardVars, dialogVars, ops>>
    BY <1>1 DEF OtherPageSaves, IInv, ServerInv
  <2>2. secrets' \in [Secrets -> {"old", "typed", "none"}]
    BY <2>1 DEF IInv, ServerInv
  <2>3. ServerInv' /\ snapshot.at <= snapshot'.at /\ generation <= generation'
    BY <2>1, <2>2, InvalidateType, UnnoticedType DEF IInv
  <2> QED
    BY <2>1, <2>3, SnapshotIsOK
<1>2. CASE QueryElsewhere
  <2>1. /\ JoinQuery
        /\ UNCHANGED <<enabled, secrets, revision, generation, snapshot, clock,
                       cardVars, dialogVars, ops>>
    BY <1>2 DEF QueryElsewhere
  <2> QED
    BY <2>1, JoinQueryType, SnapshotIsOK DEF IInv
<1> QED
  BY <1>1, <1>2

LEMMA QueryServedOK ==
    ASSUME IInv, NEW h \in Handlers, QueryServed(h)
    PROVE  IInv'
<1>1. ops[h].stage = "query" /\ ops[h] \in OpType /\ OpOK(h, ops[h], snapshot.at, generation)
  BY HandlerType DEF IInv, QueryServed
<1>2. h # "open" /\ h # "import" /\ h # "test"
  BY <1>1 DEF OpOK, Stages
<1>3. CASE ~enabled
  <2>1. /\ ops' = [ops EXCEPT ![h].stage = "refused"]
        /\ UNCHANGED <<serverVars, cardVars, dialog, generator, configured>>
    BY <1>3 DEF QueryServed, Goto, serverVars, dialogVars
  <2>2. "refused" \in Stages(h) \ {"idle", "update"} /\ "refused" \in AllStages
        /\ "refused" \notin Saved
    BY <1>1, <1>2 DEF Stages, AllStages, Asking, Saved, Handlers
  <2> QED
    BY <1>1, <2>1, <2>2, GotoIsOK DEF IInv, DialogInv
<1>4. CASE enabled
  <2> DEFINE new == [ops[h] EXCEPT !.stage = "asked", !.asked = generation]
  <2>1. /\ JoinQuery
        /\ UNCHANGED <<enabled, secrets, revision, generation, snapshot, clock,
                       cardVars, dialogVars>>
    BY <1>4 DEF QueryServed
  <2>2. ops' = [ops EXCEPT ![h] = new]
    BY <1>4 DEF QueryServed
  <2>3. snapshot.at \in Nat /\ generation \in Nat
    BY DEF IInv, ServerInv, Snapshots
  <2>4. ServerInv' /\ snapshot.at <= snapshot'.at /\ generation <= generation'
    BY <2>1, JoinQueryType DEF IInv
  <2>5. new \in OpType /\ new.stage = "asked" /\ new.sent = ops[h].sent
    BY <1>1, <2>3 DEF OpType, AllStages, Asking
  <2> HIDE DEF new
  <2>6. "asked" \in Stages(h)
    BY <1>1, <1>2 DEF Stages, Asking, Saved, Handlers
  <2>7. h = "save" => SaveOK(new, snapshot'.at, generation')
    BY <1>1, <2>1, <2>5 DEF OpOK, SaveOK, Saved
  <2>8. OpOK(h, new, snapshot'.at, generation')
    BY <2>5, <2>6, <2>7 DEF OpOK
  <2>9. OpsInv' /\ ops'[h] = new /\ \A k \in Handlers : k # h => ops'[k] = ops[k]
    BY <2>2, <2>4, <2>8, OneGoesOn DEF IInv
  <2>10. CardInv'
    BY <2>1, <2>4, CardSame DEF IInv
  <2>11. \A k \in Handlers : (ops'[k].stage = "idle") = (ops[k].stage = "idle")
    BY <1>1, <2>5, <2>9
  <2>12. DialogInv'
    BY <2>1, <2>11 DEF IInv, DialogInv, dialogVars, Handlers
  <2> QED
    BY <2>4, <2>9, <2>10, <2>12 DEF IInv
<1> QED
  BY <1>3, <1>4

\* A query of the generation in force stores its result, and whoever asked
\* gets it.
LEMMA FinishOK ==
    ASSUME IInv, NEW q \in running, Finish(q)
    PROVE  IInv'
<1>1. PICK ok \in BOOLEAN :
        ops' = [o \in Handlers |->
                  IF ops[o].stage = "asked" /\ ops[o].asked = q.gen
                  THEN [ops[o] EXCEPT !.stage = "answered", !.asked = 0,
                                      !.result = [at |-> clock', ok |-> ok]]
                  ELSE ops[o]]
  BY DEF Finish
<1>2. /\ running' = running \ {q} /\ clock' = clock + 1
      /\ snapshot' = (IF q.gen = generation THEN Snapshot(clock', q.rev) ELSE snapshot)
      /\ UNCHANGED <<enabled, secrets, revision, generation, cardVars, dialogVars>>
  BY DEF Finish
<1>3. generation \in Nat /\ clock \in Nat /\ snapshot.at \in Nat /\ snapshot.at <= clock
      /\ snapshot \in Snapshots /\ running \subseteq [gen : Nat, rev : Nat]
      /\ q.rev \in Nat /\ q.gen <= q.rev /\ q.rev <= revision
  BY DEF IInv, ServerInv, Snapshots
<1>4. clock' \in Nat /\ snapshot.at <= clock' /\ clock <= clock' /\ clock' <= clock'
  BY <1>2, <1>3
<1>5. snapshot' \in Snapshots /\ snapshot'.at <= clock' /\ snapshot.at <= snapshot'.at
      /\ (snapshot'.some => generation <= snapshot'.rev /\ snapshot'.rev <= revision)
  <2>1. CASE q.gen = generation
    <3>1. snapshot' = Snapshot(clock', q.rev)
      BY <1>2, <2>1
    <3> QED
      BY <1>3, <1>4, <2>1, <3>1, SnapshotType
  <2>2. CASE q.gen # generation
    BY <1>2, <1>3, <1>4, <2>2 DEF IInv, ServerInv
  <2> QED
    BY <2>1, <2>2
<1>6. ServerInv' /\ generation <= generation'
  BY <1>2, <1>3, <1>4, <1>5 DEF IInv, ServerInv
<1>7. ASSUME NEW h \in Handlers
      PROVE  /\ OpOK(h, ops'[h], snapshot'.at, generation')
             /\ (ops'[h].stage = "idle") = (ops[h].stage = "idle")
  <2>1. ops[h] \in OpType /\ OpOK(h, ops[h], snapshot.at, generation)
    BY HandlerType DEF IInv
  <2>2. CASE ops[h].stage = "asked" /\ ops[h].asked = q.gen
    <3> DEFINE new == [ops[h] EXCEPT !.stage = "answered", !.asked = 0,
                                     !.result = [at |-> clock', ok |-> ok]]
    <3>1. ops'[h] = new
      BY <1>1, <2>2
    <3>2. new \in OpType /\ new.stage = "answered" /\ new.sent = ops[h].sent
      BY <1>4, <2>1 DEF OpType, AllStages, Asking
    <3> HIDE DEF new
    <3>3. "answered" \in Stages(h)
      BY <2>1, <2>2 DEF OpOK, Stages, Asking, Saved, Handlers
    <3>4. h = "save" => SaveOK(new, snapshot'.at, generation')
      BY <1>2, <2>1, <2>2, <3>2 DEF OpOK, SaveOK, Saved
    <3> QED
      BY <2>2, <3>1, <3>2, <3>3, <3>4 DEF OpOK
  <2>3. CASE ~(ops[h].stage = "asked" /\ ops[h].asked = q.gen)
    <3>1. ops'[h] = ops[h]
      BY <1>1, <2>3
    <3>2. snapshot'.at \in Nat /\ generation' \in Nat
      BY <1>2, <1>3, <1>5 DEF Snapshots
    <3> QED
      BY <1>3, <1>5, <1>6, <2>1, <3>1, <3>2, LaterIsOK
  <2> QED
    BY <2>2, <2>3
<1>8. ops' \in [Handlers -> OpType]
  <2>1. \A h \in Handlers : ops'[h] \in OpType
    BY <1>7 DEF OpOK
  <2> QED
    BY <1>1, <2>1
<1>9. OpsInv'
  BY <1>7, <1>8 DEF OpsInv
<1>10. CardInv'
  BY <1>2, <1>5, <1>6, CardSame DEF IInv
<1>11. DialogInv'
  BY <1>2, <1>7 DEF IInv, DialogInv, dialogVars, Handlers
<1> QED
  BY <1>6, <1>9, <1>10, <1>11 DEF IInv

LEMMA ReloadServedOK ==
    ASSUME IInv, NEW h \in Handlers, ReloadServed(h)
    PROVE  IInv'
<1> DEFINE sent == IF h # "open" THEN ops[h].sent
                   ELSE [configured |-> {s \in Secrets : secrets[s] # "none"}]
           new == [ops[h] EXCEPT !.stage = "loaded", !.reply = snapshot, !.sent = sent]
<1>1. ops[h].stage = "reload" /\ ops[h] \in OpType /\ OpOK(h, ops[h], snapshot.at, generation)
  BY HandlerType DEF IInv, ReloadServed
<1>2. ops' = [ops EXCEPT ![h] = new] /\ UNCHANGED <<serverVars, cardVars, dialogVars>>
  BY DEF ReloadServed
<1>3. ServerInv' /\ snapshot'.at = snapshot.at /\ generation' = generation
      /\ snapshot.at <= snapshot'.at /\ generation <= generation'
  BY <1>2, ServerSame DEF IInv, serverVars
<1>4. sent \in {Nothing} \union Payloads \union Stored \union Opened
      /\ (h = "open" => sent \in Opened) /\ (h = "save" => sent = ops[h].sent)
  BY <1>1 DEF OpType, Opened
<1>5. snapshot \in Snapshots /\ snapshot.at <= snapshot.at
      /\ (snapshot.some => generation <= snapshot.rev)
  BY DEF IInv, ServerInv, Snapshots
<1> HIDE DEF sent
<1>6. new \in OpType /\ new.stage = "loaded" /\ new.sent = sent /\ new.reply = snapshot
  BY <1>1, <1>4, <1>5 DEF OpType, AllStages, Asking
<1> HIDE DEF new
<1>7. "loaded" \in Stages(h)
  BY <1>1 DEF OpOK, Stages, Asking, Saved, Handlers
<1>8. h = "save" => SaveOK(new, snapshot'.at, generation')
  <2> SUFFICES ASSUME h = "save" PROVE SaveOK(new, snapshot'.at, generation')
    OBVIOUS
  <2>1. new.sent \in Stored /\ (new.sent.unnoticed \/ new.sent.mine <= generation)
    BY <1>1, <1>4, <1>6 DEF OpOK, SaveOK, Saved
  <2>2. generation \in Nat /\ new.sent.mine \in Nat /\ snapshot.rev \in Nat
    BY <2>1 DEF IInv, ServerInv, Stored, Snapshots
  <2>3. new.reply.some => IsNew(new)
    BY <1>5, <1>6, <2>1, <2>2 DEF IsNew
  <2> QED
    BY <1>3, <1>6, <2>1, <2>3 DEF SaveOK
<1>9. OpOK(h, new, snapshot'.at, generation')
  BY <1>3, <1>4, <1>5, <1>6, <1>7, <1>8 DEF OpOK
<1>10. OpsInv' /\ ops'[h] = new /\ \A k \in Handlers : k # h => ops'[k] = ops[k]
  BY <1>2, <1>3, <1>9, OneGoesOn DEF IInv
<1>11. CardInv'
  BY <1>2, <1>3, CardSame DEF IInv
<1>12. \A k \in Handlers : (ops'[k].stage = "idle") = (ops[k].stage = "idle")
  BY <1>1, <1>6, <1>10
<1>13. DialogInv'
  BY <1>2, <1>12 DEF IInv, DialogInv, dialogVars, Handlers
<1> QED
  BY <1>3, <1>10, <1>11, <1>13 DEF IInv

-----------------------------------------------------------------------------
(* The card *)

LEMMA IdleLoadType ==
    /\ IdleLoad \in LoadType /\ IdleLoad.stage = "idle" /\ ~IdleLoad.newest
    /\ LET new == [IdleLoad EXCEPT !.stage = "sent", !.newest = TRUE]
       IN  new \in LoadType /\ new.stage = "sent" /\ new.newest
<1>1. NoSnapshot(0) \in Snapshots
  BY SnapshotType
<1> QED
  BY <1>1 DEF IdleLoad, LoadType

LEMMA SupersedeShape ==
    ASSUME CardInv
    PROVE  /\ Supersede(loads) \in [1 .. MaxLoads -> LoadType]
           /\ \A l \in 1 .. MaxLoads :
                /\ ~Supersede(loads)[l].newest
                /\ Supersede(loads)[l].stage = loads[l].stage
                /\ Supersede(loads)[l].reply = loads[l].reply
BY DEF CardInv, Supersede, LoadType

\* A load that is sent is the only one that will be shown.
LEMMA NewLoadOK ==
    ASSUME CardInv, NewLoad, UNCHANGED <<shown, snapshot>>
    PROVE  CardInv'
<1> DEFINE new == [IdleLoad EXCEPT !.stage = "sent", !.newest = TRUE]
           old == Supersede(loads)
<1>1. PICK l \in 1 .. MaxLoads : loads' = [old EXCEPT ![l] = new]
  BY DEF NewLoad, CardInv
<1>2. new \in LoadType /\ new.stage = "sent" /\ new.newest
  BY IdleLoadType
<1>3. /\ old \in [1 .. MaxLoads -> LoadType]
      /\ \A k \in 1 .. MaxLoads : /\ ~old[k].newest /\ old[k].stage = loads[k].stage
                                  /\ old[k].reply = loads[k].reply
  BY SupersedeShape
<1> HIDE DEF new, old
<1>4. /\ loads' \in [1 .. MaxLoads -> LoadType] /\ loads'[l] = new
      /\ \A k \in 1 .. MaxLoads : k # l => loads'[k] = old[k]
  BY <1>1, <1>2, <1>3
<1> QED
  BY <1>2, <1>3, <1>4 DEF CardInv

\* What is shown at once supersedes all loads.
LEMMA ShowNowOK ==
    ASSUME CardInv, NEW snap \in Snapshots, snap.at <= snapshot.at, ShowNow(snap),
           snapshot' = snapshot
    PROVE  CardInv'
BY SupersedeShape DEF CardInv, ShowNow

LEMMA CardOnly ==
    ASSUME IInv, CardInv', UNCHANGED <<serverVars, dialogVars, ops>>
    PROVE  IInv'
<1>1. ServerInv' /\ OpsInv'
  BY ServerSame, NoneGoesOn DEF IInv
<1> QED
  BY <1>1 DEF IInv, DialogInv, dialogVars

LEMMA LoadsOK ==
    ASSUME IInv,
           \/ LoadSnapshots
           \/ \E l \in DOMAIN loads : LoadServed(l) \/ LoadAnswered(l) \/ LoadFails(l)
    PROVE  IInv'
<1>0. /\ loads \in [1 .. MaxLoads -> LoadType] /\ CardInv
      /\ snapshot \in Snapshots /\ snapshot.at \in Nat /\ shown.at \in Nat
  BY DEF IInv, CardInv, ServerInv, Snapshots
<1>1. CASE LoadSnapshots
  BY <1>0, <1>1, NewLoadOK, CardOnly DEF LoadSnapshots, serverVars
<1>2. ASSUME NEW l \in 1 .. MaxLoads, LoadServed(l) PROVE IInv'
  <2> DEFINE new == [loads[l] EXCEPT !.stage = "served", !.reply = snapshot]
  <2>1. loads' = [loads EXCEPT ![l] = new] /\ UNCHANGED <<serverVars, shown, dialogVars, ops>>
    BY <1>2 DEF LoadServed
  <2>2. new \in LoadType /\ new.newest = loads[l].newest /\ new.reply = snapshot
    BY <1>0 DEF LoadType
  <2> HIDE DEF new
  <2>3. /\ loads' \in [1 .. MaxLoads -> LoadType] /\ loads'[l] = new
        /\ \A k \in 1 .. MaxLoads : k # l => loads'[k] = loads[k]
    BY <1>0, <2>1, <2>2
  <2>4. snapshot.at <= snapshot.at /\ snapshot' = snapshot
    BY <1>0, <2>1 DEF serverVars
  <2>5. CardInv'
    BY <1>0, <2>1, <2>2, <2>3, <2>4 DEF CardInv
  <2> QED
    BY <2>1, <2>5, CardOnly
<1>3. ASSUME NEW l \in 1 .. MaxLoads, LoadAnswered(l) \/ LoadFails(l) PROVE IInv'
  <2>1. loads' = [loads EXCEPT ![l] = IdleLoad] /\ UNCHANGED <<serverVars, dialogVars, ops>>
    BY <1>3 DEF LoadAnswered, LoadFails
  <2>2. /\ loads' \in [1 .. MaxLoads -> LoadType] /\ loads'[l] = IdleLoad
        /\ \A k \in 1 .. MaxLoads : k # l => loads'[k] = loads[k]
    BY <1>0, <2>1, IdleLoadType
  <2>3. \/ shown' = shown
        \/ loads[l].stage = "served" /\ loads[l].newest /\ shown' = loads[l].reply
    BY <1>3 DEF LoadAnswered, LoadFails
  <2>4. snapshot' = snapshot
    BY <2>1 DEF serverVars
  <2>5. loads[l].reply \in Snapshots
    BY <1>0 DEF LoadType
  <2>6. CardInv'
    BY <1>0, <2>2, <2>3, <2>4, <2>5, IdleLoadType DEF CardInv
  <2> QED
    BY <2>1, <2>6, CardOnly
<1> QED
  BY <1>0, <1>1, <1>2, <1>3

-----------------------------------------------------------------------------
(* The handlers *)

LEMMA AskIsOK ==
    ASSUME NEW h \in Handlers \ {"save"}, NEW s \in {"query", "reload", "testing"},
           s \in Stages(h), NEW at, NEW gen
    PROVE  OpOK(h, Op(s, Nothing), at, gen) /\ Op(s, Nothing).stage = s
<1>1. s \in AllStages
  BY DEF AllStages, Asking
<1>2. Op(s, Nothing) \in OpType /\ Op(s, Nothing).stage = s
  BY <1>1, FreshOp
<1> QED
  BY <1>2 DEF OpOK

LEMMA CardOpsOK ==
    ASSUME IInv, RefreshCard \/ CardAnswered \/ CardLoaded \/ Imported \/ ImportLoaded
    PROVE  IInv'
<1>0. /\ {"card", "import"} \subseteq Handlers \ {"save", "open"}
      /\ "query" \in Stages("card") /\ "reload" \in Stages("card") /\ "reload" \in Stages("import")
  BY DEF Handlers, Stages, Asking
<1>1. CASE RefreshCard
  BY <1>0, <1>1, AskIsOK, StartIsOK DEF RefreshCard
<1>2. CASE CardAnswered
  BY <1>0, <1>2, AskIsOK, StartIsOK DEF CardAnswered
<1>3. ASSUME NEW h \in {"card", "import"}, ops[h].stage = "loaded", Ends(h),
             ShowNow(ops[h].reply) \/ UNCHANGED cardVars, UNCHANGED <<serverVars, dialogVars>>
      PROVE  IInv'
  <2>1. ops[h].reply \in Snapshots /\ ops[h].reply.at <= snapshot.at
    BY <1>0, <1>3, HandlerType DEF IInv, OpOK, OpType
  <2>2. CASE ShowNow(ops[h].reply)
    <3>1. CardInv'
      BY <1>3, <2>1, <2>2, ShowNowOK DEF IInv, serverVars
    <3> QED
      BY <1>0, <1>3, <3>1, EndIsOK DEF IInv, DialogInv, dialogVars
  <2>3. CASE UNCHANGED cardVars
    <3>1. CardInv'
      BY <1>3, <2>3, ServerSame, CardSame DEF IInv
    <3> QED
      BY <1>0, <1>3, <3>1, EndIsOK DEF IInv, DialogInv, dialogVars
  <2> QED
    BY <1>3, <2>2, <2>3
<1>4. CASE CardLoaded
  BY <1>3, <1>4 DEF CardLoaded
<1>5. CASE Imported
  BY <1>0, <1>5, AskIsOK, StartIsOK DEF Imported
<1>6. CASE ImportLoaded
  BY <1>3, <1>6 DEF ImportLoaded
<1> QED
  BY <1>1, <1>2, <1>4, <1>5, <1>6

LEMMA OpenDialogOK ==
    ASSUME IInv, OpenDialog
    PROVE  IInv'
<1> DEFINE new == Op("reload", Nothing)
<1>1. "open" \in Handlers \ {"save"} /\ "reload" \in Stages("open")
  BY DEF Handlers, Stages
<1>2. /\ dialog = "closed" /\ dialog' = "loading" /\ ops' = [ops EXCEPT !["open"] = new]
      /\ UNCHANGED <<serverVars, cardVars, configured, generator>>
  BY DEF OpenDialog
<1>3. ServerInv' /\ snapshot.at <= snapshot'.at /\ generation <= generation'
  BY <1>2, ServerSame DEF IInv
<1>4. OpOK("open", new, snapshot'.at, generation') /\ new.stage = "reload"
  BY <1>1, AskIsOK
<1> HIDE DEF new
<1>5. OpsInv' /\ ops'["open"] = new /\ \A k \in Handlers : k # "open" => ops'[k] = ops[k]
  BY <1>1, <1>2, <1>3, <1>4, OneGoesOn DEF IInv
<1>6. CardInv'
  BY <1>2, <1>3, CardSame DEF IInv
<1>7. DialogInv'
  BY <1>2, <1>4, <1>5 DEF IInv, DialogInv, Handlers
<1> QED
  BY <1>3, <1>5, <1>6, <1>7 DEF IInv

\* With the dialog its handlers go, and its configuration.
LEMMA UnmountOK ==
    ASSUME IInv, Unmount, CardInv', UNCHANGED serverVars
    PROVE  IInv'
<1>1. ServerInv' /\ snapshot.at <= snapshot'.at /\ generation <= generation'
      /\ snapshot'.at = snapshot.at /\ generation' = generation
  BY ServerSame DEF IInv, serverVars
<1>2. ops' = [o \in Handlers |-> IF o \in {"card", "import"} THEN ops[o] ELSE IdleOp]
      /\ dialog' = "closed" /\ configured' = {} /\ generator' = "hidden"
  BY DEF Unmount
<1>3. \A h \in Handlers : OpOK(h, ops'[h], snapshot'.at, generation') /\ ops'[h] \in OpType
  BY <1>1, <1>2, HandlerType, IdleIsOK DEF IInv
<1>4. ops' \in [Handlers -> OpType]
  BY <1>2, <1>3
<1>5. \A h \in {"open", "save", "refresh", "test"} : ops'[h].stage = "idle"
  BY <1>2, IdleIsOK DEF Handlers
<1>6. OpsInv' /\ DialogInv'
  BY <1>2, <1>3, <1>4, <1>5 DEF OpsInv, DialogInv
<1> QED
  BY <1>1, <1>6 DEF IInv

LEMMA DialogOpsOK ==
    ASSUME IInv,
           \/ ConfigLoaded \/ RequestClose \/ RefreshNow \/ RefreshAnswered \/ RefreshLoaded
           \/ TestQuery \/ TestEnds
    PROVE  IInv'
<1>0. /\ {"open", "refresh", "test"} \subseteq Handlers \ {"save"}
      /\ {"query", "reload"} \subseteq Stages("refresh") /\ "testing" \in Stages("test")
  BY DEF Handlers, Stages, Asking
<1>a. UNCHANGED <<serverVars, cardVars>> => CardInv'
  BY ServerSame, CardSame DEF IInv
<1>b. configured \subseteq Secrets
  BY DEF IInv, DialogInv
<1>c. ops["refresh"].stage # "idle" => dialog = "ready"
  BY DEF IInv, DialogInv
<1>1. CASE ConfigLoaded
  <2>1. ops["open"].stage = "loaded" /\ ops["open"].sent \in Opened
    BY <1>0, <1>1, HandlerType DEF ConfigLoaded, IInv, OpOK
  <2>2. ops["open"].sent.configured \subseteq Secrets /\ dialog = "loading"
    BY <2>1 DEF Opened, IInv, DialogInv
  <2>3. /\ Ends("open") /\ dialog' = "ready" /\ configured' \subseteq Secrets
        /\ UNCHANGED <<serverVars, cardVars, generator>>
    BY <1>1, <2>2 DEF ConfigLoaded
  <2> QED
    BY <1>0, <1>a, <2>1, <2>2, <2>3, EndIsOK
<1>2. CASE RequestClose
  <2>1. Unmount /\ NewLoad /\ UNCHANGED <<serverVars, shown>>
    BY <1>2 DEF RequestClose
  <2>2. CardInv'
    BY <2>1, NewLoadOK DEF IInv, serverVars
  <2> QED
    BY <2>1, <2>2, UnmountOK
<1>3. CASE RefreshNow
  BY <1>0, <1>3, AskIsOK, StartIsOK DEF RefreshNow
<1>4. CASE RefreshAnswered
  <2>1. dialog = "ready" /\ UNCHANGED <<serverVars, cardVars, dialogVars>>
    BY <1>4, <1>c DEF RefreshAnswered
  <2>2. \/ ops' = [ops EXCEPT !["refresh"] = Op("reload", Nothing)]
        \/ ops' = [ops EXCEPT !["refresh"] = IdleOp]
    BY <1>4 DEF RefreshAnswered
  <2> QED
    BY <1>0, <2>1, <2>2, AskIsOK, IdleIsOK, StartIsOK
<1>5. CASE RefreshLoaded
  BY <1>0, <1>5, <1>a, <1>b, EndIsOK DEF RefreshLoaded, dialogVars
<1>6. CASE TestQuery
  BY <1>0, <1>6, AskIsOK, StartIsOK DEF TestQuery
<1>7. CASE TestEnds
  BY <1>0, <1>7, <1>a, <1>b, EndIsOK DEF TestEnds, dialogVars
<1> QED
  BY <1>1, <1>2, <1>3, <1>4, <1>5, <1>6, <1>7

LEMMA GeneratorOK ==
    ASSUME IInv, Generator
    PROVE  IInv'
<1>1. /\ UNCHANGED <<serverVars, cardVars, dialog, configured, ops>>
      /\ generator' \in {"hidden", "shown", "loading"}
      /\ generator # "hidden" \/ dialog = "ready"
  BY DEF Generator, OpenGenerator, CloseGenerator, Generate, Generated
<1>2. ServerInv' /\ OpsInv' /\ CardInv'
  BY <1>1, ServerSame, NoneGoesOn, CardSame DEF IInv
<1>3. DialogInv'
  BY <1>1 DEF IInv, DialogInv
<1> QED
  BY <1>2, <1>3 DEF IInv

-----------------------------------------------------------------------------
(* A save *)

\* What a form is sent as does what the form says.
LEMMA PayloadIntended ==
    ASSUME NEW form \in Forms, configured \subseteq Secrets, QuotaModalAssumption
    PROVE  Intended(SavePayload(form)) /\ SavePayload(form).form = form
<1>1. form \in FormType
  BY DEF Forms, FormType
<1>2. Replaced(form) \subseteq Secrets
      /\ \A s \in Replaced(form) : s \in form.typed /\ Purpose[s] = form.purpose
  BY <1>1 DEF Replaced, FormType
<1> DEFINE clear == {s \in Exclusive \intersect configured : Purpose[s] # form.purpose}
                    \union (form.cleared \ Replaced(form))
<1>3. clear \subseteq Secrets
      /\ \A s \in clear : s \in form.cleared \/ (s \in Exclusive /\ Purpose[s] # form.purpose)
  BY <1>1 DEF FormType
<1>4. SavePayload(form) = [enabled |-> form.enabled, replace |-> Replaced(form),
                           clear |-> clear, form |-> form]
  BY DEF SavePayload
<1> HIDE DEF clear
<1>5. form.enabled \in BOOLEAN
  BY <1>1 DEF FormType
<1>6. SavePayload(form) \in Payloads /\ SavePayload(form).form = form
      /\ SavePayload(form).replace = Replaced(form) /\ SavePayload(form).clear = clear
  BY <1>1, <1>2, <1>3, <1>4, <1>5 DEF Payloads
<1> QED
  BY <1>2, <1>3, <1>6 DEF Intended

LEMMA SaveConfigOK ==
    ASSUME IInv, SaveConfig
    PROVE  IInv'
<1>1. PICK form \in Forms : ops' = [ops EXCEPT !["save"] = Op("update", SavePayload(form))]
  BY DEF SaveConfig
<1>2. Intended(SavePayload(form)) /\ SavePayload(form) \in Payloads
  BY PayloadIntended, QuotaModalAssumption DEF IInv, DialogInv, Intended
<1>3. PICK new : new = Op("update", SavePayload(form))
  OBVIOUS
<1>4. new \in OpType /\ new.stage = "update" /\ new.sent = SavePayload(form)
  BY <1>2, <1>3, FreshOp DEF AllStages
<1>5. "update" \in Stages("save") /\ "update" \notin Saved /\ "save" \in Handlers
  BY DEF Stages, Saved, Handlers
<1>6. OpOK("save", new, snapshot.at, generation)
  BY <1>2, <1>4, <1>5 DEF OpOK, SaveOK
<1>7. UNCHANGED <<serverVars, cardVars, dialogVars>> /\ dialog = "ready"
  BY DEF SaveConfig
<1> QED
  BY <1>1, <1>3, <1>5, <1>6, <1>7, StartIsOK

\* The steps of a save, each of which knows what was stored.
LEMMA SaveStepsOK ==
    ASSUME IInv, Updated \/ SaveAnswered \/ SaveLoaded \/ ReportSaved
    PROVE  IInv'
<1> DEFINE op == ops["save"]
<1>0. /\ "save" \in Handlers /\ op \in OpType /\ SaveOK(op, snapshot.at, generation)
      /\ op.stage = "loaded" => op.reply.at <= snapshot.at
  BY HandlerType DEF IInv, OpOK, Handlers
<1>1. op.stage \in {"updated", "answered", "loaded", "delay"}
  BY DEF Updated, SaveAnswered, SaveLoaded, ReportSaved
<1>2. op.sent \in Stored /\ op.sent.configured \subseteq Secrets /\ op.sent.enabled \in BOOLEAN
  BY <1>0, <1>1 DEF SaveOK, Saved, Stored
<1>3. op.reply \in Snapshots
  BY <1>0 DEF OpType
<1>4. configured \subseteq Secrets /\ dialog = "ready"
  BY <1>1 DEF IInv, DialogInv
<1>5. {"query", "delay", "reload"} \subseteq Stages("save") \ {"idle", "update"}
      /\ {"query", "delay", "reload"} \subseteq AllStages
      /\ {"updated", "answered", "loaded", "delay"} \subseteq Saved
  BY DEF Stages, AllStages, Asking, Saved
<1>a. ASSUME Ends("save"), UNCHANGED <<serverVars, cardVars, dialog, generator>>, SaveStored
      PROVE  IInv'
  <2>1. CardInv'
    BY <1>a, ServerSame, CardSame DEF IInv
  <2>2. configured' \subseteq Secrets
    BY <1>a, <1>2 DEF SaveStored
  <2> QED
    BY <1>0, <1>a, <2>1, <2>2, EndIsOK
<1>6. CASE Updated
  <2>1. op.stage = "updated" /\ UNCHANGED <<serverVars, cardVars, dialog, generator>>
        /\ configured' \subseteq Secrets
    BY <1>2, <1>4, <1>6 DEF Updated, SaveStored
  <2>2. CASE op.sent.enabled
    <3>1. ops' = [ops EXCEPT !["save"].stage = "query"]
      BY <1>6, <2>2 DEF Updated, Goto
    <3> QED
      BY <1>0, <1>5, <2>1, <3>1, GotoIsOK
  <2>3. CASE ~op.sent.enabled
    <3>1. ops' = [ops EXCEPT !["save"].stage = "delay"]
      BY <1>6, <2>3 DEF Updated, Goto
    <3>2. op.reply.at <= snapshot.at
      BY <1>0, <2>1, <2>3 DEF SaveOK
    <3> QED
      BY <1>0, <1>5, <2>1, <2>3, <3>1, <3>2, GotoIsOK
  <2> QED
    BY <2>2, <2>3
<1>7. CASE SaveAnswered
  <2>1. op.stage = "answered" /\ UNCHANGED <<serverVars, cardVars, dialog, generator>>
    BY <1>7 DEF SaveAnswered
  <2>2. CASE op.result.ok
    <3>1. ops' = [ops EXCEPT !["save"].stage = "reload"] /\ configured' = configured
      BY <1>7, <2>2 DEF SaveAnswered, Goto
    <3> QED
      BY <1>0, <1>4, <1>5, <2>1, <3>1, GotoIsOK
  <2>3. CASE ~op.result.ok
    BY <1>7, <1>a, <2>1, <2>3 DEF SaveAnswered
  <2> QED
    BY <2>2, <2>3
<1>8. CASE SaveLoaded
  <2>1. op.stage = "loaded" /\ UNCHANGED <<serverVars, cardVars, dialog, generator>> /\ SaveStored
    BY <1>8 DEF SaveLoaded
  <2>2. CASE OwnResult(op)
    <3>1. ops' = [ops EXCEPT !["save"].stage = "delay"]
      BY <1>8, <2>2 DEF SaveLoaded, Goto
    <3>2. configured' \subseteq Secrets
      BY <1>2, <2>1 DEF SaveStored
    <3>3. op.reply.at <= snapshot.at /\ op.reply.some /\ IsNew(op)
      BY <1>0, <2>1, <2>2 DEF SaveOK, OwnResult
    <3> QED
      BY <1>0, <1>5, <2>1, <3>1, <3>2, <3>3, GotoIsOK
  <2>3. CASE ~OwnResult(op)
    BY <1>8, <1>a, <2>1, <2>3 DEF SaveLoaded
  <2> QED
    BY <2>2, <2>3
<1>9. CASE ReportSaved
  <2>1. op.stage = "delay" /\ ShowNow(op.reply) /\ Unmount /\ UNCHANGED serverVars
    BY <1>9 DEF ReportSaved
  <2>2. op.reply.at <= snapshot.at
    BY <1>0, <2>1 DEF SaveOK
  <2>3. CardInv'
    BY <1>3, <2>1, <2>2, ShowNowOK DEF IInv, serverVars
  <2> QED
    BY <2>1, <2>3, UnmountOK
<1> QED
  BY <1>6, <1>7, <1>8, <1>9

\* Only an answer to a save or to the dialog names secrets.
LEMMA NamedSecrets ==
    ASSUME NEW op \in OpType, "configured" \in DOMAIN op.sent
    PROVE  op.sent.configured \subseteq Secrets
<1>1. op.sent \notin Payloads /\ op.sent # Nothing
  BY NothingSent DEF Payloads
<1> QED
  BY <1>1 DEF OpType, Stored, Opened

LEMMA RefusedOK ==
    ASSUME IInv, NEW h \in Handlers, Refused(h)
    PROVE  IInv'
<1>1. ops[h].stage = "refused" /\ ops[h] \in OpType
  BY HandlerType DEF IInv, Refused
<1>2. Ends(h) /\ UNCHANGED <<serverVars, cardVars, generator>>
      /\ dialog' = IF h = "open" THEN "failed" ELSE dialog
  BY DEF Refused
<1>3. configured' \subseteq Secrets
  BY <1>1, NamedSecrets DEF Refused, IInv, DialogInv
<1>4. CardInv'
  BY <1>2, ServerSame, CardSame DEF IInv
<1>5. h = "open" => dialog = "loading"
  BY <1>1 DEF IInv, DialogInv
<1> QED
  BY <1>1, <1>2, <1>3, <1>4, <1>5, EndIsOK

LEMMA RequestFailsOK ==
    ASSUME IInv, NEW h \in Handlers, RequestFails(h)
    PROVE  IInv'
<1> DEFINE sent == IF ops[h].stage = "updated" THEN Nothing ELSE ops[h].sent
           new == [ops[h] EXCEPT !.stage = "refused", !.sent = sent]
<1>1. /\ ops[h].stage \in {"update", "updated", "query", "asked", "answered", "reload", "loaded"}
      /\ ops[h] \in OpType /\ OpOK(h, ops[h], snapshot.at, generation)
  BY HandlerType DEF IInv, RequestFails
<1>2. ops' = [ops EXCEPT ![h] = new] /\ UNCHANGED <<serverVars, cardVars, dialogVars>>
  BY DEF RequestFails
<1>3. ServerInv' /\ snapshot'.at = snapshot.at /\ generation' = generation
      /\ snapshot.at <= snapshot'.at /\ generation <= generation'
  BY <1>2, ServerSame DEF IInv, serverVars
<1>4. sent \in {Nothing} \union Payloads \union Stored \union Opened
  BY <1>1 DEF OpType
<1> HIDE DEF sent
<1>5. new \in OpType /\ new.stage = "refused"
  BY <1>1, <1>4 DEF OpType, AllStages, Asking
<1> HIDE DEF new
<1>6. "refused" \in Stages(h) /\ "refused" \notin Saved
  BY <1>1 DEF OpOK, Stages, Asking, Saved, Handlers
<1>7. OpOK(h, new, snapshot'.at, generation')
  BY <1>5, <1>6 DEF OpOK, SaveOK
<1>8. OpsInv' /\ ops'[h] = new /\ \A k \in Handlers : k # h => ops'[k] = ops[k]
  BY <1>2, <1>3, <1>7, OneGoesOn DEF IInv
<1>9. CardInv'
  BY <1>2, <1>3, CardSame DEF IInv
<1>10. \A k \in Handlers : (ops'[k].stage = "idle") = (ops[k].stage = "idle")
  BY <1>1, <1>5, <1>8
<1>11. DialogInv'
  BY <1>2, <1>10 DEF IInv, DialogInv, dialogVars, Handlers
<1> QED
  BY <1>3, <1>8, <1>9, <1>11 DEF IInv

LEMMA UpdateRefusedOK ==
    ASSUME IInv, UpdateRefused
    PROVE  IInv'
<1>1. /\ ops["save"].stage = "update" /\ ops' = [ops EXCEPT !["save"].stage = "refused"]
      /\ UNCHANGED <<serverVars, cardVars, dialog, generator, configured>>
  BY DEF UpdateRefused, Goto, dialogVars
<1>2. /\ "save" \in Handlers /\ "refused" \in Stages("save") \ {"idle", "update"}
      /\ "refused" \in AllStages /\ "refused" \notin Saved
  BY DEF Handlers, Stages, AllStages, Asking, Saved
<1> QED
  BY <1>1, <1>2, GotoIsOK DEF IInv, DialogInv

-----------------------------------------------------------------------------
(* Every step *)

LEMMA InitInv == Init => IInv
<1> SUFFICES ASSUME Init PROVE IInv
  OBVIOUS
<1>1. NoSnapshot(0) \in Snapshots /\ NoSnapshot(0).at = 0 /\ ~NoSnapshot(0).some
  BY SnapshotType
<1>2. ServerInv
  BY <1>1 DEF Init, ServerInv
<1>3. \A h \in Handlers : ops[h] = IdleOp
  BY DEF Init
<1>4. OpsInv
  <2>1. ops \in [Handlers -> OpType]
    BY IdleIsOK DEF Init
  <2> QED
    BY <1>3, <2>1, IdleIsOK DEF OpsInv
<1>5. CardInv
  <2>1. shown \in Snapshots /\ shown.at <= snapshot.at
    BY <1>1 DEF Init
  <2>2. loads \in [1 .. MaxLoads -> LoadType] /\ \A l \in 1 .. MaxLoads : loads[l] = IdleLoad
    BY IdleLoadType DEF Init
  <2> QED
    BY <2>1, <2>2, IdleLoadType DEF CardInv
<1>6. DialogInv
  <2>1. \A h \in {"open", "save", "refresh", "test"} : ops[h].stage = "idle"
    BY <1>3, IdleIsOK DEF Handlers
  <2> QED
    BY <2>1 DEF Init, DialogInv
<1> QED
  BY <1>2, <1>4, <1>5, <1>6 DEF IInv

LEMMA StepInv == IInv /\ [Next]_vars => IInv'
<1> SUFFICES ASSUME IInv, [Next]_vars PROVE IInv'
  OBVIOUS
<1>1. CASE Server
  BY <1>1, UpdateServedOK, UpdateRefusedOK, OtherPageOK, QueryServedOK, ReloadServedOK, FinishOK
     DEF Server
<1>2. CASE Card
  BY <1>2, LoadsOK, CardOpsOK DEF Card
<1>3. CASE Dialog
  BY <1>3, OpenDialogOK, DialogOpsOK, SaveConfigOK, SaveStepsOK, RefusedOK, RequestFailsOK
     DEF Dialog
<1>4. CASE Generator
  BY <1>4, GeneratorOK
<1>5. CASE UNCHANGED vars
  BY <1>5, CardSame, ServerSame, CardOnly DEF vars, IInv
<1> QED
  BY <1>1, <1>2, <1>3, <1>4, <1>5 DEF Next

LEMMA Invariance == Spec => []IInv
BY InitInv, StepInv, PTL DEF Spec

(* The state has its shape: a save, a refresh, a test and the generator run
   only in a dialog that is ready, and a snapshot is never from the future. *)
THEOREM TypeCorrect == Spec => []TypeOK
<1>1. IInv => TypeOK
  <2> SUFFICES ASSUME IInv PROVE TypeOK
    OBVIOUS
  <2>1. snapshot.at <= clock /\ shown.at <= clock
    <3>1. snapshot.at \in Nat /\ shown.at \in Nat /\ clock \in Nat
      BY DEF IInv, ServerInv, CardInv, Snapshots
    <3> QED
      BY <3>1 DEF IInv, ServerInv, CardInv
  <2>2. \A h \in Handlers : Busy(h) = (ops[h].stage # "idle")
    BY HandlerType DEF IInv
  <2>3. DOMAIN ops = Handlers
    BY DEF IInv, OpsInv
  <2>4. Busy("open") = (dialog = "loading")
    BY <2>2 DEF Handlers, IInv, DialogInv
  <2>5. generator # "hidden" \/ Busy("save") \/ Busy("refresh") \/ Busy("test")
          => dialog = "ready"
    BY <2>2 DEF Handlers, IInv, DialogInv
  <2>6. /\ generation \in 0 .. revision
        /\ running \subseteq [gen : 0 .. generation, rev : 0 .. revision]
    BY DEF IInv, ServerInv
  <2>7. snapshot.some => snapshot.rev \in generation .. revision
    BY DEF IInv, ServerInv, Snapshots
  <2> QED
    BY <2>1, <2>3, <2>4, <2>5, <2>6, <2>7 DEF TypeOK, IInv, ServerInv, DialogInv
<1> QED
  BY <1>1, Invariance, PTL

(* A save that reports success with the query enabled reports the snapshot of
   a query that was asked with what it stored or later, unless the server does
   not tell what it stored from what was there (a new script_api_key_2). *)
THEOREM ReportIsNew == Spec => []SavedResultIsNew
<1>1. IInv => SavedResultIsNew
  <2> SUFFICES ASSUME IInv PROVE SavedResultIsNew
    OBVIOUS
  <2>1. SaveOK(ops["save"], snapshot.at, generation)
    BY HandlerType DEF IInv, OpOK, Handlers
  <2> QED
    BY <2>1 DEF SaveOK, IsNew, SavedResultIsNew
<1> QED
  BY <1>1, Invariance, PTL
-----------------------------------------------------------------------------
(* What a step never does *)

\* What the card shows changes by a load, and by the end of a handler.
LEMMA ShownSteps ==
    ASSUME [Next]_vars, shown' # shown
    PROVE  \/ \E l \in DOMAIN loads : LoadAnswered(l)
           \/ CardLoaded \/ ImportLoaded \/ ReportSaved
<1>1. CASE Server
  BY <1>1 DEF Server, UpdateServed, UpdateRefused, OtherPageSaves, QueryElsewhere, QueryServed,
              ReloadServed, Finish, cardVars
<1>2. CASE Card
  BY <1>2 DEF Card, LoadSnapshots, LoadServed, LoadFails, RefreshCard, CardAnswered, Imported,
              cardVars
<1>3. CASE Dialog
  BY <1>3 DEF Dialog, OpenDialog, ConfigLoaded, RequestClose, RefreshNow, RefreshAnswered,
              RefreshLoaded, TestQuery, TestEnds, SaveConfig, Updated, SaveAnswered, SaveLoaded,
              Refused, RequestFails, cardVars
<1>4. CASE Generator
  BY <1>4 DEF Generator, OpenGenerator, CloseGenerator, Generate, Generated, cardVars
<1>5. CASE UNCHANGED vars
  BY <1>5 DEF vars, cardVars
<1> QED
  BY <1>1, <1>2, <1>3, <1>4, <1>5 DEF Next

(* What the card shows becomes older only by the reply of a refresh of the
   card, a save or an import of this page, none of which is compared; the
   load of an opened, a closed or a polling page never takes it back. *)
THEOREM LoadsAreNewer == Spec => LoadNeverOlder
<1>1. ASSUME IInv, [Next]_vars, shown'.at < shown.at
      PROVE  \E o \in {"card", "save", "import"} :
               Busy(o) /\ ~Busy(o)' /\ shown' = ops[o].reply
  <2>0. shown.at \in Nat /\ DOMAIN loads = 1 .. MaxLoads /\ shown' # shown
    BY <1>1 DEF IInv, CardInv, Snapshots
  <2>a. ASSUME NEW o \in {"card", "save", "import"}, ops[o].stage # "idle", ops'[o] = IdleOp,
               shown' = ops[o].reply
        PROVE  Busy(o) /\ ~Busy(o)' /\ shown' = ops[o].reply
    <3>1. Busy(o)
      BY <1>1, <2>a, HandlerType DEF IInv, Handlers
    <3> QED
      BY <2>a, <3>1 DEF Busy
  <2>b. \A o \in Handlers : Ends(o) => ops'[o] = IdleOp
    BY <1>1 DEF Ends, IInv, OpsInv
  <2>1. CASE \E l \in DOMAIN loads : LoadAnswered(l)
    <3>1. PICK l \in 1 .. MaxLoads : LoadAnswered(l)
      BY <2>0, <2>1
    <3>2. loads[l].stage = "served" /\ loads[l].newest /\ shown' = loads[l].reply
      BY <2>0, <3>1 DEF LoadAnswered
    <3>3. loads[l].reply.at >= shown.at /\ loads[l].reply.at \in Nat
      BY <1>1, <3>2 DEF IInv, CardInv, LoadType, Snapshots
    <3> QED
      BY <1>1, <2>0, <3>2, <3>3
  <2>2. CASE CardLoaded
    <3>1. ops["card"].stage = "loaded" /\ ops'["card"] = IdleOp /\ shown' = ops["card"].reply
      BY <2>0, <2>2, <2>b DEF CardLoaded, ShowNow, cardVars, Handlers
    <3> QED
      BY <2>a, <3>1
  <2>3. CASE ImportLoaded
    <3>1. ops["import"].stage = "loaded" /\ ops'["import"] = IdleOp
          /\ shown' = ops["import"].reply
      BY <2>3, <2>b DEF ImportLoaded, ShowNow, Handlers
    <3> QED
      BY <2>a, <3>1
  <2>4. CASE ReportSaved
    <3>1. ops["save"].stage = "delay" /\ ops'["save"] = IdleOp /\ shown' = ops["save"].reply
      BY <2>4 DEF ReportSaved, Unmount, ShowNow, Handlers
    <3> QED
      BY <2>a, <3>1
  <2> QED
    BY <1>1, <2>0, <2>1, <2>2, <2>3, <2>4, ShownSteps
<1>2. IInv /\ [Next]_vars =>
        [shown'.at < shown.at =>
           \E o \in {"card", "save", "import"} :
              Busy(o) /\ ~Busy(o)' /\ shown' = ops[o].reply]_vars
  BY <1>1
<1> QED
  BY <1>2, Invariance, PTL DEF Spec, LoadNeverOlder

\* Only a save changes the secrets.
LEMMA SecretsKeep ==
    ASSUME [Next]_vars, secrets' # secrets
    PROVE  UpdateServed
<1>1. CASE Server
  BY <1>1 DEF Server, UpdateRefused, OtherPageSaves, QueryElsewhere, QueryServed,
              ReloadServed, Finish, serverVars
<1>2. CASE Card
  BY <1>2 DEF Card, LoadSnapshots, RefreshCard, CardAnswered, CardLoaded, Imported,
              ImportLoaded, LoadServed, LoadAnswered, LoadFails, serverVars
<1>3. CASE Dialog
  BY <1>3 DEF Dialog, OpenDialog, ConfigLoaded, RequestClose, RefreshNow, RefreshAnswered,
              RefreshLoaded, TestQuery, TestEnds, SaveConfig, Updated, SaveAnswered, SaveLoaded,
              ReportSaved, Refused, RequestFails, serverVars
<1>4. CASE Generator
  BY <1>4 DEF Generator, OpenGenerator, CloseGenerator, Generate, Generated, serverVars
<1>5. CASE UNCHANGED vars
  BY <1>5 DEF vars, serverVars
<1> QED
  BY <1>1, <1>2, <1>3, <1>4, <1>5 DEF Next

(* A save replaces exactly the secrets typed for the template that is saved,
   and clears only what the user cleared or what belongs to a template that
   was left. *)
THEOREM OnlyIntendedSecrets == Spec => SecretsChangeByIntent
<1> DEFINE form == ops["save"].sent.form
<1>1. ASSUME IInv, [Next]_vars, NEW s \in Secrets, secrets'[s] # secrets[s]
      PROVE  \/ secrets'[s] = "typed" /\ s \in form.typed /\ Purpose[s] = form.purpose
             \/ secrets'[s] = "none" /\ s \in form.cleared
             \/ secrets'[s] = "none" /\ s \in Exclusive /\ Purpose[s] # form.purpose
  <2> DEFINE p == ops["save"].sent
  <2>1. UpdateServed
    BY <1>1, SecretsKeep
  <2>2. ops["save"].stage = "update" /\ secrets' = Patched(p)
    BY <2>1 DEF UpdateServed
  <2>3. Intended(p)
    BY <1>1, <2>2, HandlerType DEF IInv, OpOK, SaveOK, Handlers
  <2>4. secrets'[s] = IF s \in p.replace THEN "typed"
                      ELSE IF s \in p.clear \/ (s \in Exclusive /\ Purpose[s] # p.form.purpose)
                           THEN "none" ELSE secrets[s]
    BY <2>2 DEF Patched
  <2> QED
    BY <1>1, <2>3, <2>4 DEF Intended
<1>2. IInv /\ [Next]_vars =>
        [\A s \in Secrets :
           secrets'[s] # secrets[s] =>
             LET f == ops["save"].sent.form
             IN \/ secrets'[s] = "typed" /\ s \in f.typed /\ Purpose[s] = f.purpose
                \/ secrets'[s] = "none" /\ s \in f.cleared
                \/ secrets'[s] = "none" /\ s \in Exclusive /\ Purpose[s] # f.purpose]_vars
  BY <1>1
<1> QED
  BY <1>2, Invariance, PTL DEF Spec, SecretsChangeByIntent

\* A dialog that is ready stays so unless it is closed or a save is reported.
LEMMA ReadyStays ==
    ASSUME IInv, [Next]_vars, dialog = "ready", dialog' # "ready"
    PROVE  RequestClose \/ ReportSaved
<1>1. CASE Server
  BY <1>1 DEF Server, UpdateServed, UpdateRefused, OtherPageSaves, QueryElsewhere, QueryServed,
              ReloadServed, Finish, dialogVars
<1>2. CASE Card
  BY <1>2 DEF Card, LoadSnapshots, RefreshCard, CardAnswered, CardLoaded, Imported,
              ImportLoaded, LoadServed, LoadAnswered, LoadFails, dialogVars
<1>3. CASE Dialog
  <2>1. ASSUME NEW o \in Handlers, Refused(o) \/ RequestFails(o)
        PROVE  RequestClose \/ ReportSaved
    <3>1. ops["open"].stage = "idle"
      BY DEF IInv, DialogInv
    <3>2. CASE Refused(o)
      <4>1. o # "open"
        BY <3>1, <3>2 DEF Refused
      <4> QED
        BY <3>2, <4>1 DEF Refused
    <3>3. CASE RequestFails(o)
      BY <3>3 DEF RequestFails, dialogVars
    <3> QED
      BY <2>1, <3>2, <3>3
  <2>2. CASE \/ OpenDialog \/ ConfigLoaded
             \/ RefreshNow \/ RefreshAnswered \/ RefreshLoaded \/ TestQuery \/ TestEnds
             \/ SaveConfig \/ Updated \/ SaveAnswered \/ SaveLoaded
    BY <2>2 DEF OpenDialog, ConfigLoaded, RefreshNow, RefreshAnswered, RefreshLoaded,
                TestQuery, TestEnds, SaveConfig, Updated, SaveAnswered, SaveLoaded, dialogVars
  <2> QED
    BY <1>3, <2>1, <2>2 DEF Dialog
<1>4. CASE Generator
  BY <1>4 DEF Generator, OpenGenerator, CloseGenerator, Generate, Generated
<1>5. CASE UNCHANGED vars
  BY <1>5 DEF vars, dialogVars
<1> QED
  BY <1>1, <1>2, <1>3, <1>4, <1>5 DEF Next

(* The user learns how a save ended: the dialog is still there, or the card
   shows the result of the save. *)
THEOREM EndIsReported == Spec => SaveIsReported
<1>1. ASSUME IInv, [Next]_vars, Busy("save"), ~Busy("save")', dialog' # "ready"
      PROVE  ops["save"].stage = "delay" /\ shown' = ops["save"].reply
  <2>1. ops["save"].stage # "idle"
    BY <1>1, HandlerType DEF IInv, Handlers
  <2>2. dialog = "ready"
    BY <1>1, <2>1 DEF IInv, DialogInv
  <2>3. ReportSaved
    BY <1>1, <2>2, ReadyStays DEF RequestClose
  <2> QED
    BY <2>3 DEF ReportSaved, ShowNow
<1>2. IInv /\ [Next]_vars =>
        [Busy("save") /\ ~Busy("save")' =>
           \/ dialog' = "ready"
           \/ ops["save"].stage = "delay" /\ shown' = ops["save"].reply]_vars
  BY <1>1
<1> QED
  BY <1>2, Invariance, PTL DEF Spec, SaveIsReported
===============================================================================
