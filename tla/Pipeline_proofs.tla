--------------------------- MODULE Pipeline_proofs ---------------------------
(***************************************************************************)
(* Proofs about Pipeline, for every number of alert_ids, keys, claims,     *)
(* runs and concurrent requests.                                           *)
(***************************************************************************)
EXTENDS Pipeline, SequenceTheorems, TLAPS

(***************************************************************************)
(* Type correctness.                                                       *)
(***************************************************************************)
LEMMA TypeInit == Init => TypeOK
<1> SUFFICES ASSUME Init PROVE TypeOK
  OBVIOUS
<1> USE PipelineAssumption DEF Init
<1>1. KVTypeOK /\ StreamTypeOK /\ RunsTypeOK /\ RowTypeOK /\ HistTypeOK
  BY DEF KVTypeOK, StreamTypeOK, RunsTypeOK, RowTypeOK, HistTypeOK, Taken
<1>2. DispTypeOK /\ ReportsTypeOK
  BY DEF DispTypeOK, ReportsTypeOK, DispIdle, ReportIdle, DispPc, ReportPc
<1>3. HooksTypeOK
  BY EmptySeq DEF HooksTypeOK, HookIdle, HookPc
<1>4. QED BY <1>1, <1>2, <1>3 DEF TypeOK

\* No step makes a taken claim fresh again, and then every part of TypeOK
\* survives a step that leaves its variables alone.
TakenKept == \A c \in Claims : Taken(c) => Taken(c)'

LEMMA MsgFrame == UNCHANGED msg => TakenKept
BY DEF TakenKept, Taken

LEMMA TypeFrame ==
  ASSUME TypeOK, TakenKept
  PROVE  /\ UNCHANGED <<locks, marker, enabled, digest>> => KVTypeOK'
         /\ UNCHANGED <<msg, inbox>> => StreamTypeOK'
         /\ UNCHANGED disp => DispTypeOK'
         /\ UNCHANGED hooks => HooksTypeOK'
         /\ UNCHANGED reports => ReportsTypeOK'
         /\ UNCHANGED runs => RunsTypeOK'
         /\ UNCHANGED row => RowTypeOK'
         /\ UNCHANGED <<sent, skipped, kept>> => HistTypeOK'
<1> USE DEF TypeOK
<1>1. UNCHANGED <<locks, marker, enabled, digest>> => KVTypeOK'
  BY DEF KVTypeOK
<1>2. UNCHANGED <<msg, inbox>> => StreamTypeOK'
  BY DEF StreamTypeOK, Taken
<1>3. UNCHANGED disp => DispTypeOK'
  BY DEF DispTypeOK, TakenKept, Taken
<1>4. UNCHANGED hooks => HooksTypeOK'
  BY DEF HooksTypeOK, TakenKept, Taken
<1>5. UNCHANGED reports => ReportsTypeOK'
  BY DEF ReportsTypeOK, TakenKept, Taken
<1>6. UNCHANGED runs => RunsTypeOK'
  BY DEF RunsTypeOK, TakenKept, Taken
<1>7. UNCHANGED row => RowTypeOK'
  BY DEF RowTypeOK
<1>8. UNCHANGED <<sent, skipped, kept>> => HistTypeOK'
  BY DEF HistTypeOK
<1>9. QED BY <1>1, <1>2, <1>3, <1>4, <1>5, <1>6, <1>7, <1>8

\* SetMsg keeps the alert of a taken claim and makes none fresh.
LEMMA SetMsgType ==
  ASSUME TypeOK, NEW c \in Claims, Taken(c), NEW n \in 0..MaxAttempts,
         NEW s \in {"unsent", "queued", "out", "done"}, SetMsg(c, s, n)
  PROVE  /\ TakenKept
         /\ msg' \in [Claims -> [alert : AlertIds \union {NoAlert},
                         state : {"fresh", "unsent", "queued", "out", "done"},
                         n : 0..MaxAttempts]]
         /\ \A d \in Claims : msg'[d].alert = msg[d].alert
         /\ \A d \in Claims : Taken(d)' => Taken(d)
BY DEF TypeOK, StreamTypeOK, SetMsg, TakenKept, Taken

(* The moves of a webhook request.                                         *)
LEMMA BatchLeft ==
  ASSUME TypeOK, NEW h \in Hooks, hooks[h].pc # "idle"
  PROVE  /\ Head(hooks[h].todo) \in AlertIds
         /\ Tail(hooks[h].todo) \in Seq(AlertIds)
         /\ KeyOf[Head(hooks[h].todo)] \in Keys
BY HeadTailProperties, PipelineAssumption DEF TypeOK, HooksTypeOK

LEMMA AdvanceType ==
  ASSUME TypeOK, TakenKept, NEW h \in Hooks, hooks[h].pc # "idle", Advance(h)
  PROVE  HooksTypeOK'
<1>1. Tail(hooks[h].todo) \in Seq(AlertIds)
  BY BatchLeft
<1>2. <<>> \in Seq(AlertIds)
  BY EmptySeq
<1>3. QED
  BY <1>1, <1>2 DEF TypeOK, HooksTypeOK, Advance, HookIdle, HookPc, TakenKept, Taken

LEMMA AbortType ==
  ASSUME TypeOK, TakenKept, NEW h \in Hooks, Abort(h)
  PROVE  HooksTypeOK'
<1>1. <<>> \in Seq(AlertIds)
  BY EmptySeq
<1>2. QED
  BY <1>1 DEF TypeOK, HooksTypeOK, Abort, HookIdle, HookPc, TakenKept, Taken

LEMMA HookGotoType ==
  ASSUME TypeOK, TakenKept, NEW h \in Hooks, hooks[h].pc # "idle",
         NEW pc \in HookPc, NEW c \in Claims \union {NoClaim},
         pc \in {"publish", "insert"} => c \in Claims /\ msg'[c].state # "fresh",
         HookGoto(h, pc, c)
  PROVE  HooksTypeOK'
BY DEF TypeOK, HooksTypeOK, HookGoto, HookPc, TakenKept, Taken

LEMMA TypeReceive ==
  ASSUME TypeOK, NEW h \in Hooks, Receive(h)
  PROVE  TypeOK'
<1> USE DEF Receive, kv, stream, hist
<1>1. TakenKept
  BY MsgFrame
<1>2. HooksTypeOK'
  BY <1>1, PipelineAssumption DEF TypeOK, HooksTypeOK, HookPc, TakenKept, Taken
<1>3. QED
  BY <1>1, <1>2, TypeFrame DEF TypeOK

LEMMA TakeClaimType ==
  ASSUME TypeOK, NEW c \in Claims, NEW a \in AlertIds, TakeClaim(c, a)
  PROVE  /\ TakenKept
         /\ Taken(c)'
         /\ locks' \in [Keys -> Claims \union {NoClaim}]
         /\ UNCHANGED inbox => StreamTypeOK'
<1> USE PipelineAssumption DEF TypeOK, TakeClaim, KVTypeOK, StreamTypeOK
<1>1. TakenKept /\ Taken(c)'
  BY DEF TakenKept, Taken
<1>2. locks' \in [Keys -> Claims \union {NoClaim}]
  OBVIOUS
<1>3. UNCHANGED inbox => StreamTypeOK'
  BY DEF Taken
<1>4. QED BY <1>1, <1>2, <1>3

LEMMA TypeTryLock ==
  ASSUME TypeOK, NEW h \in Hooks, TryLock(h)
  PROVE  TypeOK'
<1> USE DEF TryLock, hist
<1> DEFINE a == Head(hooks[h].todo)
<1>1. a \in AlertIds
  BY BatchLeft
<1>2. ASSUME NEW c \in Claims, TakeClaim(c, a), HookGoto(h, "publish", c) \/ Abort(h)
      PROVE  TypeOK'
  <2>1. /\ TakenKept /\ Taken(c)' /\ StreamTypeOK'
        /\ locks' \in [Keys -> Claims \union {NoClaim}]
    BY <1>1, <1>2, TakeClaimType
  <2>2. HooksTypeOK'
    <3>1. CASE HookGoto(h, "publish", c)
      BY <2>1, <3>1, HookGotoType DEF HookPc, Taken
    <3>2. CASE Abort(h)
      BY <2>1, <3>2, AbortType
    <3>3. QED BY <1>2, <3>1, <3>2
  <2>3. KVTypeOK'
    BY <2>1 DEF TypeOK, KVTypeOK
  <2>4. QED
    BY <2>1, <2>2, <2>3, TypeFrame DEF TypeOK
<1>3. ASSUME UNCHANGED <<locks, msg>>, HookGoto(h, "halt", NoClaim) \/ Abort(h)
      PROVE  TypeOK'
  <2>1. TakenKept
    BY <1>3, MsgFrame
  <2>2. HooksTypeOK'
    BY <2>1, <1>3, HookGotoType, AbortType DEF HookPc
  <2>3. QED
    BY <2>1, <2>2, <1>3, TypeFrame DEF TypeOK
<1>4. QED BY <1>2, <1>3

LEMMA TypeHalt ==
  ASSUME TypeOK, NEW h \in Hooks, Halt(h)
  PROVE  TypeOK'
<1> USE DEF Halt, stream, hist
<1>1. TakenKept
  BY MsgFrame DEF stream
<1>2. HooksTypeOK'
  BY <1>1, AdvanceType
<1>3. KVTypeOK'
  BY BatchLeft DEF TypeOK, KVTypeOK, UpsertDigest
<1>4. QED
  BY <1>1, <1>2, <1>3, TypeFrame DEF TypeOK

\* A message that is set keeps the stream's types.
LEMMA SetMsgStream ==
  ASSUME TypeOK, NEW c \in Claims, Taken(c), NEW n \in 0..MaxAttempts,
         NEW s \in {"unsent", "queued", "out", "done"}, SetMsg(c, s, n),
         inbox' \subseteq [claim : Claims, n : 1..MaxAttempts],
         \A d \in inbox' : Taken(d.claim)
  PROVE  TakenKept /\ StreamTypeOK'
<1>1. TakenKept /\ \A d \in Claims : /\ msg'[d].alert = msg[d].alert
                                     /\ Taken(d)' => Taken(d)
  BY SetMsgType
<1>2. msg' \in [Claims -> [alert : AlertIds \union {NoAlert},
                           state : {"fresh", "unsent", "queued", "out", "done"},
                           n : 0..MaxAttempts]]
  BY SetMsgType
<1>3. QED
  BY <1>1, <1>2 DEF TypeOK, StreamTypeOK, TakenKept, Taken

LEMMA TypePublish ==
  ASSUME TypeOK, NEW h \in Hooks, Publish(h)
  PROVE  TypeOK'
<1> USE DEF Publish, kv, hist
<1> DEFINE c == hooks[h].claim
<1>1. Taken(c) /\ c \in Claims /\ msg[c].n \in 0..MaxAttempts
  BY DEF TypeOK, HooksTypeOK, StreamTypeOK, Taken
<1>2. CASE Enqueue(c)
  <2>1. TakenKept /\ StreamTypeOK'
    BY <1>1, <1>2, SetMsgStream DEF Enqueue, TypeOK, StreamTypeOK
  <2>2. msg'[c].state # "fresh"
    BY <1>1, <1>2 DEF TypeOK, StreamTypeOK, Enqueue, SetMsg, Taken
  <2>3. HooksTypeOK'
    BY <1>1, <2>1, <2>2, HookGotoType, AbortType DEF HookPc
  <2>4. QED
    BY <2>1, <2>3, TypeFrame DEF TypeOK
<1>3. CASE Abort(h) /\ UNCHANGED msg
  BY <1>3, MsgFrame, AbortType, TypeFrame DEF TypeOK
<1>4. QED BY <1>2, <1>3

LEMMA TypeInsertRun ==
  ASSUME TypeOK, NEW h \in Hooks, InsertRun(h)
  PROVE  TypeOK'
<1> USE DEF InsertRun, kv, stream, hist
<1>1. TakenKept
  BY MsgFrame
<1>2. HooksTypeOK'
  BY <1>1, AdvanceType
<1>3. RowTypeOK'
  BY BatchLeft DEF TypeOK, RowTypeOK
<1>4. QED
  BY <1>1, <1>2, <1>3, TypeFrame DEF TypeOK

(* The consumer and the dispatcher callback.                               *)
LEMMA TypeDeliver ==
  ASSUME TypeOK, NEW c \in Claims, Deliver(c)
  PROVE  TypeOK'
<1> USE DEF Deliver, kv, hist
<1> DEFINE n == IF msg[c].n = MaxAttempts THEN MaxAttempts ELSE msg[c].n + 1
<1>1. Taken(c) /\ n \in 1..MaxAttempts /\ n \in 0..MaxAttempts
  BY PipelineAssumption DEF TypeOK, StreamTypeOK, Taken
<1>2. inbox' \subseteq [claim : Claims, n : 1..MaxAttempts]
      /\ \A d \in inbox' : Taken(d.claim)
  BY <1>1 DEF TypeOK, StreamTypeOK
<1>3. TakenKept /\ StreamTypeOK'
  BY <1>1, <1>2, SetMsgStream
<1>4. QED
  BY <1>3, TypeFrame DEF TypeOK

LEMMA RequeueType ==
  ASSUME TypeOK, NEW c \in Claims, Taken(c), Requeue(c), UNCHANGED inbox
  PROVE  TakenKept /\ StreamTypeOK'
<1> DEFINE s == IF msg[c].state = "done" THEN "done" ELSE "queued"
<1>1. SetMsg(c, s, msg[c].n) /\ s \in {"unsent", "queued", "out", "done"}
  BY DEF Requeue
<1>2. msg[c].n \in 0..MaxAttempts
  BY DEF TypeOK, StreamTypeOK
<1>3. inbox' \subseteq [claim : Claims, n : 1..MaxAttempts]
      /\ \A d \in inbox' : Taken(d.claim)
  BY DEF TypeOK, StreamTypeOK
<1> HIDE DEF s
<1>4. QED
  BY <1>1, <1>2, <1>3, SetMsgStream

LEMMA TypeAckWaitOver ==
  ASSUME TypeOK, NEW c \in Claims, AckWaitOver(c)
  PROVE  TypeOK'
<1>1. Taken(c)
  BY DEF AckWaitOver, Taken
<1>2. TakenKept /\ StreamTypeOK'
  BY <1>1, RequeueType DEF AckWaitOver
<1>3. QED
  BY <1>2, TypeFrame DEF TypeOK, AckWaitOver, kv, hist

LEMMA GotoType ==
  ASSUME TypeOK, TakenKept, disp.pc # "idle", NEW pc \in DispPc, Goto(pc)
  PROVE  DispTypeOK'
BY DEF TypeOK, DispTypeOK, Goto, TakenKept, Taken

LEMMA DispIdleType == disp' = DispIdle => DispTypeOK'
BY PipelineAssumption DEF DispTypeOK, DispIdle, DispPc

LEMMA TypeTake ==
  ASSUME TypeOK, Take
  PROVE  TypeOK'
<1> USE DEF Take, kv, hist
<1>1. TakenKept
  BY MsgFrame
<1>2. StreamTypeOK' /\ DispTypeOK'
  <2>1. PICK d \in inbox : /\ inbox' = inbox \ {d}
                           /\ disp' = [pc |-> "toggle", claim |-> d.claim, n |-> d.n]
    OBVIOUS
  <2>2. /\ d \in [claim : Claims, n : 1..MaxAttempts]
        /\ Taken(d.claim)
    BY DEF TypeOK, StreamTypeOK
  <2>3. DispTypeOK'
    BY <2>1, <2>2, <1>1, PipelineAssumption
    DEF DispTypeOK, DispPc, TakenKept, Taken
  <2>4. StreamTypeOK'
    BY <2>1 DEF TypeOK, StreamTypeOK, Taken
  <2>5. QED BY <2>3, <2>4
<1>3. QED
  BY <1>1, <1>2, TypeFrame DEF TypeOK

LEMMA CurrentClaim ==
  ASSUME TypeOK, disp.pc # "idle"
  PROVE  /\ disp.claim \in Claims /\ Taken(disp.claim)
         /\ msg[disp.claim].alert \in AlertIds
         /\ Key(disp.claim) \in Keys
         /\ msg[disp.claim].n \in 0..MaxAttempts
BY PipelineAssumption DEF TypeOK, DispTypeOK, StreamTypeOK, Taken, Key

LEMMA TypeSettle ==
  ASSUME TypeOK, Settle \/ SettleLost
  PROVE  TypeOK'
<1> USE DEF Settle, SettleLost, kv, hist
<1>1. DispTypeOK'
  BY DispIdleType
<1>2. CASE Settle
  <2>1. disp.pc # "idle" /\ UNCHANGED inbox
    BY <1>2
  <2>2. TakenKept /\ StreamTypeOK'
    <3>1. CASE Requeue(disp.claim)
      BY <2>1, <3>1, CurrentClaim, RequeueType
    <3>2. CASE SetMsg(disp.claim, "done", msg[disp.claim].n)
      BY <2>1, <3>2, CurrentClaim, SetMsgStream DEF TypeOK, StreamTypeOK
    <3>3. QED BY <1>2, <3>1, <3>2
  <2>3. QED
    BY <1>1, <1>2, <2>2, TypeFrame DEF TypeOK
<1>3. CASE SettleLost
  BY <1>1, <1>3, MsgFrame, TypeFrame DEF TypeOK, stream
<1>4. QED BY <1>2, <1>3

\* The steps of the callback that leave the stream alone.
LEMMA TypeDispStep ==
  ASSUME TypeOK, DispStep
  PROVE  TypeOK'
<1> USE DEF kv, stream, hist
<1>1. CASE Settle \/ SettleLost
  BY <1>1, TypeSettle
<1>2. ASSUME ~(Settle \/ SettleLost)
      PROVE  /\ TakenKept /\ UNCHANGED <<stream, hooks, reports>>
             /\ DispTypeOK' /\ disp.pc # "idle"
  <2>1. UNCHANGED <<stream, hooks, reports>> /\ disp.pc # "idle"
    BY <1>2 DEF DispStep, CheckToggle, TryMark, DispatchOk, DispatchFails,
       UnmarkDispatched, SkipRelease, SkipSelect, SkipUpdate, SkipDigest
  <2>2. TakenKept
    BY <2>1, MsgFrame
  <2>3. \E pc \in DispPc : Goto(pc)
    BY <1>2 DEF DispStep, CheckToggle, TryMark, DispatchOk, DispatchFails, DispPc,
       UnmarkDispatched, AfterFailure, SkipRelease, SkipSelect, SkipUpdate, SkipDigest, AfterSkip
  <2>4. QED
    BY <2>1, <2>2, <2>3, GotoType
<1>3. ASSUME ~(Settle \/ SettleLost)
      PROVE  KVTypeOK' /\ RunsTypeOK' /\ RowTypeOK' /\ HistTypeOK'
  <2> USE <1>2, <1>3
  <2>1. CASE CheckToggle
    BY <2>1, TypeFrame DEF CheckToggle
  <2>2. CASE TryMark
    <3>1. KVTypeOK'
      BY <2>2, CurrentClaim DEF TryMark, TypeOK, KVTypeOK
    <3>2. QED BY <2>2, <3>1, TypeFrame DEF TryMark
  <2>3. CASE DispatchOk
    <3>1. RunsTypeOK'
      BY <2>3, CurrentClaim
      DEF DispatchOk, StartRun, TypeOK, RunsTypeOK, TakenKept, Taken
    <3>2. HistTypeOK'
      BY <2>3, CurrentClaim DEF DispatchOk, TypeOK, HistTypeOK
    <3>3. QED BY <2>3, <3>1, <3>2, TypeFrame DEF DispatchOk
  <2>4. CASE DispatchFails
    <3>1. RunsTypeOK'
      BY <2>4, CurrentClaim
      DEF DispatchFails, StartRun, TypeOK, RunsTypeOK, TakenKept, Taken
    <3>2. QED BY <2>4, <3>1, TypeFrame DEF DispatchFails
  <2>5. CASE UnmarkDispatched
    <3>1. KVTypeOK'
      BY <2>5, CurrentClaim DEF UnmarkDispatched, DeleteMarker, TypeOK, KVTypeOK
    <3>2. QED BY <2>5, <3>1, TypeFrame DEF UnmarkDispatched
  <2>6. CASE SkipRelease
    <3>1. KVTypeOK' /\ HistTypeOK'
      BY <2>6, CurrentClaim
      DEF SkipRelease, ReleaseLock, LeaveLock, TypeOK, KVTypeOK, HistTypeOK
    <3>2. QED BY <2>6, <3>1, TypeFrame DEF SkipRelease
  <2>7. CASE SkipSelect
    BY <2>7, TypeFrame DEF SkipSelect
  <2>8. CASE SkipUpdate
    <3>1. RowTypeOK'
      BY <2>8, CurrentClaim DEF SkipUpdate, UpdateRow, TypeOK, RowTypeOK
    <3>2. QED BY <2>8, <3>1, TypeFrame DEF SkipUpdate
  <2>9. CASE SkipDigest
    <3>1. KVTypeOK' /\ HistTypeOK'
      BY <2>9, CurrentClaim DEF SkipDigest, UpsertDigest, TypeOK, KVTypeOK, HistTypeOK
    <3>2. QED BY <2>9, <3>1, TypeFrame DEF SkipDigest
  <2>10. QED
    BY <2>1, <2>2, <2>3, <2>4, <2>5, <2>6, <2>7, <2>8, <2>9 DEF DispStep
<1>4. QED
  BY <1>1, <1>2, <1>3, TypeFrame DEF TypeOK

(* The reports and the environment.                                        *)
LEMMA ReportGotoType ==
  ASSUME TypeOK, TakenKept, NEW p \in Reports, reports[p].pc # "idle",
         NEW pc \in ReportPc, ReportGoto(p, pc)
  PROVE  ReportsTypeOK'
BY DEF TypeOK, ReportsTypeOK, ReportGoto, ReportIdle, TakenKept, Taken

LEMMA ReportedClaim ==
  ASSUME TypeOK, NEW p \in Reports, reports[p].pc # "idle"
  PROVE  /\ reports[p].claim \in Claims
         /\ msg[reports[p].claim].alert \in AlertIds
         /\ Key(reports[p].claim) \in Keys
BY PipelineAssumption DEF TypeOK, ReportsTypeOK, StreamTypeOK, Taken, Key

LEMMA TypeReport ==
  ASSUME TypeOK, NEW p \in Reports, NEW r \in RunIds, Report(p, r)
  PROVE  TypeOK'
<1> USE DEF Report, kv, stream, hist
<1>1. TakenKept
  BY MsgFrame
<1>2. Taken(runs[r].claim) /\ runs[r].claim \in Claims
  BY DEF TypeOK, RunsTypeOK, Taken
<1>3. ReportsTypeOK'
  BY <1>1, <1>2 DEF TypeOK, ReportsTypeOK, ReportPc, TakenKept, Taken
<1>4. RunsTypeOK'
  BY <1>1, <1>2 DEF TypeOK, RunsTypeOK, TakenKept, Taken
<1>5. QED
  BY <1>1, <1>3, <1>4, TypeFrame DEF TypeOK

LEMMA TypeReportStep ==
  ASSUME TypeOK, NEW p \in Reports, ReportStep(p)
  PROVE  TypeOK'
<1> USE DEF ReportStep, kv, stream, hist
<1>1. UNCHANGED <<msg, inbox, disp, hooks, runs>> /\ reports[p].pc # "idle"
  BY DEF ReportUpsert, ReportRelease, ReportSelect, ReportUpdate
<1>2. TakenKept
  BY <1>1, MsgFrame
<1>3. ReportsTypeOK'
  <2>1. \E pc \in ReportPc : ReportGoto(p, pc)
    BY DEF ReportUpsert, ReportRelease, ReportSelect, ReportUpdate, ReportPc,
       After, OnUpsertError
  <2>2. QED BY <1>1, <1>2, <2>1, ReportGotoType
<1>4. KVTypeOK' /\ HistTypeOK'
  <2>1. CASE ReportUpsert(p)
    BY <1>1, <2>1, ReportedClaim
    DEF ReportUpsert, UpsertDigest, TypeOK, KVTypeOK, HistTypeOK
  <2>2. CASE ReportRelease(p)
    BY <1>1, <2>2, ReportedClaim
    DEF ReportRelease, ReleaseLock, LeaveLock, TypeOK, KVTypeOK, HistTypeOK
  <2>3. CASE ReportSelect(p) \/ ReportUpdate(p)
    BY <1>2, <2>3, TypeFrame DEF ReportSelect, ReportUpdate
  <2>4. QED BY <2>1, <2>2, <2>3
<1>5. RowTypeOK'
  <2>1. CASE ReportUpdate(p)
    <3>1. /\ msg[reports[p].claim].alert \in AlertIds /\ reports[p].claim \in Claims
          /\ UpdateRow(reports[p].claim, "reported")
      BY <1>1, <2>1, ReportedClaim DEF ReportUpdate
    <3>2. QED
      BY <3>1 DEF UpdateRow, TypeOK, RowTypeOK
  <2>2. CASE ReportUpsert(p) \/ ReportRelease(p) \/ ReportSelect(p)
    BY <1>2, <2>2, TypeFrame DEF ReportUpsert, ReportRelease, ReportSelect
  <2>3. QED BY <2>1, <2>2
<1>6. QED
  BY <1>1, <1>2, <1>3, <1>4, <1>5, TypeFrame DEF TypeOK

LEMMA TypeEnvironment ==
  ASSUME TypeOK,
         \/ \E r \in RunIds : RunnerDies(r)
         \/ SetRepairEnabled
         \/ \E k \in Keys : LockExpires(k)
         \/ \E a \in AlertIds : MarkerExpires(a)
         \/ Crash
  PROVE  TypeOK'
<1> USE DEF kv, stream, hist
<1>1. TakenKept
  BY MsgFrame DEF RunnerDies, SetRepairEnabled, LockExpires, MarkerExpires, Crash
<1>2. ASSUME NEW r \in RunIds, RunnerDies(r) PROVE TypeOK'
  <2>1. RunsTypeOK'
    BY <1>1, <1>2 DEF RunnerDies, TypeOK, RunsTypeOK, TakenKept, Taken
  <2>2. QED BY <1>1, <1>2, <2>1, TypeFrame DEF RunnerDies, TypeOK
<1>3. CASE SetRepairEnabled
  <2>1. KVTypeOK'
    BY <1>3 DEF SetRepairEnabled, TypeOK, KVTypeOK
  <2>2. QED BY <1>1, <1>3, <2>1, TypeFrame DEF SetRepairEnabled, TypeOK
<1>4. ASSUME NEW k \in Keys, LockExpires(k) PROVE TypeOK'
  <2>1. KVTypeOK'
    BY <1>4 DEF LockExpires, TypeOK, KVTypeOK
  <2>2. QED BY <1>1, <1>4, <2>1, TypeFrame DEF LockExpires, TypeOK
<1>5. ASSUME NEW a \in AlertIds, MarkerExpires(a) PROVE TypeOK'
  <2>1. KVTypeOK' /\ HistTypeOK'
    BY <1>5 DEF MarkerExpires, TypeOK, KVTypeOK, HistTypeOK
  <2>2. QED BY <1>1, <1>5, <2>1, TypeFrame DEF MarkerExpires, TypeOK
<1>6. CASE Crash
  <2>1. DispTypeOK'
    BY <1>6, DispIdleType DEF Crash
  <2>2. HooksTypeOK'
    BY <1>6, EmptySeq DEF Crash, HooksTypeOK, HookIdle, HookPc
  <2>3. ReportsTypeOK'
    BY <1>6 DEF Crash, ReportsTypeOK, ReportIdle, ReportPc
  <2>4. StreamTypeOK'
    BY <1>6 DEF Crash, TypeOK, StreamTypeOK, Taken
  <2>5. QED BY <1>1, <1>6, <2>1, <2>2, <2>3, <2>4, TypeFrame DEF Crash, TypeOK
<1>7. QED BY <1>2, <1>3, <1>4, <1>5, <1>6

LEMMA TypeStep ==
  ASSUME TypeOK, [Next]_vars
  PROVE  TypeOK'
<1>1. CASE UNCHANGED vars
  BY <1>1, MsgFrame, TypeFrame DEF vars, TypeOK
<1>2. CASE Next
  BY <1>2, TypeReceive, TypeTryLock, TypeHalt, TypePublish, TypeInsertRun,
     TypeDeliver, TypeAckWaitOver, TypeTake, TypeDispStep, TypeReport,
     TypeReportStep, TypeEnvironment
  DEF Next, HookStep
<1>3. QED BY <1>1, <1>2

\* Every handler, redelivery, failure and crash keeps every variable in its
\* domain, and no one ever works on a claim that was not taken.
THEOREM TypeCorrect == Spec => []TypeOK
<1>1. Init => TypeOK
  BY TypeInit
<1>2. TypeOK /\ [Next]_vars => TypeOK'
  BY TypeStep
<1>3. QED
  BY <1>1, <1>2, PTL DEF Spec

(***************************************************************************)
(* At most one confirmed dispatch per marker.                              *)
(***************************************************************************)

\* The ways in which a step changes the messages.
MsgChange ==
  \/ UNCHANGED msg
  \/ \E c \in Claims, s \in {"queued", "out", "done"} : \E n : SetMsg(c, s, n)
  \/ \E c \in Claims : \E a : TakeClaim(c, a)

LEMMA MsgChanges ==
  ASSUME TypeOK, [Next]_vars
  PROVE  MsgChange
<1> USE DEF MsgChange
<1>1. CASE UNCHANGED vars
  BY <1>1 DEF vars
<1>2. ASSUME NEW h \in Hooks, Receive(h) \/ HookStep(h) PROVE MsgChange
  <2>1. CASE Publish(h)
    BY <2>1 DEF Publish, Enqueue, TypeOK, HooksTypeOK, Taken
  <2>2. CASE TryLock(h)
    BY <2>2 DEF TryLock
  <2>3. CASE Receive(h) \/ Halt(h) \/ InsertRun(h)
    BY <2>3 DEF Receive, Halt, InsertRun, stream
  <2>4. QED BY <1>2, <2>1, <2>2, <2>3 DEF HookStep
<1>3. ASSUME NEW c \in Claims, Deliver(c) \/ AckWaitOver(c) PROVE MsgChange
  BY <1>3 DEF Deliver, AckWaitOver, Requeue
<1>4. CASE DispStep
  <2>1. CASE Settle
    BY <2>1, CurrentClaim DEF Settle, Requeue
  <2>2. CASE ~Settle
    BY <1>4, <2>2 DEF DispStep, stream, SettleLost, CheckToggle, TryMark,
       DispatchOk, DispatchFails, UnmarkDispatched, SkipRelease, SkipSelect,
       SkipUpdate, SkipDigest
  <2>3. QED BY <2>1, <2>2
<1>5. ASSUME NEW p \in Reports, ReportStep(p) \/ \E r \in RunIds : Report(p, r)
      PROVE  UNCHANGED msg
  BY <1>5 DEF ReportStep, Report, ReportUpsert, ReportRelease, ReportSelect,
     ReportUpdate, stream
<1>6. ASSUME \/ Take \/ SetRepairEnabled \/ Crash
             \/ \E r \in RunIds : RunnerDies(r)
             \/ \E k \in Keys : LockExpires(k)
             \/ \E a \in AlertIds : MarkerExpires(a)
      PROVE  UNCHANGED msg
  BY <1>6 DEF Take, SetRepairEnabled, Crash, RunnerDies, LockExpires,
     MarkerExpires, stream
<1>7. QED
  BY <1>1, <1>2, <1>3, <1>4, <1>5, <1>6 DEF Next

\* A message's alert_id is fixed once its claim is taken, and a claim is
\* never given back.
LEMMA AlertsKept ==
  ASSUME TypeOK, [Next]_vars
  PROVE  \A c \in Claims : Taken(c) => Taken(c)' /\ msg'[c].alert = msg[c].alert
<1> DEFINE Kept == \A c \in Claims : Taken(c) => Taken(c)' /\ msg'[c].alert = msg[c].alert
<1>1. UNCHANGED msg => Kept
  BY DEF Taken
<1>2. ASSUME NEW c \in Claims, NEW s \in {"queued", "out", "done"}, NEW n,
             SetMsg(c, s, n)
      PROVE  Kept
  BY <1>2 DEF TypeOK, StreamTypeOK, SetMsg, Taken
<1>3. ASSUME NEW c \in Claims, NEW a, TakeClaim(c, a)
      PROVE  Kept
  BY <1>3 DEF TypeOK, StreamTypeOK, TakeClaim, Taken
<1>4. QED BY <1>1, <1>2, <1>3, MsgChanges DEF MsgChange

\* Why AtMostOneDispatch is not inductive by itself: the callback reaches
\* "dispatch" only past a marker it has just created, at a time when no run
\* was confirmed under the alert_id.
MarkerInv ==
  /\ \A a \in AlertIds : sent[a] # {} => marker[a]
  /\ disp.pc \in {"dispatch", "unmark"} =>
       /\ marker[msg[disp.claim].alert]
       /\ sent[msg[disp.claim].alert] = {}
  /\ AtMostOneDispatch

LEMMA MarkerInit == Init => MarkerInv
BY DEF Init, MarkerInv, AtMostOneDispatch, DispIdle

\* A step that leaves the markers and the history alone, and does not bring
\* the callback past the marker.
LEMMA MarkerFrame ==
  ASSUME TypeOK, MarkerInv, [Next]_vars, UNCHANGED <<marker, sent>>,
         disp'.pc \in {"dispatch", "unmark"} =>
           disp.pc \in {"dispatch", "unmark"} /\ disp'.claim = disp.claim
  PROVE  MarkerInv'
<1>1. disp.pc # "idle" => msg'[disp.claim].alert = msg[disp.claim].alert
  BY AlertsKept, CurrentClaim
<1>2. QED
  BY <1>1 DEF MarkerInv, AtMostOneDispatch

LEMMA MarkerStep ==
  ASSUME TypeOK, MarkerInv, [Next]_vars
  PROVE  MarkerInv'
<1> USE DEF kv, hist
<1>1. CASE UNCHANGED vars
  BY <1>1, MarkerFrame DEF vars
<1>2. ASSUME NEW h \in Hooks, Receive(h) \/ HookStep(h) PROVE MarkerInv'
  BY <1>2, MarkerFrame DEF Receive, HookStep, TryLock, Halt, Publish, InsertRun
<1>3. ASSUME NEW c \in Claims, Deliver(c) \/ AckWaitOver(c) PROVE MarkerInv'
  BY <1>3, MarkerFrame DEF Deliver, AckWaitOver
<1>4. CASE Take
  BY <1>4, MarkerFrame DEF Take
<1>5. CASE DispStep
  <2> DEFINE a == msg[disp.claim].alert
  <2>1. CASE TryMark
    <3>1. a \in AlertIds /\ UNCHANGED <<msg, sent>> /\ marker \in [AlertIds -> BOOLEAN]
      BY <2>1, CurrentClaim DEF TryMark, stream, TypeOK, KVTypeOK
    <3>2. CASE ~marker[a] /\ marker' = [marker EXCEPT ![a] = TRUE]
      BY <2>1, <3>1, <3>2 DEF TryMark, Goto, MarkerInv, AtMostOneDispatch
    <3>3. CASE UNCHANGED marker /\ (Goto("ack") \/ Goto("nak"))
      BY <3>1, <3>3, MarkerFrame DEF Goto
    <3>4. QED BY <2>1, <3>2, <3>3 DEF TryMark, MarkerTaken
  <2>2. CASE DispatchOk
    <3>1. a \in AlertIds /\ UNCHANGED <<msg, marker>> /\ sent \in [AlertIds -> SUBSET RunIds]
      BY <2>2, CurrentClaim DEF DispatchOk, stream, TypeOK, HistTypeOK
    <3>2. PICK r \in RunIds : sent' = [sent EXCEPT ![a] = @ \union {r}]
      BY <2>2 DEF DispatchOk
    <3>3. sent[a] = {} /\ marker[a]
      BY <2>2 DEF DispatchOk, MarkerInv
    <3>4. \A b \in AlertIds : sent'[b] = IF b = a THEN {r} ELSE sent[b]
      BY <3>1, <3>2, <3>3
    <3>5. disp'.pc = "ack"
      BY <2>2 DEF DispatchOk, Goto
    <3>6. QED BY <3>1, <3>3, <3>4, <3>5 DEF MarkerInv, AtMostOneDispatch
  <2>3. CASE DispatchFails
    BY <2>3, MarkerFrame DEF DispatchFails, Goto
  <2>4. CASE UnmarkDispatched
    <3>1. a \in AlertIds /\ UNCHANGED <<msg, sent>> /\ marker \in [AlertIds -> BOOLEAN]
      BY <2>4, CurrentClaim DEF UnmarkDispatched, stream, TypeOK, KVTypeOK
    <3>2. sent[a] = {}
      BY <2>4 DEF UnmarkDispatched, MarkerInv
    <3>3. disp'.pc \in {"term", "nak"}
      BY <2>4 DEF UnmarkDispatched, Goto, AfterFailure
    <3>4. \A b \in AlertIds : b # a => marker'[b] = marker[b]
      BY <2>4, <3>1 DEF UnmarkDispatched, DeleteMarker
    <3>5. QED BY <3>1, <3>2, <3>3, <3>4 DEF MarkerInv, AtMostOneDispatch
  <2>5. CASE Settle \/ SettleLost
    BY <2>5, MarkerFrame DEF Settle, SettleLost, DispIdle
  <2>6. CASE CheckToggle \/ SkipRelease \/ SkipSelect \/ SkipUpdate \/ SkipDigest
    BY <2>6, MarkerFrame
    DEF CheckToggle, SkipRelease, SkipSelect, SkipUpdate, SkipDigest, AfterSkip, Goto
  <2>7. QED BY <1>5, <2>1, <2>2, <2>3, <2>4, <2>5, <2>6 DEF DispStep
<1>6. ASSUME NEW p \in Reports, ReportStep(p) \/ \E r \in RunIds : Report(p, r)
      PROVE  MarkerInv'
  BY <1>6, MarkerFrame
  DEF ReportStep, Report, ReportUpsert, ReportRelease, ReportSelect, ReportUpdate
<1>7. ASSUME NEW a \in AlertIds, MarkerExpires(a) PROVE MarkerInv'
  <2>1. /\ marker \in [AlertIds -> BOOLEAN] /\ sent \in [AlertIds -> SUBSET RunIds]
        /\ UNCHANGED <<msg, disp>>
    BY <1>7 DEF MarkerExpires, stream, TypeOK, KVTypeOK, HistTypeOK
  <2>2. QED
    BY <1>7, <2>1 DEF MarkerExpires, MarkerInv, AtMostOneDispatch
<1>8. ASSUME \/ SetRepairEnabled \/ Crash
             \/ \E r \in RunIds : RunnerDies(r)
             \/ \E k \in Keys : LockExpires(k)
      PROVE  MarkerInv'
  BY <1>8, MarkerFrame DEF SetRepairEnabled, Crash, RunnerDies, LockExpires, DispIdle
<1>9. QED
  BY <1>1, <1>2, <1>3, <1>4, <1>5, <1>6, <1>7, <1>8 DEF Next

\* While its marker lives, no alert_id has two confirmed dispatches, whatever
\* is redelivered, retried, crashed or answered with an error, and however
\* long locks and markers live.
THEOREM AtMostOne == Spec => []AtMostOneDispatch
<1>1. Init => TypeOK /\ MarkerInv
  BY TypeInit, MarkerInit
<1>2. TypeOK /\ MarkerInv /\ [Next]_vars => (TypeOK /\ MarkerInv)'
  BY TypeStep, MarkerStep
<1>3. MarkerInv => AtMostOneDispatch
  BY DEF MarkerInv
<1>4. QED
  BY <1>1, <1>2, <1>3, PTL DEF Spec

(***************************************************************************)
(* The flap lock is a lock, as long as nothing disowns its holder: no one  *)
(* turns repair off, no report comes twice, GitHub's answers are clear and *)
(* no TTL runs out under work in progress.                                 *)
(***************************************************************************)
\* The events after which a claim may still be worked on while its lock is
\* gone: pipeline_mutex leaves them out, the theorems below assume them away.
Disowning == {"toggle", "resend", "ambiguous", "markerttl", "lockttlEarly"}

\* The claim still has the lock it was taken with.
Holds(c) == locks[Key(c)] = c

\* The callback may still dispatch for the alert_id, or roll its marker back.
Undecided(a) ==
  \/ ~marker[a]
  \/ disp.pc \in {"dispatch", "unmark"} /\ msg[disp.claim].alert = a

\* The message of the claim has reached the stream.
Published(c) == msg[c].state \in {"queued", "out", "done"}

\* The report has yet to delete its key's lock.
Releasing(p) == reports[p].pc \in {"upsert", "release"}

(* The inductive invariant.  RepairMutex needs that all work holds its lock *)
(* (WorkHoldsLock).  For that to survive a release or an expiry, no other   *)
(* work may rest on the lock that goes: one publisher and one run per claim,*)
(* one report per run, and no work under a claim before it is published.    *)
RepairStaysOn ==
  /\ enabled
  /\ disp.pc \notin {"skipRelease", "skipSelect", "skipUpdate", "skipDigest"}

WorkIsPublished ==
  /\ \A c \in Claims : HasCopy(c) => Published(c)
  /\ \A r \in RunIds : runs[r].phase # "none" => Published(runs[r].claim)

OneRunPerAlert ==
  \A r \in RunIds : runs[r].phase # "none" =>
    /\ ~Undecided(msg[runs[r].claim].alert)
    /\ \A s \in RunIds :
         /\ runs[s].phase # "none"
         /\ msg[runs[s].claim].alert = msg[runs[r].claim].alert
         => r = s

OneReportPerRun ==
  \A p \in Reports : Releasing(p) =>
    /\ \E r \in RunIds : runs[r] = [phase |-> "reported", claim |-> reports[p].claim]
    /\ \A q \in Reports :
         Releasing(q) /\ reports[q].claim = reports[p].claim => p = q

OnePublisher ==
  \A h \in Hooks : hooks[h].pc = "publish" =>
    /\ msg[hooks[h].claim].state = "unsent"
    /\ \A g \in Hooks :
         hooks[g].pc = "publish" /\ hooks[g].claim = hooks[h].claim => g = h

\* Somebody works under the claim, or will, in a way that needs its lock.
InUse(c) ==
  \/ \E h \in Hooks : hooks[h].pc = "publish" /\ hooks[h].claim = c
  \/ (Pending(c) \/ HasCopy(c)) /\ Undecided(msg[c].alert)
  \/ \E r \in RunIds : runs[r].phase = "running" /\ runs[r].claim = c
  \/ \E p \in Reports : Releasing(p) /\ reports[p].claim = c

WorkHoldsLock == \A c \in Claims : InUse(c) => Holds(c)

LockInv ==
  /\ RepairStaysOn /\ WorkIsPublished /\ OneRunPerAlert
  /\ OneReportPerRun /\ OnePublisher /\ WorkHoldsLock

Orderly == Env \cap Disowning = {}

LEMMA LockInit == Init => LockInv
BY PipelineAssumption
DEF Init, LockInv, RepairStaysOn, WorkIsPublished, OneRunPerAlert, OneReportPerRun,
    OnePublisher, WorkHoldsLock, InUse, Releasing, Pending, HasCopy,
    HookIdle, DispIdle, ReportIdle

LEMMA InUseHolds ==
  ASSUME TypeOK, LockInv
  PROVE  /\ \A c \in Claims : InUse(c) => Taken(c) /\ Holds(c)
         /\ \A h \in Hooks : hooks[h].pc = "publish" =>
              hooks[h].claim \in Claims /\ InUse(hooks[h].claim)
         /\ \A r \in RunIds : runs[r].phase = "running" =>
              runs[r].claim \in Claims /\ InUse(runs[r].claim)
         /\ \A p \in Reports : Releasing(p) =>
              reports[p].claim \in Claims /\ InUse(reports[p].claim)
<1>1. /\ \A h \in Hooks : hooks[h].pc = "publish" =>
           hooks[h].claim \in Claims /\ Taken(hooks[h].claim)
      /\ \A r \in RunIds : runs[r].phase = "running" =>
           runs[r].claim \in Claims /\ Taken(runs[r].claim)
      /\ \A p \in Reports : Releasing(p) =>
           reports[p].claim \in Claims /\ Taken(reports[p].claim)
  BY DEF TypeOK, HooksTypeOK, RunsTypeOK, ReportsTypeOK, Releasing, Taken
<1>2. \A c \in Claims : Pending(c) \/ HasCopy(c) => Taken(c)
  BY DEF Pending, LockInv, WorkIsPublished, Published, Taken
<1>3. \A c \in Claims : InUse(c) => Taken(c)
  BY <1>1, <1>2 DEF InUse
<1>4. QED
  BY <1>1, <1>3 DEF InUse, LockInv, WorkHoldsLock

LEMMA NothingDisowned ==
  ASSUME Orderly
  PROVE  /\ ~May("toggle") /\ ~May("resend") /\ ~May("ambiguous")
         /\ ~May("markerttl") /\ ~May("lockttlEarly")
BY DEF Orderly, Disowning, May

LEMMA RepairStaysOnStep ==
  ASSUME Orderly, LockInv, [Next]_vars
  PROVE  RepairStaysOn'
<1> USE DEF LockInv, RepairStaysOn, kv
<1>1. UNCHANGED enabled
  <2>1. CASE UNCHANGED vars
    BY <2>1 DEF vars
  <2>2. ASSUME NEW h \in Hooks, Receive(h) \/ HookStep(h) PROVE UNCHANGED enabled
    BY <2>2 DEF Receive, HookStep, TryLock, Halt, Publish, InsertRun
  <2>3. CASE DispStep
    BY <2>3 DEF DispStep, CheckToggle, TryMark, DispatchOk, DispatchFails, Settle,
       SettleLost, UnmarkDispatched, SkipRelease, SkipSelect, SkipUpdate, SkipDigest
  <2>4. ASSUME NEW p \in Reports, ReportStep(p) \/ \E r \in RunIds : Report(p, r)
        PROVE  UNCHANGED enabled
    BY <2>4 DEF ReportStep, Report, ReportUpsert, ReportRelease, ReportSelect,
       ReportUpdate
  <2>5. ~SetRepairEnabled
    BY NothingDisowned DEF SetRepairEnabled
  <2>6. ASSUME \/ \E c \in Claims : Deliver(c) \/ AckWaitOver(c)
               \/ Take \/ Crash
               \/ \E r \in RunIds : RunnerDies(r)
               \/ \E k \in Keys : LockExpires(k)
               \/ \E a \in AlertIds : MarkerExpires(a)
        PROVE  UNCHANGED enabled
    BY <2>6 DEF Deliver, AckWaitOver, Take, Crash, RunnerDies, LockExpires,
       MarkerExpires
  <2>7. QED BY <2>1, <2>2, <2>3, <2>4, <2>5, <2>6 DEF Next
<1>2. disp'.pc \notin {"skipRelease", "skipSelect", "skipUpdate", "skipDigest"}
  <2>1. CASE UNCHANGED disp
    BY <2>1
  <2>2. ASSUME NEW pc, Goto(pc), pc \notin {"skipRelease", "skipSelect", "skipUpdate", "skipDigest"}
        PROVE  <1>2!:
    BY <2>2 DEF Goto
  <2>3. CASE disp' = DispIdle
    BY <2>3 DEF DispIdle
  <2>4. CASE Take
    <3>1. disp'.pc = "toggle"
      BY <2>4 DEF Take
    <3>2. QED BY <3>1
  <2>5. CASE DispStep
    <3>1. CASE \/ SkipRelease \/ SkipSelect \/ SkipUpdate \/ SkipDigest
      BY <3>1 DEF SkipRelease, SkipSelect, SkipUpdate, SkipDigest, AfterSkip
    <3>2. CASE Settle \/ SettleLost
      BY <2>3, <3>2 DEF Settle, SettleLost
    <3>3. CASE CheckToggle
      BY <2>2, <3>3 DEF CheckToggle
    <3>4. CASE TryMark
      BY <2>2, <3>4 DEF TryMark
    <3>5. CASE DispatchOk
      BY <2>2, <3>5 DEF DispatchOk
    <3>6. CASE DispatchFails
      BY <2>2, <3>6 DEF DispatchFails
    <3>7. CASE UnmarkDispatched
      BY <2>2, <3>7 DEF UnmarkDispatched, AfterFailure
    <3>8. QED BY <2>5, <3>1, <3>2, <3>3, <3>4, <3>5, <3>6, <3>7 DEF DispStep
  <2>6. ASSUME NEW h \in Hooks, Receive(h) \/ HookStep(h) PROVE UNCHANGED disp
    BY <2>6 DEF Receive, HookStep, TryLock, Halt, Publish, InsertRun
  <2>7. ASSUME NEW p \in Reports, ReportStep(p) \/ \E r \in RunIds : Report(p, r)
        PROVE  UNCHANGED disp
    BY <2>7 DEF ReportStep, Report, ReportUpsert, ReportRelease, ReportSelect,
       ReportUpdate
  <2>8. ASSUME \/ \E c \in Claims : Deliver(c) \/ AckWaitOver(c)
               \/ SetRepairEnabled \/ UNCHANGED vars
               \/ \E r \in RunIds : RunnerDies(r)
               \/ \E k \in Keys : LockExpires(k)
               \/ \E a \in AlertIds : MarkerExpires(a)
        PROVE  UNCHANGED disp
    BY <2>8 DEF Deliver, AckWaitOver, SetRepairEnabled, RunnerDies, LockExpires,
       MarkerExpires, vars
  <2>9. CASE Crash
    BY <2>3, <2>9 DEF Crash
  <2>10. QED BY <2>1, <2>4, <2>5, <2>6, <2>7, <2>8, <2>9 DEF Next
<1>3. QED BY <1>1, <1>2

\* What is on the stream was published, and stays so.
LEMMA PublishedKept ==
  ASSUME TypeOK, [Next]_vars
  PROVE  \A c \in Claims : Published(c) => Published(c)'
<1> DEFINE Kept == \A c \in Claims : Published(c) => Published(c)'
<1>1. UNCHANGED msg => Kept
  BY DEF Published
<1>2. ASSUME NEW c \in Claims, NEW s \in {"queued", "out", "done"}, NEW n,
             SetMsg(c, s, n)
      PROVE  Kept
  BY <1>2 DEF TypeOK, StreamTypeOK, SetMsg, Published
<1>3. ASSUME NEW c \in Claims, NEW a, TakeClaim(c, a)
      PROVE  Kept
  BY <1>3 DEF TypeOK, StreamTypeOK, TakeClaim, Published
<1>4. QED BY <1>1, <1>2, <1>3, MsgChanges DEF MsgChange

\* A step that delivers nothing and starts no run.
LEMMA PublishedFrame ==
  ASSUME TypeOK, LockInv, [Next]_vars,
         \A c \in Claims : HasCopy(c)' => HasCopy(c),
         \A r \in RunIds : runs'[r].phase # "none" =>
           runs[r].phase # "none" /\ runs'[r].claim = runs[r].claim
  PROVE  WorkIsPublished'
<1> USE DEF LockInv, WorkIsPublished
<1>1. \A c \in Claims : HasCopy(c)' => Published(c)'
  BY PublishedKept
<1>2. \A r \in RunIds : runs[r].phase # "none" =>
        /\ runs[r].claim \in Claims /\ Published(runs[r].claim)
  BY DEF TypeOK, RunsTypeOK, Taken
<1>3. \A r \in RunIds : runs'[r].phase # "none" =>
        msg'[runs[r].claim].state \in {"queued", "out", "done"}
  BY <1>2, PublishedKept DEF Published
<1>4. QED
  BY <1>1, <1>3 DEF Published

\* A step that only takes work away: no lock changes, no one starts to
\* publish, no message becomes due that was not, and no run or report is new.
LessWork ==
  /\ UNCHANGED locks
  /\ \A h \in Hooks : hooks'[h].pc = "publish" =>
       /\ hooks[h].pc = "publish" /\ hooks'[h].claim = hooks[h].claim
       /\ msg'[hooks[h].claim].state = msg[hooks[h].claim].state
  /\ \A c \in Claims : Pending(c)' \/ HasCopy(c)' => Pending(c) \/ HasCopy(c)
  /\ \A r \in RunIds :
       /\ runs'[r].phase # "none" =>
            runs[r].phase # "none" /\ runs'[r].claim = runs[r].claim
       /\ runs'[r].phase = "running" => runs[r].phase = "running"
       /\ runs[r].phase = "reported" => runs'[r] = runs[r]
  /\ \A p \in Reports :
       Releasing(p)' => Releasing(p) /\ reports'[p].claim = reports[p].claim

\* The markers stay, and the callback does not get past one.
NothingReopened ==
  /\ UNCHANGED marker
  /\ disp'.pc \in {"dispatch", "unmark"} =>
       disp.pc \in {"dispatch", "unmark"} /\ disp'.claim = disp.claim

LEMMA UndecidedFrame ==
  ASSUME TypeOK, [Next]_vars, NothingReopened
  PROVE  \A a \in AlertIds : Undecided(a)' => Undecided(a)
<1>1. disp.pc # "idle" => msg'[disp.claim].alert = msg[disp.claim].alert
  BY AlertsKept, CurrentClaim
<1>2. QED
  BY <1>1 DEF NothingReopened, Undecided

LEMMA LockFrame ==
  ASSUME Orderly, TypeOK, LockInv, [Next]_vars, WorkIsPublished', LessWork,
         \A a \in AlertIds : Undecided(a)' => Undecided(a)
  PROVE  LockInv'
<1> USE DEF LessWork
<1>1. /\ \A c \in Claims : Taken(c) =>
           msg[c].alert \in AlertIds /\ msg'[c].alert = msg[c].alert
      /\ \A r \in RunIds : runs[r].phase # "none" =>
           Taken(runs[r].claim) /\ runs[r].claim \in Claims
      /\ \A p \in Reports : Releasing(p) =>
           Taken(reports[p].claim) /\ reports[p].claim \in Claims
      /\ \A h \in Hooks : hooks[h].pc = "publish" =>
           Taken(hooks[h].claim) /\ hooks[h].claim \in Claims
      /\ disp.pc # "idle" => Taken(disp.claim) /\ disp.claim \in Claims
  BY AlertsKept
  DEF TypeOK, StreamTypeOK, RunsTypeOK, ReportsTypeOK, HooksTypeOK, DispTypeOK,
      Releasing, Taken
<1>2. \A a \in AlertIds : Undecided(a)' => Undecided(a)
  OBVIOUS
<1>3. \A c \in Claims : Pending(c) \/ HasCopy(c) => Taken(c)
  BY DEF Pending, LockInv, WorkIsPublished, Published, Taken
<1>4. RepairStaysOn'
  BY RepairStaysOnStep
<1>5. OneRunPerAlert'
  BY <1>1, <1>2 DEF LockInv, OneRunPerAlert
<1>6. OneReportPerRun'
  BY DEF LockInv, OneReportPerRun
<1>7. OnePublisher'
  BY DEF LockInv, OnePublisher
<1>8. WorkHoldsLock'
  <2>1. \A c \in Claims : Taken(c) /\ Holds(c) => Holds(c)'
    BY <1>1 DEF Holds, Key
  <2>2. \A c \in Claims : InUse(c)' => InUse(c)
    BY <1>1, <1>2, <1>3 DEF InUse
  <2>3. QED
    BY <2>1, <2>2, InUseHolds DEF WorkHoldsLock
<1>9. QED
  BY <1>4, <1>5, <1>6, <1>7, <1>8 DEF LockInv

\* The steps that only take work away, or hand it on.
LEMMA LockQuiet ==
  ASSUME Orderly, TypeOK, LockInv, [Next]_vars,
         \/ UNCHANGED vars
         \/ \E h \in Hooks : Receive(h) \/ Halt(h) \/ InsertRun(h)
         \/ \E c \in Claims : AckWaitOver(c)
         \/ Take \/ CheckToggle \/ DispatchFails \/ Settle \/ SettleLost
         \/ \E r \in RunIds : RunnerDies(r)
         \/ \E p \in Reports : ReportUpsert(p) \/ ReportSelect(p) \/ ReportUpdate(p)
         \/ Crash
  PROVE  LockInv'
<1> USE DEF kv, stream, hist
<1> DEFINE NoNewCopy == \A c \in Claims : HasCopy(c)' => HasCopy(c)
<1> SUFFICES NoNewCopy /\ LessWork /\ NothingReopened
  BY LockFrame, UndecidedFrame, PublishedFrame DEF LessWork
<1> USE DEF LessWork, NothingReopened, Pending, HasCopy, Releasing
<1>1. CASE UNCHANGED vars
  BY <1>1 DEF vars
<1>2. ASSUME NEW h \in Hooks, Receive(h) \/ Halt(h) \/ InsertRun(h)
      PROVE  NoNewCopy /\ LessWork /\ NothingReopened
  <2>1. \A g \in Hooks : hooks'[g].pc = "publish" => hooks'[g] = hooks[g]
    <3>1. CASE Receive(h)
      BY <3>1 DEF Receive, TypeOK, HooksTypeOK
    <3>2. CASE Advance(h)
      BY <3>2 DEF Advance, HookIdle, TypeOK, HooksTypeOK
    <3>3. QED BY <1>2, <3>1, <3>2 DEF Halt, InsertRun
  <2>2. QED
    BY <1>2, <2>1 DEF Receive, Halt, InsertRun
<1>3. ASSUME NEW c \in Claims, AckWaitOver(c)
      PROVE  NoNewCopy /\ LessWork /\ NothingReopened
  <2>1. Pending(c) /\ UNCHANGED <<inbox, disp, runs, reports, hooks, locks, marker>>
    BY <1>3 DEF AckWaitOver
  <2>2. \A d \in Claims : d # c => msg'[d] = msg[d]
    BY <1>3 DEF AckWaitOver, Requeue, SetMsg, TypeOK, StreamTypeOK
  <2>3. \A h \in Hooks : hooks[h].pc = "publish" =>
          hooks[h].claim \in Claims /\ hooks[h].claim # c
    BY <1>3 DEF AckWaitOver, LockInv, OnePublisher, TypeOK, HooksTypeOK, Taken
  <2>4. QED
    BY <2>1, <2>2, <2>3
<1>4. CASE Take
  <2>1. PICK d \in inbox : /\ inbox' = inbox \ {d} /\ disp'.claim = d.claim
                           /\ disp'.pc = "toggle"
    BY <1>4 DEF Take
  <2>2. UNCHANGED <<msg, locks, marker, hooks, runs, reports>>
    BY <1>4 DEF Take
  <2>3. QED BY <2>1, <2>2
<1>5. CASE CheckToggle \/ DispatchFails
  <2>1. disp'.claim = disp.claim /\ UNCHANGED <<msg, inbox, locks, marker, hooks, runs, reports>>
    BY <1>5, NothingDisowned DEF CheckToggle, DispatchFails, Goto
  <2>2. disp'.pc \in {"dispatch", "unmark"} => disp.pc \in {"dispatch", "unmark"}
    BY <1>5 DEF CheckToggle, DispatchFails, Goto
  <2>3. QED BY <2>1, <2>2
<1>6. CASE Settle \/ SettleLost
  <2>1. disp' = DispIdle /\ UNCHANGED <<inbox, locks, marker, hooks, runs, reports>>
    BY <1>6 DEF Settle, SettleLost
  <2>2. \A c \in Claims : c # disp.claim => msg'[c] = msg[c]
    BY <1>6 DEF Settle, SettleLost, SetMsg, Requeue, TypeOK, StreamTypeOK
  <2>3. disp.claim \in Claims /\ Published(disp.claim)
    BY <1>6, CurrentClaim DEF Settle, SettleLost, LockInv, WorkIsPublished
  <2>4. \A h \in Hooks : hooks[h].pc = "publish" =>
          hooks[h].claim \in Claims /\ hooks[h].claim # disp.claim
    BY <2>3 DEF Published, LockInv, OnePublisher, TypeOK, HooksTypeOK, Taken
  <2>5. disp'.claim = NoClaim /\ disp'.pc = "idle"
    BY <2>1 DEF DispIdle
  <2>6. QED
    BY <2>1, <2>2, <2>3, <2>4, <2>5, PipelineAssumption
<1>7. ASSUME NEW r \in RunIds, RunnerDies(r)
      PROVE  NoNewCopy /\ LessWork /\ NothingReopened
  <2>1. \A s \in RunIds : runs'[s] = IF s = r THEN [phase |-> "dead", claim |-> runs[r].claim]
                                      ELSE runs[s]
    BY <1>7 DEF RunnerDies, TypeOK, RunsTypeOK
  <2>2. runs[r].phase = "running" /\ UNCHANGED <<msg, inbox, disp, locks, marker, hooks, reports>>
    BY <1>7 DEF RunnerDies
  <2>3. QED BY <2>1, <2>2
<1>8. ASSUME NEW p \in Reports, ReportUpsert(p) \/ ReportSelect(p) \/ ReportUpdate(p)
      PROVE  NoNewCopy /\ LessWork /\ NothingReopened
  <2>1. UNCHANGED <<msg, inbox, disp, locks, marker, hooks, runs>>
    BY <1>8 DEF ReportUpsert, ReportSelect, ReportUpdate
  <2>2. \A q \in Reports : Releasing(q)' => Releasing(q) /\ reports'[q].claim = reports[q].claim
    BY <1>8 DEF ReportUpsert, ReportSelect, ReportUpdate, ReportGoto, ReportIdle, After,
       OnUpsertError, TypeOK, ReportsTypeOK
  <2>3. QED BY <2>1, <2>2
<1>9. CASE Crash
  <2>1. UNCHANGED <<msg, locks, marker, runs>> /\ inbox' = {}
    BY <1>9 DEF Crash
  <2>2. disp'.pc = "idle" /\ disp'.claim = NoClaim
    BY <1>9 DEF Crash, DispIdle
  <2>3. /\ \A h \in Hooks : hooks'[h].pc = "idle"
        /\ \A p \in Reports : reports'[p].pc = "idle"
    BY <1>9 DEF Crash, HookIdle, ReportIdle
  <2>4. QED BY <2>1, <2>2, <2>3, PipelineAssumption
<1>10. QED
  BY <1>1, <1>2, <1>3, <1>4, <1>5, <1>6, <1>7, <1>8, <1>9

LEMMA LockDeliver ==
  ASSUME Orderly, TypeOK, LockInv, [Next]_vars, NEW c \in Claims, Deliver(c)
  PROVE  LockInv'
<1> USE DEF Deliver, kv
<1>1. Published(c) /\ Pending(c)
  BY DEF Published, Pending
<1>2. \A d \in Claims : HasCopy(d)' => HasCopy(d) \/ d = c
  BY DEF HasCopy
<1>3. \A d \in Claims : d # c => msg'[d] = msg[d]
  BY DEF SetMsg, TypeOK, StreamTypeOK
<1>4. WorkIsPublished'
  <2>1. \A d \in Claims : HasCopy(d)' => Published(d)'
    BY <1>1, <1>2, PublishedKept DEF LockInv, WorkIsPublished
  <2>2. \A r \in RunIds : runs[r].phase # "none" =>
          runs[r].claim \in Claims /\ Published(runs[r].claim)
    BY DEF TypeOK, RunsTypeOK, Taken, LockInv, WorkIsPublished
  <2>3. \A r \in RunIds : runs[r].phase # "none" =>
          msg'[runs[r].claim].state \in {"queued", "out", "done"}
    BY <2>2, PublishedKept DEF Published
  <2>4. QED BY <2>1, <2>3 DEF WorkIsPublished, Published
<1>5. LessWork /\ NothingReopened
  <2>1. \A h \in Hooks : hooks[h].pc = "publish" =>
          hooks[h].claim \in Claims /\ hooks[h].claim # c
    BY <1>1 DEF Published, LockInv, OnePublisher, TypeOK, HooksTypeOK, Taken
  <2>2. QED
    BY <1>1, <1>2, <1>3, <2>1 DEF LessWork, NothingReopened, Pending, Releasing
<1>6. QED BY <1>4, <1>5, LockFrame, UndecidedFrame

LEMMA LockPublish ==
  ASSUME Orderly, TypeOK, LockInv, [Next]_vars, NEW h \in Hooks, Publish(h)
  PROVE  LockInv'
<1> USE DEF Publish, kv, hist
<1> DEFINE c == hooks[h].claim
<1>1. /\ c \in Claims /\ Taken(c) /\ Holds(c) /\ msg[c].state = "unsent"
      /\ UNCHANGED <<locks, marker, inbox, disp, reports, runs>>
  BY InUseHolds DEF LockInv, OnePublisher
<1>2. \A g \in Hooks : hooks'[g].pc = "publish" => hooks[g] = hooks'[g] /\ g # h
  BY DEF HookGoto, Abort, HookIdle, TypeOK, HooksTypeOK
<1>3. \A g \in Hooks : hooks'[g].pc = "publish" =>
        hooks[g].claim \in Claims /\ hooks[g].claim # c
  BY <1>2 DEF LockInv, OnePublisher, TypeOK, HooksTypeOK, Taken
<1>4. \A d \in Claims : d # c => msg'[d] = msg[d]
  BY DEF Enqueue, SetMsg, TypeOK, StreamTypeOK
<1>5. msg'[c].alert = msg[c].alert
  BY <1>1, AlertsKept
<1>6. WorkIsPublished'
  BY <1>1, PublishedFrame DEF HasCopy
<1>7. RepairStaysOn' /\ OneReportPerRun'
  BY <1>1, RepairStaysOnStep DEF LockInv, OneReportPerRun, Releasing
<1>8. \A d \in Claims : msg'[d].alert = msg[d].alert
  BY <1>4, <1>5
<1>9. OneRunPerAlert'
  BY <1>1, <1>8 DEF LockInv, OneRunPerAlert, Undecided, TypeOK, RunsTypeOK, DispTypeOK, Taken
<1>10. OnePublisher'
  BY <1>2, <1>3, <1>4 DEF LockInv, OnePublisher
<1>11. WorkHoldsLock'
  <2>1. \A d \in Claims : Holds(d) => Holds(d)'
    BY <1>1, <1>8 DEF Holds, Key
  <2>2. \A d \in Claims : d # c /\ (Pending(d) \/ HasCopy(d))' => Pending(d) \/ HasCopy(d)
    BY <1>1, <1>4 DEF Pending, HasCopy
  <2>3. \A d \in Claims : Undecided(msg[d].alert)' => Undecided(msg[d].alert)
    BY <1>1, <1>8 DEF Undecided, TypeOK, DispTypeOK, Taken
  <2>4. \A d \in Claims : d # c /\ InUse(d)' => InUse(d)
    BY <1>1, <1>2, <2>2, <2>3 DEF InUse, Releasing
  <2>5. QED
    BY <1>1, <2>1, <2>4, InUseHolds DEF WorkHoldsLock
<1>12. QED
  BY <1>6, <1>7, <1>9, <1>10, <1>11 DEF LockInv

LEMMA LockTryLock ==
  ASSUME Orderly, TypeOK, LockInv, [Next]_vars, NEW h \in Hooks, TryLock(h)
  PROVE  LockInv'
<1> USE DEF TryLock
<1> DEFINE a == Head(hooks[h].todo)
           k == KeyOf[a]
<1>1. a \in AlertIds /\ k \in Keys /\ UNCHANGED <<marker, inbox, disp, reports, runs>>
  BY BatchLeft
<1>2. WorkIsPublished'
  BY <1>1, PublishedFrame DEF HasCopy
<1>3. CASE UNCHANGED <<locks, msg>> /\ (HookGoto(h, "halt", NoClaim) \/ Abort(h))
  <2>1. \A g \in Hooks : hooks'[g].pc = "publish" => hooks[g] = hooks'[g]
    BY <1>3 DEF HookGoto, Abort, HookIdle, TypeOK, HooksTypeOK
  <2>2. LessWork /\ NothingReopened
    BY <1>1, <1>3, <2>1 DEF LessWork, NothingReopened, Pending, HasCopy, Releasing
  <2>3. QED BY <1>2, <2>2, LockFrame, UndecidedFrame
<1>4. ASSUME NEW c \in Claims, LockFree(k), TakeClaim(c, a),
             HookGoto(h, "publish", c) \/ Abort(h)
      PROVE  LockInv'
  <2>1. /\ msg[c].state = "fresh" /\ msg'[c].alert = a /\ msg'[c].state = "unsent"
        /\ \A d \in Claims : d # c => msg'[d] = msg[d]
    BY <1>4 DEF TakeClaim, TypeOK, StreamTypeOK
  <2>2. /\ locks'[k] = c
        /\ \A j \in Keys : j # k => locks'[j] = locks[j]
    BY <1>1, <1>4 DEF TakeClaim, TypeOK, KVTypeOK
  <2>3. \A d \in Claims : Taken(d) => d # c
    BY <2>1 DEF Taken
  \* The lock was free, so nobody's work rested on it.
  <2>4. \A d \in Claims : Taken(d) /\ Holds(d) => Holds(d)'
    <3>1. \A d \in Claims : Holds(d) => Key(d) # k
      BY <1>4, PipelineAssumption DEF Holds, LockFree
    <3>2. \A d \in Claims : Taken(d) => Key(d) \in Keys
      BY PipelineAssumption DEF Key, TypeOK, StreamTypeOK, Taken
    <3>3. QED
      BY <2>1, <2>2, <2>3, <3>1, <3>2 DEF Holds, Key
  <2>5. Holds(c)'
    BY <2>1, <2>2 DEF Holds, Key
  <2>6. \A g \in Hooks : hooks'[g].pc = "publish" =>
          \/ g = h /\ hooks'[g].claim = c
          \/ /\ g # h /\ hooks'[g] = hooks[g]
             /\ hooks[g].claim \in Claims /\ Taken(hooks[g].claim)
    BY <1>4 DEF HookGoto, Abort, HookIdle, TypeOK, HooksTypeOK, Taken
  <2>7. /\ \A r \in RunIds : runs[r].phase # "none" =>
             runs[r].claim \in Claims /\ Taken(runs[r].claim)
        /\ \A p \in Reports : Releasing(p) =>
             reports[p].claim \in Claims /\ Taken(reports[p].claim)
        /\ disp.pc # "idle" => disp.claim \in Claims /\ Taken(disp.claim)
    BY DEF TypeOK, RunsTypeOK, ReportsTypeOK, DispTypeOK, Releasing, Taken
  <2>8. RepairStaysOn' /\ OneReportPerRun'
    BY <1>1, RepairStaysOnStep DEF LockInv, OneReportPerRun, Releasing
  <2>9. OneRunPerAlert'
    BY <1>1, <2>1, <2>3, <2>7 DEF LockInv, OneRunPerAlert, Undecided
  <2>10. OnePublisher'
    BY <2>1, <2>3, <2>6 DEF LockInv, OnePublisher
  <2>11. WorkHoldsLock'
    <3>1. \A d \in Claims : d # c /\ (Pending(d) \/ HasCopy(d))' => Pending(d) \/ HasCopy(d)
      BY <1>1, <2>1 DEF Pending, HasCopy
    <3>2. \A d \in Claims : d # c /\ Undecided(msg[d].alert)' => Undecided(msg[d].alert)
      BY <1>1, <2>1, <2>3, <2>7 DEF Undecided
    <3>3. \A d \in Claims : d # c /\ InUse(d)' => InUse(d)
      BY <1>1, <2>6, <3>1, <3>2 DEF InUse, Releasing
    <3>4. QED
      BY <2>4, <2>5, <3>3, InUseHolds DEF WorkHoldsLock
  <2>12. QED
    BY <1>2, <2>8, <2>9, <2>10, <2>11 DEF LockInv
<1>5. QED
  BY <1>3, <1>4

\* The marker is created and rolled back while the alert_id is undecided.
LEMMA LockMark ==
  ASSUME Orderly, TypeOK, LockInv, [Next]_vars, TryMark \/ UnmarkDispatched
  PROVE  LockInv'
<1> DEFINE a == msg[disp.claim].alert
<1>1. /\ a \in AlertIds /\ marker \in [AlertIds -> BOOLEAN]
      /\ disp.pc \in {"mark", "unmark"} /\ disp'.claim = disp.claim
      /\ UNCHANGED <<locks, msg, inbox, hooks, reports, runs>>
  BY CurrentClaim DEF TryMark, UnmarkDispatched, Goto, stream, TypeOK, KVTypeOK
<1>2. WorkIsPublished'
  BY <1>1, PublishedFrame DEF HasCopy
<1>3. LessWork
  BY <1>1 DEF LessWork, Pending, HasCopy, Releasing
<1>4. \A b \in AlertIds : Undecided(b)' => Undecided(b)
  <2>1. CASE TryMark
    <3>1. CASE ~marker[a] /\ marker' = [marker EXCEPT ![a] = TRUE]
      <4>1. Undecided(a)
        BY <3>1 DEF Undecided
      <4>2. \A b \in AlertIds : b # a => marker'[b] = marker[b]
        BY <1>1, <3>1
      <4>3. \A b \in AlertIds : b # a /\ Undecided(b)' => Undecided(b)
        BY <1>1, <4>2 DEF Undecided
      <4>4. QED BY <4>1, <4>3
    <3>2. CASE UNCHANGED marker /\ (Goto("ack") \/ Goto("nak"))
      BY <3>2, UndecidedFrame DEF NothingReopened, Goto
    <3>3. QED BY <2>1, <3>1, <3>2 DEF TryMark, MarkerTaken
  <2>2. CASE UnmarkDispatched
    <3>1. Undecided(a)
      BY <2>2 DEF UnmarkDispatched, Undecided
    <3>2. \A b \in AlertIds : b # a => marker'[b] = marker[b]
      BY <1>1, <2>2 DEF UnmarkDispatched, DeleteMarker
    <3>3. \A b \in AlertIds : b # a /\ Undecided(b)' => Undecided(b)
      BY <1>1, <3>2 DEF Undecided
    <3>4. QED BY <3>1, <3>3
  <2>3. QED BY <2>1, <2>2
<1>5. QED BY <1>2, <1>3, <1>4, LockFrame

\* A dispatch finds its alert_id undecided, hence without a run, and its own
\* lock held; it decides the alert_id.
LEMMA LockDispatchOk ==
  ASSUME Orderly, TypeOK, MarkerInv, LockInv, [Next]_vars, DispatchOk
  PROVE  LockInv'
<1> DEFINE c == disp.claim
           a == msg[c].alert
<1>1. /\ c \in Claims /\ Taken(c) /\ HasCopy(c) /\ Undecided(a)
      /\ disp'.claim = c /\ disp'.pc = "ack"
      /\ UNCHANGED <<locks, marker, msg, inbox, hooks, reports>>
  BY CurrentClaim DEF DispatchOk, HasCopy, Undecided, Goto, kv, stream
<1>2. PICK r \in RunIds : /\ runs[r].phase = "none"
                          /\ runs' = [runs EXCEPT ![r] = [phase |-> "running", claim |-> c]]
  BY DEF DispatchOk, StartRun
<1>3. \A s \in RunIds : runs'[s] = IF s = r THEN [phase |-> "running", claim |-> c]
                                    ELSE runs[s]
  BY <1>2 DEF TypeOK, RunsTypeOK
<1>4. Holds(c) /\ Published(c)
  BY <1>1, InUseHolds DEF LockInv, WorkIsPublished, InUse
<1>5. ~Undecided(a)' /\ \A b \in AlertIds : Undecided(b)' => Undecided(b)
  BY <1>1 DEF DispatchOk, Undecided, MarkerInv
<1>6. \A s \in RunIds : runs[s].phase # "none" =>
        /\ s # r /\ runs'[s] = runs[s] /\ msg[runs[s].claim].alert # a
        /\ msg[runs[s].claim].alert \in AlertIds
  BY <1>1, <1>2, <1>3
  DEF LockInv, OneRunPerAlert, TypeOK, RunsTypeOK, StreamTypeOK, Taken
<1>7. WorkIsPublished'
  BY <1>1, <1>3, <1>4, <1>6 DEF LockInv, WorkIsPublished, HasCopy, Published
<1>8. RepairStaysOn' /\ OnePublisher'
  BY <1>1, RepairStaysOnStep DEF LockInv, OnePublisher
<1>9. OneRunPerAlert'
  <2>1. \A s \in RunIds : runs'[s].phase # "none" =>
          s = r \/ (runs[s].phase # "none" /\ s # r /\ runs'[s] = runs[s])
    BY <1>3, <1>6
  <2>2. runs'[r].claim = c
    BY <1>3
  <2>3. \A s \in RunIds : runs'[s].phase # "none" =>
          ~Undecided(msg[runs[s].claim].alert)'
    BY <1>1, <1>5, <1>6, <2>1, <2>2 DEF LockInv, OneRunPerAlert
  <2>4. \A s, t \in RunIds :
          /\ runs'[s].phase # "none" /\ runs'[t].phase # "none"
          /\ msg'[runs'[t].claim].alert = msg'[runs'[s].claim].alert
          => s = t
    BY <1>1, <1>6, <2>1, <2>2 DEF LockInv, OneRunPerAlert
  <2>5. QED BY <2>3, <2>4 DEF OneRunPerAlert
<1>10. OneReportPerRun'
  BY <1>1, <1>6 DEF LockInv, OneReportPerRun, Releasing
<1>11. WorkHoldsLock'
  <2>1. \A d \in Claims : Holds(d)' <=> Holds(d)
    BY <1>1 DEF Holds, Key
  <2>2. \A d \in Claims : (Pending(d) \/ HasCopy(d))' =>
          (Pending(d) \/ HasCopy(d)) /\ msg[d].alert \in AlertIds
    BY <1>1 DEF Pending, HasCopy, LockInv, WorkIsPublished, Published,
       TypeOK, StreamTypeOK, Taken
  <2>3. \A d \in Claims : d # c /\ InUse(d)' => InUse(d)
    BY <1>1, <1>3, <1>5, <2>2 DEF InUse, Releasing
  <2>4. QED
    BY <1>4, <2>1, <2>3, InUseHolds DEF WorkHoldsLock
<1>12. QED
  BY <1>7, <1>8, <1>9, <1>10, <1>11 DEF LockInv

\* A report is taken from a running run, once.
LEMMA LockReport ==
  ASSUME Orderly, TypeOK, LockInv, [Next]_vars,
         NEW p \in Reports, NEW r \in RunIds, Report(p, r)
  PROVE  LockInv'
<1> DEFINE c == runs[r].claim
<1>1. /\ runs[r].phase = "running" /\ c \in Claims /\ Holds(c)
      /\ msg[c].alert \in AlertIds
      /\ UNCHANGED <<locks, marker, enabled, msg, inbox, disp, hooks>>
  BY NothingDisowned, InUseHolds
  DEF Report, kv, stream, TypeOK, StreamTypeOK, Taken
<1>2. /\ \A s \in RunIds : runs'[s] = IF s = r THEN [phase |-> "reported", claim |-> c]
                                       ELSE runs[s]
      /\ \A q \in Reports : reports'[q] = IF q = p THEN [pc |-> "upsert", claim |-> c]
                                           ELSE reports[q]
  BY DEF Report, TypeOK, RunsTypeOK, ReportsTypeOK
<1>3. \A s \in RunIds : /\ runs'[s].phase # "none" <=> runs[s].phase # "none"
                        /\ runs'[s].claim = runs[s].claim
                        /\ runs'[s].phase = "running" => runs[s].phase = "running"
  BY <1>1, <1>2
<1>4. WorkIsPublished'
  BY <1>1, <1>3, PublishedFrame DEF HasCopy
<1>5. RepairStaysOn' /\ OnePublisher'
  BY <1>1, RepairStaysOnStep DEF LockInv, OnePublisher
<1>6. OneRunPerAlert'
  BY <1>1, <1>3 DEF LockInv, OneRunPerAlert, Undecided
<1>7. OneReportPerRun'
  <2>1. \A q \in Reports : Releasing(q) => reports[q].claim # c
    <3>1. ASSUME NEW q \in Reports, Releasing(q), reports[q].claim = c PROVE FALSE
      <4>1. PICK s \in RunIds : runs[s] = [phase |-> "reported", claim |-> c]
        BY <3>1 DEF LockInv, OneReportPerRun
      <4>2. s = r
        BY <1>1, <4>1 DEF LockInv, OneRunPerAlert
      <4>3. QED BY <1>1, <4>1, <4>2
    <3>2. QED BY <3>1
  <2>2. \A q \in Reports : q # p /\ Releasing(q)' =>
          Releasing(q) /\ reports'[q].claim = reports[q].claim
    BY <1>2 DEF Releasing
  <2>3. \A q \in Reports : q # p /\ Releasing(q)' =>
          \E s \in RunIds : runs'[s] = [phase |-> "reported", claim |-> reports[q].claim]
    BY <1>1, <1>2, <2>2 DEF LockInv, OneReportPerRun
  <2>4. runs'[r] = [phase |-> "reported", claim |-> reports'[p].claim]
    BY <1>2
  <2>5. \A q, t \in Reports :
          Releasing(q)' /\ Releasing(t)' /\ reports'[q].claim = reports'[t].claim => q = t
    <3>1. \A q \in Reports : q # p /\ Releasing(q)' => reports'[q].claim # reports'[p].claim
      BY <1>2, <2>1, <2>2
    <3>2. QED BY <2>2, <3>1 DEF LockInv, OneReportPerRun
  <2>6. QED BY <2>2, <2>3, <2>4, <2>5 DEF OneReportPerRun
<1>8. WorkHoldsLock'
  <2>1. \A d \in Claims : Holds(d) => Holds(d)'
    BY <1>1 DEF Holds, Key
  <2>2. \A d \in Claims : d # c /\ InUse(d)' => InUse(d)
    BY <1>1, <1>2, <1>3 DEF InUse, Releasing, Pending, HasCopy, Undecided
  <2>3. QED
    BY <1>1, <2>1, <2>2, InUseHolds DEF WorkHoldsLock
<1>9. QED
  BY <1>4, <1>5, <1>6, <1>7, <1>8 DEF LockInv

\* A lock may go when no work rests on its claim.
LEMMA LockFreed ==
  ASSUME Orderly, TypeOK, LockInv, [Next]_vars, NEW k \in Keys, locks[k] # NoClaim,
         locks' = [locks EXCEPT ![k] = NoClaim],
         UNCHANGED <<marker, msg, inbox, disp, hooks, runs>>,
         \A q \in Reports :
           Releasing(q)' => Releasing(q) /\ reports'[q] = reports[q],
         \A d \in Claims : InUse(d)' => InUse(d) /\ d # locks[k]
  PROVE  LockInv'
<1>1. \A d \in Claims : Taken(d) => Key(d) \in Keys
  BY PipelineAssumption DEF Key, TypeOK, StreamTypeOK, Taken
<1>2. \A d \in Claims : d # locks[k] /\ Taken(d) /\ Holds(d) => Holds(d)'
  BY <1>1 DEF Holds, Key, TypeOK, KVTypeOK
<1>3. WorkIsPublished'
  BY PublishedFrame DEF HasCopy
<1>4. RepairStaysOn' /\ OneRunPerAlert' /\ OneReportPerRun' /\ OnePublisher'
  <2>1. RepairStaysOn'
    BY RepairStaysOnStep
  <2>2. OneRunPerAlert' /\ OnePublisher'
    BY DEF LockInv, OneRunPerAlert, OnePublisher, Undecided
  <2>3. OneReportPerRun'
    BY DEF LockInv, OneReportPerRun
  <2>4. QED BY <2>1, <2>2, <2>3
<1>5. WorkHoldsLock'
  BY <1>2, InUseHolds DEF WorkHoldsLock
<1>6. QED
  BY <1>3, <1>4, <1>5 DEF LockInv

LEMMA LockReportRelease ==
  ASSUME Orderly, TypeOK, LockInv, [Next]_vars, NEW p \in Reports, ReportRelease(p)
  PROVE  LockInv'
<1> DEFINE c == reports[p].claim
<1>1. /\ Releasing(p) /\ c \in Claims /\ Key(c) \in Keys /\ locks[Key(c)] = c
      /\ msg[c].alert \in AlertIds
      /\ UNCHANGED <<marker, msg, inbox, disp, hooks, runs>>
  BY ReportedClaim, InUseHolds DEF ReportRelease, Releasing, stream, Holds
<1>2. /\ ~Releasing(p)'
      /\ \A q \in Reports : q # p => reports'[q] = reports[q]
  BY DEF ReportRelease, ReportGoto, ReportIdle, After, Releasing, TypeOK, ReportsTypeOK
<1>3. CASE UNCHANGED locks
  <2>1. LessWork /\ NothingReopened
    BY <1>1, <1>2, <1>3 DEF LessWork, NothingReopened, Releasing, Pending, HasCopy
  <2>2. WorkIsPublished'
    BY <1>1, PublishedFrame DEF HasCopy
  <2>3. QED BY <2>1, <2>2, LockFrame, UndecidedFrame
<1>4. CASE locks' = [locks EXCEPT ![Key(c)] = NoClaim]
  <2>1. PICK r \in RunIds : runs[r] = [phase |-> "reported", claim |-> c]
    BY <1>1 DEF LockInv, OneReportPerRun
  <2>2. Published(c) /\ ~Undecided(msg[c].alert)
    BY <2>1 DEF LockInv, WorkIsPublished, OneRunPerAlert
  <2>3. \A h \in Hooks : hooks[h].pc = "publish" => hooks[h].claim # c
    BY <2>2 DEF Published, LockInv, OnePublisher
  <2>4. \A s \in RunIds : runs[s].phase = "running" => runs[s].claim # c
    BY <2>1 DEF LockInv, OneRunPerAlert
  <2>5. \A q \in Reports : q # p /\ Releasing(q) => reports[q].claim # c
    BY <1>1 DEF LockInv, OneReportPerRun
  <2>6. \A q \in Reports : Releasing(q)' => q # p /\ Releasing(q)
    BY <1>2 DEF Releasing
  <2>7. c # NoClaim
    BY <1>1, PipelineAssumption
  <2>8. \A d \in Claims : InUse(d)' => InUse(d) /\ d # c
    <3>1. \A d \in Claims : InUse(d)' => InUse(d)
      BY <1>1, <1>2, <2>6 DEF InUse, Pending, HasCopy, Undecided
    <3>2. \A d \in Claims : Undecided(msg[d].alert)' => Undecided(msg[d].alert)
      BY <1>1 DEF Undecided
    <3>3. \A d \in Claims : InUse(d)' => d # c
      BY <1>1, <1>2, <2>2, <2>3, <2>4, <2>5, <2>6, <3>2 DEF InUse
    <3>4. QED BY <3>1, <3>3
  <2>9. \A q \in Reports : Releasing(q)' => Releasing(q) /\ reports'[q] = reports[q]
    BY <1>2, <2>6
  <2>10. QED
    BY <1>1, <1>4, <2>7, <2>8, <2>9, LockFreed
<1>5. QED
  BY <1>3, <1>4 DEF ReportRelease, ReleaseLock, LeaveLock

LEMMA LockLockExpires ==
  ASSUME Orderly, TypeOK, LockInv, [Next]_vars, NEW k \in Keys, LockExpires(k)
  PROVE  LockInv'
<1>1. /\ locks[k] # NoClaim /\ Abandoned(locks[k])
      /\ locks' = [locks EXCEPT ![k] = NoClaim]
      /\ UNCHANGED <<marker, msg, inbox, disp, hooks, reports, runs>>
  BY NothingDisowned DEF LockExpires, stream
<1>2. ~InUse(locks[k])
  BY <1>1 DEF Abandoned, InUse, Releasing, TypeOK, ReportsTypeOK
<1>3. \A d \in Claims : InUse(d)' => InUse(d)
  BY <1>1 DEF InUse, Releasing, Pending, HasCopy, Undecided
<1>4. \A q \in Reports : Releasing(q)' => Releasing(q) /\ reports'[q] = reports[q]
  BY <1>1 DEF Releasing
<1>5. QED
  BY <1>1, <1>2, <1>3, <1>4, LockFreed

LEMMA LockStep ==
  ASSUME Orderly, TypeOK, MarkerInv, LockInv, [Next]_vars
  PROVE  LockInv'
<1>1. CASE UNCHANGED vars
  BY <1>1, LockQuiet
<1>2. ASSUME NEW h \in Hooks, Receive(h) \/ HookStep(h) PROVE LockInv'
  BY <1>2, LockQuiet, LockTryLock, LockPublish DEF HookStep
<1>3. ASSUME NEW c \in Claims, Deliver(c) \/ AckWaitOver(c) PROVE LockInv'
  BY <1>3, LockQuiet, LockDeliver
<1>4. CASE Take \/ Crash
  BY <1>4, LockQuiet
<1>5. CASE DispStep
  <2>1. ~(SkipRelease \/ SkipSelect \/ SkipUpdate \/ SkipDigest)
    BY DEF LockInv, RepairStaysOn, SkipRelease, SkipSelect, SkipUpdate, SkipDigest
  <2>2. QED
    BY <1>5, <2>1, LockQuiet, LockMark, LockDispatchOk DEF DispStep
<1>6. ASSUME NEW p \in Reports, ReportStep(p) PROVE LockInv'
  BY <1>6, LockQuiet, LockReportRelease DEF ReportStep
<1>7. ASSUME NEW p \in Reports, NEW r \in RunIds, Report(p, r) PROVE LockInv'
  BY <1>7, LockReport
<1>8. ASSUME NEW r \in RunIds, RunnerDies(r) PROVE LockInv'
  BY <1>8, LockQuiet
<1>9. ASSUME NEW k \in Keys, LockExpires(k) PROVE LockInv'
  BY <1>9, LockLockExpires
<1>10. ~SetRepairEnabled /\ \A a \in AlertIds : ~MarkerExpires(a)
  BY NothingDisowned DEF SetRepairEnabled, MarkerExpires
<1>11. QED
  BY <1>1, <1>2, <1>3, <1>4, <1>5, <1>6, <1>7, <1>8, <1>9, <1>10 DEF Next

LEMMA LockInvImplies ==
  ASSUME TypeOK, LockInv
  PROVE  RepairMutex /\ DispatchHoldsLock
<1>1. RepairMutex
  BY InUseHolds DEF LockInv, OneRunPerAlert, Holds, RepairMutex
<1>2. DispatchHoldsLock
  BY CurrentClaim, InUseHolds
  DEF InUse, Holds, HasCopy, Undecided, DispatchHoldsLock
<1>3. QED BY <1>1, <1>2

LEMMA LockInvariant ==
  ASSUME Orderly
  PROVE  Spec => [](TypeOK /\ LockInv)
<1>1. Init => TypeOK /\ MarkerInv /\ LockInv
  BY TypeInit, MarkerInit, LockInit
<1>2. TypeOK /\ MarkerInv /\ LockInv /\ [Next]_vars => (TypeOK /\ MarkerInv /\ LockInv)'
  BY TypeStep, MarkerStep, LockStep
<1>3. QED
  BY <1>1, <1>2, PTL DEF Spec

\* Two repairs of one (service, error) are never under way at once: with
\* repair left on, one report per run, clear answers from GitHub and TTLs that
\* outlast the work, the flap lock keeps what lock.go:23-26 promises through
\* crashes, redelivery, lost acks, rejected dispatches, dead runners and
\* failing KV, SQL and publish calls.
THEOREM MutualExclusion ==
  ASSUME Orderly
  PROVE  Spec => []RepairMutex
<1>1. TypeOK /\ LockInv => RepairMutex
  BY LockInvImplies
<1>2. QED
  BY <1>1, LockInvariant, PTL

\* Under the same conditions every dispatch is made by the lock's holder.
THEOREM DispatcherIsHolder ==
  ASSUME Orderly
  PROVE  Spec => []DispatchHoldsLock
<1>1. TypeOK /\ LockInv => DispatchHoldsLock
  BY LockInvImplies
<1>2. QED
  BY <1>1, LockInvariant, PTL

(***************************************************************************)
(* The pipeline implements the abstract lock of FlapLock.                  *)
(***************************************************************************)
LEMMA FlapLockInit == Init => FL!Init
BY DEF Init, FL!Init, Taken, StartedClaims, RepairingClaims

\* A step that takes no lock, gives none back, and neither starts nor ends a
\* run: a stutter of the abstract lock.
LEMMA FlapLockStutter ==
  ASSUME UNCHANGED <<locks, runs>>, \A c \in Claims : Taken(c)' <=> Taken(c)
  PROVE  UNCHANGED FL!vars
BY DEF FL!vars, StartedClaims, RepairingClaims

\* A lock is given back by a report or by its TTL, and the claim it was taken
\* with has no run at work by then.
LEMMA FlapLockRelease ==
  ASSUME TypeOK, NEW k \in Keys, UNCHANGED <<runs, msg>>,
         locks' = [locks EXCEPT ![k] = NoClaim],
         locks[k] # NoClaim => locks[k] \notin RepairingClaims
  PROVE  [FL!Next]_(FL!vars)
<1>1. locks \in [Keys -> Claims \union {NoClaim}]
  BY DEF TypeOK, KVTypeOK
<1>2. UNCHANGED <<StartedClaims, RepairingClaims, {c \in Claims : Taken(c)}>>
  BY DEF StartedClaims, RepairingClaims, Taken
<1>3. CASE locks[k] = NoClaim
  <2>1. UNCHANGED locks
    BY <1>1, <1>3
  <2>2. QED BY <1>2, <2>1 DEF FL!vars
<1>4. CASE locks[k] # NoClaim
  <2>1. FL!Release(k)
    BY <1>1, <1>2, <1>4 DEF FL!Release
  <2>2. QED BY <2>1 DEF FL!Next
<1>5. QED BY <1>3, <1>4

\* A dispatch starts a run under the lock its claim holds, the first one.
LEMMA FlapLockStart ==
  ASSUME TypeOK, DispatchOk, Holds(disp.claim), disp.claim \notin StartedClaims
  PROVE  [FL!Next]_(FL!vars)
<1> DEFINE c == disp.claim
           k == Key(c)
<1>1. c \in Claims /\ k \in Keys /\ UNCHANGED <<locks, msg>>
  BY CurrentClaim DEF DispatchOk, kv, stream
<1>2. locks[k] = c
  BY DEF Holds
<1>3. PICK r \in RunIds : /\ runs[r].phase = "none"
                          /\ runs' = [runs EXCEPT ![r] = [phase |-> "running", claim |-> c]]
  BY DEF DispatchOk, StartRun
<1>4. \A s \in RunIds : runs'[s] = IF s = r THEN [phase |-> "running", claim |-> c]
                                    ELSE runs[s]
  BY <1>3 DEF TypeOK, RunsTypeOK
<1>5. StartedClaims' = StartedClaims \union {c}
  <2>1. ASSUME NEW x PROVE x \in StartedClaims' <=> x \in StartedClaims \union {c}
    BY <1>3, <1>4 DEF StartedClaims
  <2>2. QED BY <2>1
<1>6. RepairingClaims' = RepairingClaims \union {c}
  <2>1. ASSUME NEW x PROVE x \in RepairingClaims' <=> x \in RepairingClaims \union {c}
    BY <1>3, <1>4 DEF RepairingClaims
  <2>2. QED BY <2>1
<1>7. {d \in Claims : Taken(d)}' = {d \in Claims : Taken(d)}
  BY <1>1 DEF Taken
<1>8. FL!Start(k)
  BY <1>1, <1>2, <1>5, <1>6, <1>7 DEF FL!Start
<1>9. QED BY <1>1, <1>8 DEF FL!Next

\* The claim's only run at work ends with its report, or without one.
LEMMA FlapLockFinish ==
  ASSUME TypeOK, NEW r \in RunIds, NEW q \in {"reported", "dead"},
         runs[r].phase = "running", UNCHANGED <<locks, msg>>,
         \A s \in RunIds :
           runs[s].phase = "running" /\ runs[s].claim = runs[r].claim => s = r,
         runs' = [runs EXCEPT ![r] = [phase |-> q, claim |-> runs[r].claim]]
  PROVE  [FL!Next]_(FL!vars)
<1> DEFINE c == runs[r].claim
<1>1. c \in Claims /\ c \in RepairingClaims
  BY DEF TypeOK, RunsTypeOK, Taken, RepairingClaims
<1>2. \A s \in RunIds : runs'[s] = IF s = r THEN [phase |-> q, claim |-> c] ELSE runs[s]
  BY DEF TypeOK, RunsTypeOK
<1>3. StartedClaims' = StartedClaims
  <2>1. ASSUME NEW x PROVE x \in StartedClaims' <=> x \in StartedClaims
    BY <1>2 DEF StartedClaims
  <2>2. QED BY <2>1
<1>4. RepairingClaims' = RepairingClaims \ {c}
  <2>1. ASSUME NEW x PROVE x \in RepairingClaims' <=> x \in RepairingClaims \ {c}
    BY <1>2 DEF RepairingClaims
  <2>2. QED BY <2>1
<1>5. {d \in Claims : Taken(d)}' = {d \in Claims : Taken(d)}
  BY DEF Taken
<1>6. FL!Finish(c)
  BY <1>1, <1>3, <1>4, <1>5 DEF FL!Finish
<1>7. QED BY <1>1, <1>6 DEF FL!Next

LEMMA FlapLockTryLock ==
  ASSUME TypeOK, [Next]_vars, NEW h \in Hooks, TryLock(h)
  PROVE  [FL!Next]_(FL!vars)
<1> DEFINE a == Head(hooks[h].todo)
           k == KeyOf[a]
<1>1. k \in Keys /\ UNCHANGED runs
  BY BatchLeft DEF TryLock
<1>2. UNCHANGED <<StartedClaims, RepairingClaims>>
  BY <1>1 DEF StartedClaims, RepairingClaims
<1>3. CASE UNCHANGED <<locks, msg>>
  BY <1>1, <1>3, FlapLockStutter DEF Taken
<1>4. ASSUME NEW c \in Claims, LockFree(k), TakeClaim(c, a)
      PROVE  FL!Acquire(k, c)
  <2>1. /\ msg[c].state = "fresh" /\ msg'[c].state = "unsent"
        /\ \A d \in Claims : d # c => msg'[d] = msg[d]
    BY <1>4 DEF TakeClaim, TypeOK, StreamTypeOK
  <2>2. {d \in Claims : Taken(d)}' = {d \in Claims : Taken(d)} \union {c}
    <3>1. ASSUME NEW d \in Claims PROVE Taken(d)' <=> Taken(d) \/ d = c
      BY <2>1 DEF Taken
    <3>2. QED BY <3>1
  <2>3. c \notin {d \in Claims : Taken(d)}
    BY <2>1 DEF Taken
  <2>4. QED
    BY <1>2, <1>4, <2>2, <2>3 DEF FL!Acquire, LockFree, TakeClaim
<1>5. QED
  BY <1>1, <1>3, <1>4 DEF TryLock, FL!Next

\* The steps the abstract lock does not see.
LEMMA FlapLockQuiet ==
  ASSUME TypeOK,
         \/ UNCHANGED vars
         \/ \E h \in Hooks : Receive(h) \/ Halt(h) \/ Publish(h) \/ InsertRun(h)
         \/ \E c \in Claims : Deliver(c) \/ AckWaitOver(c)
         \/ Take \/ Crash \/ CheckToggle \/ TryMark \/ UnmarkDispatched
         \/ DispatchFails /\ ~May("ambiguous")
         \/ Settle \/ SettleLost \/ SkipSelect \/ SkipUpdate \/ SkipDigest
         \/ \E p \in Reports : ReportUpsert(p) \/ ReportSelect(p) \/ ReportUpdate(p)
         \/ SetRepairEnabled
         \/ \E a \in AlertIds : MarkerExpires(a)
  PROVE  [FL!Next]_(FL!vars)
<1> USE DEF kv, stream, hist
<1>1. ASSUME UNCHANGED <<locks, runs, msg>> PROVE [FL!Next]_(FL!vars)
  BY <1>1, FlapLockStutter DEF Taken
<1>2. CASE UNCHANGED vars
  BY <1>1, <1>2 DEF vars
<1>3. ASSUME NEW h \in Hooks, Receive(h) \/ Halt(h) \/ InsertRun(h)
      PROVE  [FL!Next]_(FL!vars)
  BY <1>1, <1>3 DEF Receive, Halt, InsertRun
<1>4. ASSUME NEW h \in Hooks, Publish(h)
      PROVE  [FL!Next]_(FL!vars)
  <2>1. UNCHANGED <<locks, runs>> /\ Taken(hooks[h].claim)
    BY <1>4 DEF Publish, TypeOK, HooksTypeOK
  <2>2. \A c \in Claims : Taken(c)' <=> Taken(c)
    BY <1>4, <2>1 DEF Publish, Enqueue, SetMsg, Taken, TypeOK, StreamTypeOK
  <2>3. QED BY <2>1, <2>2, FlapLockStutter
<1>5. ASSUME NEW c \in Claims, Deliver(c) \/ AckWaitOver(c)
      PROVE  [FL!Next]_(FL!vars)
  <2>1. UNCHANGED <<locks, runs>>
    BY <1>5 DEF Deliver, AckWaitOver
  <2>2. \A d \in Claims : Taken(d)' <=> Taken(d)
    BY <1>5 DEF Deliver, AckWaitOver, Requeue, SetMsg, Taken, TypeOK, StreamTypeOK
  <2>3. QED BY <2>1, <2>2, FlapLockStutter
<1>6. CASE \/ Take \/ Crash \/ CheckToggle \/ TryMark \/ UnmarkDispatched
           \/ DispatchFails /\ ~May("ambiguous")
           \/ SettleLost \/ SkipSelect \/ SkipUpdate \/ SkipDigest
  BY <1>1, <1>6
  DEF Take, Crash, CheckToggle, TryMark, UnmarkDispatched, DispatchFails,
      SettleLost, SkipSelect, SkipUpdate, SkipDigest
<1>7. CASE Settle
  <2>1. UNCHANGED <<locks, runs>> /\ Taken(disp.claim)
    BY <1>7, CurrentClaim DEF Settle
  <2>2. \A d \in Claims : Taken(d)' <=> Taken(d)
    BY <1>7, <2>1 DEF Settle, Requeue, SetMsg, Taken, TypeOK, StreamTypeOK
  <2>3. QED BY <2>1, <2>2, FlapLockStutter
<1>8. ASSUME NEW p \in Reports, ReportUpsert(p) \/ ReportSelect(p) \/ ReportUpdate(p)
      PROVE  [FL!Next]_(FL!vars)
  BY <1>1, <1>8 DEF ReportUpsert, ReportSelect, ReportUpdate
<1>9. CASE SetRepairEnabled \/ \E a \in AlertIds : MarkerExpires(a)
  BY <1>1, <1>9 DEF SetRepairEnabled, MarkerExpires
<1>10. QED
  BY <1>2, <1>3, <1>4, <1>5, <1>6, <1>7, <1>8, <1>9

\* The TTL frees a lock under which nothing is at work.
LEMMA FlapLockExpires ==
  ASSUME TypeOK, NEW k \in Keys, LockExpires(k), ~May("lockttlEarly")
  PROVE  [FL!Next]_(FL!vars)
<1>1. /\ Abandoned(locks[k]) /\ UNCHANGED <<msg, runs>>
      /\ locks' = [locks EXCEPT ![k] = NoClaim]
  BY DEF LockExpires, stream
<1>2. locks[k] \notin RepairingClaims
  BY <1>1 DEF Abandoned, RepairingClaims
<1>3. QED BY <1>1, <1>2, FlapLockRelease

LEMMA FlapLockStep ==
  ASSUME Orderly, TypeOK, LockInv, [Next]_vars
  PROVE  [FL!Next]_(FL!vars)
<1>1. CASE UNCHANGED vars
  BY <1>1, FlapLockQuiet
<1>2. ASSUME NEW h \in Hooks, Receive(h) \/ HookStep(h)
      PROVE  [FL!Next]_(FL!vars)
  BY <1>2, FlapLockQuiet, FlapLockTryLock DEF HookStep
<1>3. ASSUME NEW c \in Claims, Deliver(c) \/ AckWaitOver(c)
      PROVE  [FL!Next]_(FL!vars)
  BY <1>3, FlapLockQuiet
<1>4. CASE Take \/ Crash
  BY <1>4, FlapLockQuiet
<1>5. CASE DispStep
  <2>1. ~(SkipRelease \/ SkipSelect \/ SkipUpdate \/ SkipDigest)
    BY DEF LockInv, RepairStaysOn, SkipRelease, SkipSelect, SkipUpdate, SkipDigest
  <2>2. CASE DispatchOk
    <3>1. disp.claim \in Claims /\ HasCopy(disp.claim) /\ Undecided(msg[disp.claim].alert)
      BY <2>2, CurrentClaim DEF DispatchOk, HasCopy, Undecided
    <3>2. Holds(disp.claim)
      BY <3>1, InUseHolds DEF InUse
    <3>3. disp.claim \notin StartedClaims
      BY <3>1 DEF StartedClaims, LockInv, OneRunPerAlert
    <3>4. QED BY <2>2, <3>2, <3>3, FlapLockStart
  <2>3. QED
    BY <1>5, <2>1, <2>2, NothingDisowned, FlapLockQuiet DEF DispStep
<1>6. ASSUME NEW p \in Reports, ReportStep(p)
      PROVE  [FL!Next]_(FL!vars)
  <2>1. CASE ReportRelease(p)
    <3> DEFINE c == reports[p].claim
    <3>1. /\ c \in Claims /\ Key(c) \in Keys /\ locks[Key(c)] = c
          /\ UNCHANGED <<msg, runs>>
      BY <2>1, ReportedClaim, InUseHolds DEF ReportRelease, Releasing, Holds, stream
    <3>2. CASE UNCHANGED locks
      BY <3>1, <3>2, FlapLockStutter DEF Taken
    <3>3. CASE locks' = [locks EXCEPT ![Key(c)] = NoClaim]
      <4>1. c \notin RepairingClaims
        <5>1. PICK r \in RunIds : runs[r] = [phase |-> "reported", claim |-> c]
          BY <2>1 DEF LockInv, OneReportPerRun, Releasing, ReportRelease
        <5>2. QED BY <5>1 DEF RepairingClaims, LockInv, OneRunPerAlert
      <4>2. QED BY <3>1, <3>3, <4>1, FlapLockRelease
    <3>4. QED BY <2>1, <3>2, <3>3 DEF ReportRelease, ReleaseLock, LeaveLock
  <2>2. QED BY <1>6, <2>1, FlapLockQuiet DEF ReportStep
<1>7. ASSUME NEW r \in RunIds, \/ RunnerDies(r)
                               \/ \E p \in Reports : Report(p, r)
      PROVE  [FL!Next]_(FL!vars)
  <2>1. runs[r].phase = "running" /\ UNCHANGED <<locks, msg>>
    BY <1>7, NothingDisowned DEF Report, RunnerDies, kv, stream
  <2>2. \A s \in RunIds :
          runs[s].phase = "running" /\ runs[s].claim = runs[r].claim => s = r
    BY <2>1 DEF LockInv, OneRunPerAlert
  <2>3. QED BY <1>7, <2>1, <2>2, FlapLockFinish DEF Report, RunnerDies
<1>8. ASSUME NEW k \in Keys, LockExpires(k)
      PROVE  [FL!Next]_(FL!vars)
  BY <1>8, NothingDisowned, FlapLockExpires
<1>9. ~SetRepairEnabled /\ \A a \in AlertIds : ~MarkerExpires(a)
  BY NothingDisowned DEF SetRepairEnabled, MarkerExpires
<1>10. QED
  BY <1>1, <1>2, <1>3, <1>4, <1>5, <1>6, <1>7, <1>8, <1>9 DEF Next

\* Under the same conditions the pipeline implements FlapLock: a repair starts
\* only under its own claim's lock and once per claim, and neither a report,
\* a redelivery, a crash nor the TTL takes the lock from a repair at work.
THEOREM FlapLockImplemented ==
  ASSUME Orderly
  PROVE  Spec => ImplementsFlapLock
<1>1. Init => FL!Init
  BY FlapLockInit
<1>2. TypeOK /\ LockInv /\ [Next]_vars => [FL!Next]_(FL!vars)
  BY FlapLockStep
<1>3. QED
  BY <1>1, <1>2, LockInvariant, PTL DEF Spec, ImplementsFlapLock, FL!Spec
=============================================================================
