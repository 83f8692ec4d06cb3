--------------------------- MODULE Outcome_proofs ---------------------------
(***************************************************************************)
(* What the end of a repair leaves behind in Pipeline: the released lock,  *)
(* the digest line, the recorded outcome and the acknowledged message.     *)
(***************************************************************************)
EXTENDS Pipeline_proofs

(***************************************************************************)
(* What a step may do to the reports, the rows and the locks.              *)
(***************************************************************************)

LEMMA ReportGotoIs ==
  ASSUME TypeOK, NEW p \in Reports, NEW pc, ReportGoto(p, pc)
  PROVE  /\ pc = "idle" => reports'[p].pc = "idle"
         /\ pc # "idle" => reports'[p].pc = pc /\ reports'[p].claim = reports[p].claim
BY DEF TypeOK, ReportsTypeOK, ReportGoto, ReportIdle

\* A report stays, ends, begins, or takes one of the handler's steps.
LEMMA ReportMoves ==
  ASSUME TypeOK, [Next]_vars, NEW q \in Reports
  PROVE  \/ reports'[q] = reports[q]
         \/ reports'[q].pc \in {"idle", "upsert"}
         \/ /\ reports'[q].claim = reports[q].claim
            /\ \/ ReportUpsert(q) /\ reports'[q].pc = "release"
               \/ ReportRelease(q) /\ reports'[q].pc = "select"
               \/ ReportSelect(q) /\ reports'[q].pc = "update"
<1> USE DEF stream
<1>1. CASE UNCHANGED reports
  BY <1>1
<1>2. CASE Crash
  BY <1>2 DEF Crash, ReportIdle
<1>3. ASSUME NEW p \in Reports, NEW r \in RunIds, Report(p, r)
      PROVE  reports'[q] = reports[q] \/ reports'[q].pc = "upsert"
  BY <1>3 DEF Report, TypeOK, ReportsTypeOK
<1>4. ASSUME NEW p \in Reports, ReportStep(p), p # q
      PROVE  reports'[q] = reports[q]
  BY <1>4 DEF ReportStep, ReportUpsert, ReportRelease, ReportSelect, ReportUpdate,
     ReportGoto, TypeOK, ReportsTypeOK
<1>5. ASSUME ReportStep(q)
      PROVE  \/ reports'[q].pc = "idle"
             \/ /\ reports'[q].claim = reports[q].claim
                /\ \/ ReportUpsert(q) /\ reports'[q].pc = "release"
                   \/ ReportRelease(q) /\ reports'[q].pc = "select"
                   \/ ReportSelect(q) /\ reports'[q].pc = "update"
  <2>1. CASE ReportUpsert(q)
    <3>1. ReportGoto(q, "release") \/ ReportGoto(q, "idle")
      BY <2>1 DEF ReportUpsert, After, OnUpsertError
    <3>2. QED BY <2>1, <3>1, ReportGotoIs
  <2>2. CASE ReportRelease(q)
    <3>1. ReportGoto(q, "select")
      BY <2>2 DEF ReportRelease, After
    <3>2. QED BY <2>2, <3>1, ReportGotoIs
  <2>3. CASE ReportSelect(q)
    <3>1. ReportGoto(q, "idle") \/ ReportGoto(q, "update")
      BY <2>3 DEF ReportSelect, After
    <3>2. QED BY <2>3, <3>1, ReportGotoIs
  <2>4. CASE ReportUpdate(q)
    <3>1. ReportGoto(q, "idle")
      BY <2>4 DEF ReportUpdate, After
    <3>2. QED BY <3>1, ReportGotoIs
  <2>5. QED BY <1>5, <2>1, <2>2, <2>3, <2>4 DEF ReportStep
<1>6. ASSUME ~UNCHANGED reports
      PROVE  \/ Crash
             \/ \E p \in Reports : ReportStep(p) \/ \E r \in RunIds : Report(p, r)
  <2>1. ~UNCHANGED vars
    BY <1>6 DEF vars
  <2>2. \A h \in Hooks : ~Receive(h) /\ ~HookStep(h)
    BY <1>6 DEF Receive, HookStep, TryLock, Halt, Publish, InsertRun
  <2>3. \A c \in Claims : ~Deliver(c) /\ ~AckWaitOver(c)
    BY <1>6 DEF Deliver, AckWaitOver
  <2>4. ~Take /\ ~DispStep
    BY <1>6 DEF Take, DispStep, CheckToggle, TryMark, DispatchOk, DispatchFails,
       UnmarkDispatched, Settle, SettleLost, SkipRelease, SkipSelect, SkipUpdate,
       SkipDigest
  <2>5. /\ ~SetRepairEnabled /\ \A r \in RunIds : ~RunnerDies(r)
        /\ \A k \in Keys : ~LockExpires(k)
        /\ \A a \in AlertIds : ~MarkerExpires(a)
    BY <1>6 DEF SetRepairEnabled, RunnerDies, LockExpires, MarkerExpires
  <2>6. QED BY <2>1, <2>2, <2>3, <2>4, <2>5 DEF Next
<1>7. QED
  BY <1>1, <1>2, <1>3, <1>4, <1>5, <1>6

\* A row stays, is opened, or gets the outcome a report or a skip writes.
LEMMA RowMoves ==
  ASSUME TypeOK, [Next]_vars, NEW a \in AlertIds
  PROVE  \/ row'[a] = row[a]
         \/ row'[a].state = "open" /\ row'[a].by = NoClaim
         \/ \E p \in Reports :
              /\ ReportUpdate(p) /\ a = msg[reports[p].claim].alert
              /\ row'[a].state = "reported" /\ row'[a].by = reports[p].claim
         \/ /\ SkipUpdate /\ a = msg[disp.claim].alert
            /\ row'[a].state = "skipped" /\ row'[a].by = disp.claim
<1> USE DEF TypeOK, RowTypeOK
<1>1. CASE UNCHANGED row
  BY <1>1
<1>2. ASSUME NEW h \in Hooks, InsertRun(h)
      PROVE  \/ row'[a] = row[a]
             \/ row'[a].state = "open" /\ row'[a].by = NoClaim
  BY <1>2 DEF InsertRun
<1>3. ASSUME NEW p \in Reports, ReportUpdate(p)
      PROVE  \/ row'[a] = row[a]
             \/ /\ a = msg[reports[p].claim].alert
                /\ row'[a].state = "reported" /\ row'[a].by = reports[p].claim
  BY <1>3 DEF ReportUpdate, UpdateRow
<1>4. ASSUME SkipUpdate
      PROVE  \/ row'[a] = row[a]
             \/ /\ a = msg[disp.claim].alert
                /\ row'[a].state = "skipped" /\ row'[a].by = disp.claim
  BY <1>4 DEF SkipUpdate, UpdateRow
<1>5. ASSUME ~UNCHANGED row
      PROVE  \/ \E h \in Hooks : InsertRun(h)
             \/ \E p \in Reports : ReportUpdate(p)
             \/ SkipUpdate
  <2>1. ~UNCHANGED vars
    BY <1>5 DEF vars
  <2>2. \A h \in Hooks : ~Receive(h) /\ ~TryLock(h) /\ ~Halt(h) /\ ~Publish(h)
    BY <1>5 DEF Receive, TryLock, Halt, Publish
  <2>3. \A c \in Claims : ~Deliver(c) /\ ~AckWaitOver(c)
    BY <1>5 DEF Deliver, AckWaitOver
  <2>4. ~Take /\ (DispStep => SkipUpdate)
    BY <1>5 DEF Take, DispStep, CheckToggle, TryMark, DispatchOk, DispatchFails,
       UnmarkDispatched, Settle, SettleLost, SkipRelease, SkipSelect, SkipDigest
  <2>5. \A p \in Reports : /\ ReportStep(p) => ReportUpdate(p)
                           /\ \A r \in RunIds : ~Report(p, r)
    BY <1>5 DEF ReportStep, ReportUpsert, ReportRelease, ReportSelect, Report
  <2>6. /\ ~SetRepairEnabled /\ ~Crash /\ \A r \in RunIds : ~RunnerDies(r)
        /\ \A k \in Keys : ~LockExpires(k)
        /\ \A b \in AlertIds : ~MarkerExpires(b)
    BY <1>5 DEF SetRepairEnabled, Crash, RunnerDies, LockExpires, MarkerExpires
  <2>7. QED BY <2>1, <2>2, <2>3, <2>4, <2>5, <2>6 DEF Next, HookStep
<1>6. QED
  BY <1>1, <1>2, <1>3, <1>4, <1>5

\* A lock stays, is given back, or goes to a claim nobody had before.
LEMMA LockMoves ==
  ASSUME TypeOK, [Next]_vars, NEW k \in Keys
  PROVE  \/ locks'[k] \in {locks[k], NoClaim}
         \/ locks'[k] \in Claims /\ ~Taken(locks'[k])
<1> USE DEF TypeOK, KVTypeOK, kv
<1>1. CASE UNCHANGED vars
  BY <1>1 DEF vars
<1>2. ASSUME NEW h \in Hooks, Receive(h) \/ HookStep(h)
      PROVE  \/ locks'[k] \in {locks[k], NoClaim}
             \/ locks'[k] \in Claims /\ ~Taken(locks'[k])
  <2>1. CASE TryLock(h)
    BY <2>1 DEF TryLock, TakeClaim, Taken
  <2>2. CASE ~TryLock(h)
    BY <1>2, <2>2 DEF Receive, HookStep, Halt, Publish, InsertRun
  <2>3. QED BY <2>1, <2>2
<1>3. ASSUME NEW c \in Claims, Deliver(c) \/ AckWaitOver(c)
      PROVE  UNCHANGED locks
  BY <1>3 DEF Deliver, AckWaitOver
<1>4. CASE Take \/ SetRepairEnabled \/ Crash
  BY <1>4 DEF Take, SetRepairEnabled, Crash
<1>5. CASE DispStep
  <2>1. CASE SkipRelease
    BY <2>1 DEF SkipRelease, ReleaseLock, LeaveLock
  <2>2. CASE ~SkipRelease
    BY <1>5, <2>2 DEF DispStep, CheckToggle, TryMark, DispatchOk, DispatchFails,
       UnmarkDispatched, Settle, SettleLost, SkipSelect, SkipUpdate, SkipDigest
  <2>3. QED BY <2>1, <2>2
<1>6. ASSUME NEW p \in Reports, ReportStep(p) \/ \E r \in RunIds : Report(p, r)
      PROVE  locks'[k] \in {locks[k], NoClaim}
  <2>1. CASE ReportRelease(p)
    BY <2>1 DEF ReportRelease, ReleaseLock, LeaveLock
  <2>2. CASE ~ReportRelease(p)
    BY <1>6, <2>2 DEF ReportStep, ReportUpsert, ReportSelect, ReportUpdate, Report
  <2>3. QED BY <2>1, <2>2
<1>7. ASSUME NEW j \in Keys, LockExpires(j)
      PROVE  locks'[k] \in {locks[k], NoClaim}
  BY <1>7 DEF LockExpires
<1>8. ASSUME \/ \E r \in RunIds : RunnerDies(r)
             \/ \E a \in AlertIds : MarkerExpires(a)
      PROVE  UNCHANGED locks
  BY <1>8 DEF RunnerDies, MarkerExpires
<1>9. QED
  BY <1>1, <1>2, <1>3, <1>4, <1>5, <1>6, <1>7, <1>8 DEF Next

\* The history of ended claims only grows.
LEMMA HistoryGrows ==
  ASSUME [Next]_vars
  PROVE  skipped \subseteq skipped' /\ kept \subseteq kept'
<1> USE DEF hist, ReleaseLock, LeaveLock
<1>1. CASE UNCHANGED vars
  BY <1>1 DEF vars
<1>2. ASSUME NEW h \in Hooks, Receive(h) \/ HookStep(h)
      PROVE  skipped \subseteq skipped' /\ kept \subseteq kept'
  BY <1>2 DEF Receive, HookStep, TryLock, Halt, Publish, InsertRun
<1>3. CASE Take \/ DispStep
  BY <1>3 DEF Take, DispStep, CheckToggle, TryMark, DispatchOk, DispatchFails,
     UnmarkDispatched, Settle, SettleLost, SkipRelease, SkipSelect, SkipUpdate,
     SkipDigest
<1>4. ASSUME NEW p \in Reports, ReportStep(p) \/ \E r \in RunIds : Report(p, r)
      PROVE  skipped \subseteq skipped' /\ kept \subseteq kept'
  BY <1>4 DEF ReportStep, ReportUpsert, ReportRelease, ReportSelect, ReportUpdate, Report
<1>5. ASSUME \/ \E c \in Claims : Deliver(c) \/ AckWaitOver(c)
             \/ \E r \in RunIds : RunnerDies(r)
             \/ \E k \in Keys : LockExpires(k)
             \/ \E a \in AlertIds : MarkerExpires(a)
             \/ SetRepairEnabled \/ Crash
      PROVE  UNCHANGED <<skipped, kept>>
  BY <1>5 DEF Deliver, AckWaitOver, RunnerDies, LockExpires, MarkerExpires,
     SetRepairEnabled, Crash
<1>6. QED
  BY <1>1, <1>2, <1>3, <1>4, <1>5 DEF Next

(***************************************************************************)
(* The digest line comes before the outcome.                               *)
(***************************************************************************)

\* OutcomeIsDigested is not inductive: the line is written three steps before
\* the row, and what carries it there is the report between them.
DigestInv ==
  /\ \A p \in Reports : reports[p].pc \in {"release", "select", "update"} =>
       msg[reports[p].claim].alert \in digest
  /\ OutcomeIsDigested

LEMMA DigestInit == Init => DigestInv
BY DEF Init, DigestInv, OutcomeIsDigested, ReportIdle

\* Nothing here takes a line out of the digest (the cron does, after posting
\* it: DigestBuffer).
LEMMA DigestGrows ==
  ASSUME [Next]_vars
  PROVE  digest \subseteq digest'
<1> USE DEF kv, UpsertDigest
<1>1. CASE UNCHANGED vars
  BY <1>1 DEF vars
<1>2. ASSUME NEW h \in Hooks, Receive(h) \/ HookStep(h)
      PROVE  digest \subseteq digest'
  BY <1>2 DEF Receive, HookStep, TryLock, Halt, Publish, InsertRun
<1>3. CASE Take \/ DispStep
  BY <1>3 DEF Take, DispStep, CheckToggle, TryMark, DispatchOk, DispatchFails,
     UnmarkDispatched, Settle, SettleLost, SkipRelease, SkipSelect, SkipUpdate,
     SkipDigest
<1>4. ASSUME NEW p \in Reports, ReportStep(p) \/ \E r \in RunIds : Report(p, r)
      PROVE  digest \subseteq digest'
  BY <1>4 DEF ReportStep, ReportUpsert, ReportRelease, ReportSelect, ReportUpdate, Report
<1>5. ASSUME \/ \E c \in Claims : Deliver(c) \/ AckWaitOver(c)
             \/ \E r \in RunIds : RunnerDies(r)
             \/ \E k \in Keys : LockExpires(k)
             \/ \E a \in AlertIds : MarkerExpires(a)
             \/ SetRepairEnabled \/ Crash
      PROVE  UNCHANGED digest
  BY <1>5 DEF Deliver, AckWaitOver, RunnerDies, LockExpires, MarkerExpires,
     SetRepairEnabled, Crash
<1>6. QED
  BY <1>1, <1>2, <1>3, <1>4, <1>5 DEF Next

LEMMA DigestStep ==
  ASSUME TypeOK, DigestInv, [Next]_vars
  PROVE  DigestInv'
<1>1. digest \subseteq digest'
  BY DigestGrows
<1>2. ASSUME NEW p \in Reports, reports'[p].pc \in {"release", "select", "update"}
      PROVE  msg'[reports'[p].claim].alert \in digest'
  <2>1. /\ reports'[p].claim = reports[p].claim /\ reports[p].pc # "idle"
        /\ \/ reports[p].pc \in {"release", "select", "update"}
           \/ ReportUpsert(p) /\ reports'[p].pc = "release"
    BY <1>2, ReportMoves DEF ReportUpsert, ReportRelease, ReportSelect
  <2>2. msg'[reports[p].claim].alert = msg[reports[p].claim].alert
    BY <2>1, AlertsKept DEF TypeOK, ReportsTypeOK, Taken
  <2>3. CASE ReportUpsert(p) /\ reports'[p].pc = "release"
    <3>1. PICK ok \in BOOLEAN :
            /\ UpsertDigest(msg[reports[p].claim].alert, ok)
            /\ ReportGoto(p, IF ok THEN After.upsert ELSE OnUpsertError)
      BY <2>3 DEF ReportUpsert
    <3>2. CASE ~ok
      <4>1. ReportGoto(p, "idle")
        BY <3>1, <3>2 DEF OnUpsertError
      <4>2. QED BY <4>1, <2>3, ReportGotoIs
    <3>3. CASE ok
      BY <2>1, <2>2, <3>1, <3>3 DEF UpsertDigest
    <3>4. QED BY <3>2, <3>3
  <2>4. QED
    BY <1>1, <2>1, <2>2, <2>3 DEF DigestInv
<1>3. ASSUME NEW a \in AlertIds, row'[a].state = "reported"
      PROVE  a \in digest'
  <2>1. \/ row'[a] = row[a]
        \/ \E p \in Reports : ReportUpdate(p) /\ a = msg[reports[p].claim].alert
    BY <1>3, RowMoves
  <2>2. QED
    BY <1>1, <1>3, <2>1 DEF DigestInv, OutcomeIsDigested, ReportUpdate
<1>4. QED
  BY <1>2, <1>3 DEF DigestInv, OutcomeIsDigested

\* For all constants and every environment event: a row says "reported" only
\* when the run's line is in the digest buffer (digest/handler.go:91-138).
THEOREM OutcomeDigested == Spec => []OutcomeIsDigested
<1>1. Init => TypeOK /\ DigestInv
  BY TypeInit, DigestInit
<1>2. TypeOK /\ DigestInv /\ [Next]_vars => (TypeOK /\ DigestInv)'
  BY TypeStep, DigestStep
<1>3. DigestInv => OutcomeIsDigested
  BY DEF DigestInv
<1>4. QED
  BY <1>1, <1>2, <1>3, PTL DEF Spec

(***************************************************************************)
(* The lock is given back before the outcome is recorded, except by a      *)
(* claim that was kept: its delete failed, which is only logged, or was    *)
(* skipped (digest/handler.go:101-111).                                    *)
(***************************************************************************)

\* Claims are not taken twice, so a claim that has lost its lock stays without.
Released(c) == locks[Key(c)] # c \/ c \in kept

\* The same after the step, of a claim named by the state before it.
ReleasedNext(c) == locks'[KeyOf[msg'[c].alert]] # c \/ c \in kept'

ReleaseInv ==
  /\ \A p \in Reports :
       reports[p].pc \in {"select", "update"} => Released(reports[p].claim)
  /\ disp.pc \in {"skipSelect", "skipUpdate"} => Released(disp.claim)
  /\ \A a \in AlertIds : row[a].by # NoClaim =>
       Taken(row[a].by) /\ msg[row[a].by].alert = a /\ Released(row[a].by)

LEMMA ReleaseInit == Init => ReleaseInv
BY DEF Init, ReleaseInv, ReportIdle, DispIdle

LEMMA ReleasedKept ==
  ASSUME TypeOK, [Next]_vars, NEW c \in Claims, Taken(c), Released(c)
  PROVE  /\ Taken(c)' /\ ReleasedNext(c)
         /\ msg'[c].alert = msg[c].alert
<1>1. Taken(c)' /\ msg'[c].alert = msg[c].alert /\ Key(c) \in Keys
  BY AlertsKept, PipelineAssumption DEF TypeOK, StreamTypeOK, Key
<1>2. locks'[Key(c)] # c \/ c \in kept'
  BY <1>1, LockMoves, HistoryGrows, PipelineAssumption DEF Released
<1>3. QED
  BY <1>1, <1>2 DEF ReleasedNext, Key

\* The step that gives the lock back, or puts on record that it does not.
LEMMA EndReleases ==
  ASSUME TypeOK, [Next]_vars, NEW c \in Claims, Taken(c),
         ReleaseLock(c) \/ LeaveLock(c)
  PROVE  ReleasedNext(c)
<1>1. msg'[c].alert = msg[c].alert /\ Key(c) \in Keys
  BY AlertsKept, PipelineAssumption DEF TypeOK, StreamTypeOK, Key
<1>2. locks'[Key(c)] = NoClaim \/ c \in kept'
  BY <1>1 DEF ReleaseLock, LeaveLock, TypeOK, KVTypeOK
<1>3. QED
  BY <1>1, <1>2, PipelineAssumption DEF ReleasedNext, Key

\* Only the callback, its start and a crash move the callback.
LEMMA DispChanges ==
  ASSUME [Next]_vars, ~UNCHANGED disp
  PROVE  DispStep \/ Take \/ Crash
<1>1. ~UNCHANGED vars
  BY DEF vars
<1>2. \A h \in Hooks : ~Receive(h) /\ ~HookStep(h)
  BY DEF Receive, HookStep, TryLock, Halt, Publish, InsertRun
<1>3. \A c \in Claims : ~Deliver(c) /\ ~AckWaitOver(c)
  BY DEF Deliver, AckWaitOver
<1>4. \A p \in Reports : ~ReportStep(p) /\ \A r \in RunIds : ~Report(p, r)
  BY DEF ReportStep, ReportUpsert, ReportRelease, ReportSelect, ReportUpdate, Report
<1>5. /\ ~SetRepairEnabled /\ \A r \in RunIds : ~RunnerDies(r)
      /\ \A k \in Keys : ~LockExpires(k)
      /\ \A a \in AlertIds : ~MarkerExpires(a)
  BY DEF SetRepairEnabled, RunnerDies, LockExpires, MarkerExpires
<1>6. QED BY <1>1, <1>2, <1>3, <1>4, <1>5 DEF Next

LEMMA DispSkips ==
  ASSUME [Next]_vars, disp'.pc \in {"skipSelect", "skipUpdate"}
  PROVE  /\ disp'.claim = disp.claim
         /\ disp.pc \in {"skipSelect", "skipUpdate"} \/ SkipRelease
<1>1. CASE UNCHANGED disp
  BY <1>1
<1>2. CASE DispStep
  BY <1>2 DEF DispStep, CheckToggle, TryMark, DispatchOk, DispatchFails,
     UnmarkDispatched, AfterFailure, Settle, SettleLost, SkipRelease, SkipSelect,
     SkipUpdate, SkipDigest, AfterSkip, Goto, DispIdle
<1>3. CASE Take \/ Crash
  BY <1>3 DEF Take, Crash, DispIdle
<1>4. QED
  BY <1>1, <1>2, <1>3, DispChanges

LEMMA ReleaseStep ==
  ASSUME TypeOK, ReleaseInv, [Next]_vars
  PROVE  ReleaseInv'
<1>1. ASSUME NEW p \in Reports, reports'[p].pc \in {"select", "update"}
      PROVE  ReleasedNext(reports'[p].claim)
  <2>1. /\ reports'[p].claim = reports[p].claim /\ reports[p].pc # "idle"
        /\ reports[p].pc \in {"select", "update"} \/ ReportRelease(p)
    BY <1>1, ReportMoves DEF ReportUpsert, ReportRelease, ReportSelect
  <2>2. reports[p].claim \in Claims /\ Taken(reports[p].claim)
    BY <2>1 DEF TypeOK, ReportsTypeOK, Taken
  <2>3. CASE ReportRelease(p)
    BY <2>1, <2>2, <2>3, EndReleases DEF ReportRelease
  <2>4. CASE reports[p].pc \in {"select", "update"}
    BY <2>1, <2>2, <2>4, ReleasedKept DEF ReleaseInv
  <2>5. QED BY <2>1, <2>3, <2>4
<1>2. ASSUME disp'.pc \in {"skipSelect", "skipUpdate"}
      PROVE  ReleasedNext(disp'.claim)
  <2>1. /\ disp'.claim = disp.claim
        /\ disp.pc \in {"skipSelect", "skipUpdate"} \/ SkipRelease
    BY <1>2, DispSkips
  <2>2. disp.claim \in Claims /\ Taken(disp.claim)
    BY <2>1, CurrentClaim DEF SkipRelease
  <2>3. CASE SkipRelease
    BY <2>1, <2>2, <2>3, EndReleases DEF SkipRelease
  <2>4. CASE disp.pc \in {"skipSelect", "skipUpdate"}
    BY <2>1, <2>2, <2>4, ReleasedKept DEF ReleaseInv
  <2>5. QED BY <2>1, <2>3, <2>4
<1>3. ASSUME NEW a \in AlertIds, row'[a].by # NoClaim
      PROVE  /\ row'[a].by \in Claims /\ msg'[row'[a].by].state # "fresh"
             /\ msg'[row'[a].by].alert = a /\ ReleasedNext(row'[a].by)
  <2> DEFINE c == row'[a].by
  <2>1. \/ row'[a] = row[a]
        \/ \E p \in Reports :
             ReportUpdate(p) /\ a = msg[reports[p].claim].alert /\ c = reports[p].claim
        \/ SkipUpdate /\ a = msg[disp.claim].alert /\ c = disp.claim
    BY <1>3, RowMoves
  <2>2. c \in Claims /\ Taken(c) /\ msg[c].alert = a /\ Released(c)
    <3>1. CASE row'[a] = row[a]
      BY <1>3, <3>1 DEF ReleaseInv, Taken
    <3>2. ASSUME NEW p \in Reports, ReportUpdate(p),
                 a = msg[reports[p].claim].alert, c = reports[p].claim
          PROVE  c \in Claims /\ Taken(c) /\ msg[c].alert = a /\ Released(c)
      BY <3>2 DEF ReportUpdate, ReleaseInv, TypeOK, ReportsTypeOK, Taken
    <3>3. CASE SkipUpdate /\ a = msg[disp.claim].alert /\ c = disp.claim
      BY <3>3, CurrentClaim DEF SkipUpdate, ReleaseInv
    <3>4. QED BY <2>1, <3>1, <3>2, <3>3
  <2>3. QED
    BY <2>2, ReleasedKept DEF Taken
<1>4. QED
  BY <1>1, <1>2, <1>3 DEF ReleaseInv, Released, ReleasedNext, Key, Taken

\* For all constants and every environment event, failing calls and reports
\* that name no lock included: a claim whose outcome the row shows no longer
\* holds its lock, unless its end left the lock to the TTL
\* (digest/handler.go:101-121, dispatcher.go:153-161).
THEOREM ReleasedBeforeOutcome == Spec => []OutcomeAfterRelease
<1>1. Init => TypeOK /\ ReleaseInv
  BY TypeInit, ReleaseInit
<1>2. TypeOK /\ ReleaseInv /\ [Next]_vars => (TypeOK /\ ReleaseInv)'
  BY TypeStep, ReleaseStep
<1>3. ReleaseInv => OutcomeAfterRelease
  BY DEF ReleaseInv, OutcomeAfterRelease, Released, Key
<1>4. QED
  BY <1>1, <1>2, <1>3, PTL DEF Spec

(***************************************************************************)
(* A message that is gone was handled, provided the process does not stop  *)
(* between marker and dispatch and the marker's roll-back does not fail.   *)
(***************************************************************************)
RollsBack == "crash" \notin Env /\ "kv" \notin Env

StartedFor(a) ==
  \E r \in RunIds : runs[r].phase # "none" /\ msg[runs[r].claim].alert = a

\* The same after the step, of an alert_id named by the state before it.
StartedNext(a) ==
  \E r \in RunIds : runs'[r].phase # "none" /\ msg'[runs'[r].claim].alert = a

\* A marker stands for a run, or for the dispatch the callback is about to
\* make or to take back: so the callback may ack at a marker it finds.
MarkerExplained ==
  \A a \in AlertIds : marker[a] =>
    \/ StartedFor(a)
    \/ disp.pc \in {"dispatch", "unmark"} /\ msg[disp.claim].alert = a

\* No copy is ahead of its message, so the last attempt's number is there.
AttemptsCounted ==
  /\ disp.pc # "idle" => disp.n <= msg[disp.claim].n
  /\ \A d \in inbox : d.n <= msg[d.claim].n

HandledInv ==
  /\ MarkerExplained /\ AttemptsCounted
  /\ disp.pc = "ack" => StartedFor(msg[disp.claim].alert) \/ disp.claim \in skipped
  /\ disp.pc = "term" => disp.n = MaxAttempts
  /\ AckedIsHandled

LEMMA HandledInit == Init => HandledInv
BY DEF Init, HandledInv, MarkerExplained, AttemptsCounted, AckedIsHandled, DispIdle

\* A run that was started stays started, under its claim.
LEMMA RunsKept ==
  ASSUME TypeOK, [Next]_vars, NEW r \in RunIds, runs[r].phase # "none"
  PROVE  runs'[r].phase # "none" /\ runs'[r].claim = runs[r].claim
<1> USE DEF TypeOK, RunsTypeOK
<1>1. CASE UNCHANGED runs
  BY <1>1
<1>2. CASE DispatchOk \/ DispatchFails
  BY <1>2 DEF DispatchOk, DispatchFails, StartRun
<1>3. ASSUME NEW q \in RunIds, RunnerDies(q) \/ \E p \in Reports : Report(p, q)
      PROVE  runs'[r].phase # "none" /\ runs'[r].claim = runs[r].claim
  BY <1>3 DEF RunnerDies, Report
<1>4. ASSUME ~UNCHANGED runs
      PROVE  \/ DispatchOk \/ DispatchFails
             \/ \E q \in RunIds : RunnerDies(q) \/ \E p \in Reports : Report(p, q)
  <2>1. ~UNCHANGED vars
    BY <1>4 DEF vars
  <2>2. \A h \in Hooks : ~Receive(h) /\ ~HookStep(h)
    BY <1>4 DEF Receive, HookStep, TryLock, Halt, Publish, InsertRun
  <2>3. \A c \in Claims : ~Deliver(c) /\ ~AckWaitOver(c)
    BY <1>4 DEF Deliver, AckWaitOver
  <2>4. ~Take /\ (DispStep => DispatchOk \/ DispatchFails)
    BY <1>4 DEF Take, DispStep, CheckToggle, TryMark, UnmarkDispatched, Settle,
       SettleLost, SkipRelease, SkipSelect, SkipUpdate, SkipDigest
  <2>5. \A p \in Reports : ~ReportStep(p)
    BY <1>4 DEF ReportStep, ReportUpsert, ReportRelease, ReportSelect, ReportUpdate
  <2>6. /\ ~SetRepairEnabled /\ ~Crash
        /\ \A k \in Keys : ~LockExpires(k)
        /\ \A a \in AlertIds : ~MarkerExpires(a)
    BY <1>4 DEF SetRepairEnabled, Crash, LockExpires, MarkerExpires
  <2>7. QED BY <2>1, <2>2, <2>3, <2>4, <2>5, <2>6 DEF Next
<1>5. QED
  BY <1>1, <1>2, <1>3, <1>4

LEMMA StartedKept ==
  ASSUME TypeOK, [Next]_vars, NEW a, StartedFor(a)
  PROVE  StartedNext(a)
<1>1. PICK r \in RunIds : runs[r].phase # "none" /\ msg[runs[r].claim].alert = a
  BY DEF StartedFor
<1>2. runs[r].claim \in Claims /\ Taken(runs[r].claim)
  BY <1>1 DEF TypeOK, RunsTypeOK, Taken
<1>3. QED
  BY <1>1, <1>2, RunsKept, AlertsKept DEF StartedNext

\* Deliveries are counted upwards.
LEMMA AttemptsGrow ==
  ASSUME TypeOK, [Next]_vars, NEW c \in Claims, Taken(c)
  PROVE  msg[c].n <= msg'[c].n
<1> USE DEF TypeOK, StreamTypeOK
<1>1. msg[c].n \in 0..MaxAttempts /\ MaxAttempts \in Nat
  BY PipelineAssumption
<1>2. CASE UNCHANGED msg
  BY <1>1, <1>2
<1>3. ASSUME NEW d \in Claims, NEW s, SetMsg(d, s, msg[d].n)
      PROVE  msg'[c].n = msg[c].n
  BY <1>3 DEF SetMsg
<1>4. ASSUME NEW d \in Claims, Deliver(d)
      PROVE  msg[c].n <= msg'[c].n
  BY <1>1, <1>4 DEF Deliver, SetMsg
<1>5. ASSUME NEW h \in Hooks, TryLock(h)
      PROVE  msg'[c].n = msg[c].n
  BY <1>5 DEF TryLock, TakeClaim, Taken
<1>6. ASSUME ~UNCHANGED msg
      PROVE  \/ \E d \in Claims : Deliver(d)
             \/ \E h \in Hooks : TryLock(h)
             \/ \E d \in Claims : \E s : SetMsg(d, s, msg[d].n)
  <2>1. ~UNCHANGED vars
    BY <1>6 DEF vars
  <2>2. ASSUME NEW h \in Hooks, Receive(h) \/ HookStep(h)
        PROVE  TryLock(h) \/ \E d \in Claims : \E s : SetMsg(d, s, msg[d].n)
    BY <1>6, <2>2 DEF Receive, HookStep, Halt, Publish, InsertRun, Enqueue, stream,
       HooksTypeOK, Taken
  <2>3. ASSUME NEW d \in Claims, AckWaitOver(d)
        PROVE  \E s : SetMsg(d, s, msg[d].n)
    BY <2>3 DEF AckWaitOver, Requeue
  <2>4. ASSUME DispStep
        PROVE  \E d \in Claims : \E s : SetMsg(d, s, msg[d].n)
    <3>1. Settle
      BY <1>6, <2>4 DEF DispStep, CheckToggle, TryMark, DispatchOk, DispatchFails,
         UnmarkDispatched, SettleLost, SkipRelease, SkipSelect, SkipUpdate, SkipDigest,
         stream
    <3>2. disp.claim \in Claims
      BY <3>1, CurrentClaim DEF Settle
    <3>3. QED BY <3>1, <3>2 DEF Settle, Requeue
  <2>5. \A p \in Reports : ~ReportStep(p) /\ \A r \in RunIds : ~Report(p, r)
    BY <1>6 DEF ReportStep, ReportUpsert, ReportRelease, ReportSelect, ReportUpdate,
       Report, stream
  <2>6. /\ ~Take /\ ~SetRepairEnabled /\ ~Crash
        /\ \A r \in RunIds : ~RunnerDies(r)
        /\ \A k \in Keys : ~LockExpires(k)
        /\ \A a \in AlertIds : ~MarkerExpires(a)
    BY <1>6 DEF Take, SetRepairEnabled, Crash, RunnerDies, LockExpires, MarkerExpires,
       stream
  <2>7. QED BY <2>1, <2>2, <2>3, <2>4, <2>5, <2>6 DEF Next
<1>7. QED
  BY <1>1, <1>2, <1>3, <1>4, <1>5, <1>6

\* How a message gets to "done".
LEMMA DoneMoves ==
  ASSUME TypeOK, [Next]_vars, NEW c \in Claims, msg'[c].state = "done"
  PROVE  \/ Taken(c) /\ msg[c].state = "done"
         \/ Settle /\ disp.pc \in {"ack", "term"} /\ c = disp.claim
<1> DEFINE WasDone == Taken(c) /\ msg[c].state = "done"
<1>1. ASSUME UNCHANGED msg PROVE WasDone
  BY <1>1 DEF Taken, TypeOK, StreamTypeOK
<1>2. ASSUME NEW d \in Claims, NEW s, NEW n, SetMsg(d, s, n), s # "done"
      PROVE  WasDone
  BY <1>2 DEF SetMsg, Taken, TypeOK, StreamTypeOK
<1>3. ASSUME NEW d \in Claims, Requeue(d)
      PROVE  WasDone
  BY <1>3 DEF Requeue, SetMsg, Taken, TypeOK, StreamTypeOK
<1>4. CASE Settle
  <2>1. disp.claim \in Claims
    BY <1>4, CurrentClaim DEF Settle
  <2>2. CASE Requeue(disp.claim)
    BY <1>3, <2>1, <2>2
  <2>3. CASE disp.pc \in {"ack", "term"} /\ SetMsg(disp.claim, "done", msg[disp.claim].n)
    BY <1>4, <2>1, <2>3 DEF SetMsg, Taken, TypeOK, StreamTypeOK
  <2>4. QED BY <1>4, <2>2, <2>3 DEF Settle
<1>5. CASE UNCHANGED vars
  BY <1>1, <1>5 DEF vars
<1>6. ASSUME NEW h \in Hooks, Receive(h) \/ HookStep(h)
      PROVE  WasDone
  <2>1. CASE Publish(h)
    <3>1. hooks[h].claim \in Claims
      BY <2>1 DEF Publish, TypeOK, HooksTypeOK, Taken
    <3>2. CASE Enqueue(hooks[h].claim)
      <4>1. SetMsg(hooks[h].claim, "queued", msg[hooks[h].claim].n)
        BY <3>2 DEF Enqueue
      <4>2. QED BY <1>2, <3>1, <4>1
    <3>3. QED BY <1>1, <2>1, <3>2 DEF Publish
  <2>2. CASE TryLock(h)
    <3>1. \/ UNCHANGED msg
          \/ \E d \in Claims : \E a :
               msg' = [msg EXCEPT ![d] = [alert |-> a, state |-> "unsent", n |-> 0]]
      BY <2>2 DEF TryLock, TakeClaim
    <3>2. QED BY <1>1, <3>1 DEF Taken, TypeOK, StreamTypeOK
  <2>3. CASE Receive(h) \/ Halt(h) \/ InsertRun(h)
    <3>1. UNCHANGED msg
      BY <2>3 DEF Receive, Halt, InsertRun, stream
    <3>2. QED BY <1>1, <3>1
  <2>4. QED BY <1>6, <2>1, <2>2, <2>3 DEF HookStep
<1>7. ASSUME NEW d \in Claims, Deliver(d) \/ AckWaitOver(d)
      PROVE  WasDone
  BY <1>2, <1>3, <1>7 DEF Deliver, AckWaitOver
<1>8. ASSUME ~Settle, Take \/ DispStep
      PROVE  UNCHANGED msg
  BY <1>8 DEF Take, DispStep, CheckToggle, TryMark, DispatchOk, DispatchFails,
     UnmarkDispatched, SettleLost, SkipRelease, SkipSelect, SkipUpdate, SkipDigest, stream
<1>9. ASSUME \/ \E p \in Reports : ReportStep(p) \/ \E r \in RunIds : Report(p, r)
             \/ \E r \in RunIds : RunnerDies(r)
             \/ \E k \in Keys : LockExpires(k)
             \/ \E a \in AlertIds : MarkerExpires(a)
             \/ SetRepairEnabled \/ Crash
      PROVE  UNCHANGED msg
  BY <1>9 DEF ReportStep, ReportUpsert, ReportRelease, ReportSelect, ReportUpdate,
     Report, RunnerDies, LockExpires, MarkerExpires, SetRepairEnabled, Crash, stream
<1>10. QED
  BY <1>1, <1>4, <1>5, <1>6, <1>7, <1>8, <1>9 DEF Next

\* A marker is new only in the callback that goes on to dispatch.
LEMMA MarkerMoves ==
  ASSUME RollsBack, TypeOK, [Next]_vars, NEW a \in AlertIds, marker'[a]
  PROVE  \/ marker[a]
         \/ /\ disp'.pc = "dispatch" /\ disp'.claim = disp.claim
            /\ disp.pc # "idle" /\ a = msg[disp.claim].alert
<1> USE DEF TypeOK, KVTypeOK, kv
<1>1. CASE TryMark
  BY <1>1 DEF TryMark, Goto, May, RollsBack
<1>2. CASE UnmarkDispatched
  BY <1>2 DEF UnmarkDispatched, DeleteMarker
<1>3. ASSUME NEW b \in AlertIds, MarkerExpires(b) PROVE marker[a]
  BY <1>3 DEF MarkerExpires
<1>4. CASE UNCHANGED marker
  BY <1>4
<1>5. ASSUME ~UNCHANGED marker
      PROVE  TryMark \/ UnmarkDispatched \/ \E b \in AlertIds : MarkerExpires(b)
  <2>1. ~UNCHANGED vars
    BY <1>5 DEF vars
  <2>2. \A h \in Hooks : ~Receive(h) /\ ~HookStep(h)
    BY <1>5 DEF Receive, HookStep, TryLock, Halt, Publish, InsertRun
  <2>3. \A c \in Claims : ~Deliver(c) /\ ~AckWaitOver(c)
    BY <1>5 DEF Deliver, AckWaitOver
  <2>4. ~Take /\ (DispStep => TryMark \/ UnmarkDispatched)
    BY <1>5 DEF Take, DispStep, CheckToggle, DispatchOk, DispatchFails, Settle,
       SettleLost, SkipRelease, SkipSelect, SkipUpdate, SkipDigest
  <2>5. \A p \in Reports : ~ReportStep(p) /\ \A r \in RunIds : ~Report(p, r)
    BY <1>5 DEF ReportStep, ReportUpsert, ReportRelease, ReportSelect, ReportUpdate,
       Report
  <2>6. /\ ~SetRepairEnabled /\ ~Crash /\ \A r \in RunIds : ~RunnerDies(r)
        /\ \A k \in Keys : ~LockExpires(k)
    BY <1>5 DEF SetRepairEnabled, Crash, RunnerDies, LockExpires
  <2>7. QED BY <2>1, <2>2, <2>3, <2>4, <2>5, <2>6 DEF Next
<1>6. QED
  BY <1>1, <1>2, <1>3, <1>4, <1>5

\* From "dispatch" on, the callback starts the run or takes its marker back.
LEMMA AfterDispatch ==
  ASSUME RollsBack, TypeOK, [Next]_vars, disp.pc \in {"dispatch", "unmark"}
  PROVE  \/ disp'.pc \in {"dispatch", "unmark"} /\ disp'.claim = disp.claim
         \/ \E r \in RunIds : runs'[r].phase # "none" /\ runs'[r].claim = disp.claim
         \/ ~marker'[msg[disp.claim].alert]
<1>1. CASE UNCHANGED disp
  BY <1>1
<1>2. CASE DispatchOk
  BY <1>2 DEF DispatchOk, StartRun, TypeOK, RunsTypeOK
<1>3. CASE DispatchFails
  BY <1>3 DEF DispatchFails, Goto
<1>4. CASE UnmarkDispatched
  BY <1>4, CurrentClaim DEF UnmarkDispatched, DeleteMarker, May, RollsBack, TypeOK, KVTypeOK
<1>5. ASSUME DispStep \/ Take \/ Crash
      PROVE  DispatchOk \/ DispatchFails \/ UnmarkDispatched
  BY <1>5 DEF DispStep, Take, Crash, May, RollsBack, CheckToggle, TryMark, Settle,
     SettleLost, SkipRelease, SkipSelect, SkipUpdate, SkipDigest
<1>6. QED
  BY <1>1, <1>2, <1>3, <1>4, <1>5, DispChanges

LEMMA ExplainedStep ==
  ASSUME RollsBack, TypeOK, HandledInv, [Next]_vars
  PROVE  MarkerExplained'
<1> SUFFICES ASSUME NEW a \in AlertIds, marker'[a]
             PROVE  \/ StartedFor(a)'
                    \/ disp'.pc \in {"dispatch", "unmark"} /\ msg'[disp'.claim].alert = a
  BY DEF MarkerExplained
<1>1. disp.pc # "idle" => /\ disp.claim \in Claims /\ Taken(disp.claim)
                          /\ msg'[disp.claim].alert = msg[disp.claim].alert
  BY CurrentClaim, AlertsKept
<1>2. CASE StartedFor(a)
  BY <1>2, StartedKept DEF StartedFor, StartedNext
<1>3. CASE disp.pc \in {"dispatch", "unmark"} /\ msg[disp.claim].alert = a
  BY <1>1, <1>3, AfterDispatch DEF StartedFor, StartedNext
<1>4. CASE ~marker[a]
  BY <1>1, <1>4, MarkerMoves
<1>5. QED
  BY <1>2, <1>3, <1>4 DEF HandledInv, MarkerExplained

LEMMA CountedStep ==
  ASSUME TypeOK, AttemptsCounted, [Next]_vars
  PROVE  AttemptsCounted'
<1> USE DEF AttemptsCounted
<1>1. ASSUME NEW c \in Claims, Taken(c)
      PROVE  /\ msg[c].n <= msg'[c].n
             /\ msg[c].n \in Nat /\ msg'[c].n \in Nat
  BY <1>1, AttemptsGrow, TypeStep, PipelineAssumption DEF TypeOK, StreamTypeOK
<1>2. ASSUME NEW d \in inbox
      PROVE  d.claim \in Claims /\ Taken(d.claim) /\ d.n \in Nat
  BY PipelineAssumption DEF TypeOK, StreamTypeOK
<1>3. ASSUME disp'.pc # "idle"
      PROVE  disp'.n <= msg'[disp'.claim].n
  <2>1. CASE disp.pc # "idle" /\ disp'.claim = disp.claim /\ disp'.n = disp.n
    BY <1>1, <2>1, CurrentClaim, PipelineAssumption DEF TypeOK, DispTypeOK
  <2>2. CASE Take
    BY <1>1, <1>2, <2>2 DEF Take
  <2>3. CASE DispStep
    <3>1. disp.pc # "idle" /\ disp'.claim = disp.claim /\ disp'.n = disp.n
      BY <1>3, <2>3 DEF DispStep, CheckToggle, TryMark, DispatchOk, DispatchFails,
         UnmarkDispatched, Settle, SettleLost, SkipRelease, SkipSelect, SkipUpdate,
         SkipDigest, AfterSkip, Goto, DispIdle
    <3>2. QED BY <2>1, <3>1
  <2>4. CASE Crash
    BY <1>3, <2>4 DEF Crash, DispIdle
  <2>5. QED BY <1>3, <2>1, <2>2, <2>3, <2>4, DispChanges
<1>4. ASSUME NEW d \in inbox'
      PROVE  d.n <= msg'[d.claim].n
  <2>1. CASE d \in inbox
    BY <1>1, <1>2, <2>1
  <2>2. ASSUME NEW c \in Claims, Deliver(c), d \notin inbox
        PROVE  d.n = msg'[d.claim].n
    BY <2>2 DEF Deliver, SetMsg, TypeOK, StreamTypeOK
  <2>3. ASSUME NEW h \in Hooks, Receive(h) \/ HookStep(h)
        PROVE  inbox' \subseteq inbox
    BY <2>3 DEF Receive, HookStep, TryLock, Halt, Publish, InsertRun, stream
  <2>4. CASE Take \/ DispStep
    BY <2>1, <2>4 DEF Take, DispStep, CheckToggle, TryMark, DispatchOk, DispatchFails,
       UnmarkDispatched, Settle, SettleLost, SkipRelease, SkipSelect, SkipUpdate,
       SkipDigest, stream
  <2>5. ASSUME \/ \E p \in Reports : ReportStep(p) \/ \E r \in RunIds : Report(p, r)
               \/ \E c \in Claims : AckWaitOver(c)
               \/ \E r \in RunIds : RunnerDies(r)
               \/ \E k \in Keys : LockExpires(k)
               \/ \E a \in AlertIds : MarkerExpires(a)
               \/ SetRepairEnabled \/ Crash
        PROVE  inbox' \subseteq inbox
    BY <2>5 DEF ReportStep, ReportUpsert, ReportRelease, ReportSelect, ReportUpdate,
       Report, AckWaitOver, RunnerDies, LockExpires, MarkerExpires, SetRepairEnabled,
       Crash, stream
  <2>6. CASE UNCHANGED vars
    BY <2>1, <2>6 DEF vars
  <2>7. \A c \in Claims : Deliver(c) => d.n <= msg'[d.claim].n
    <3> SUFFICES ASSUME NEW c \in Claims, Deliver(c), d \notin inbox
                 PROVE  d.n <= msg'[d.claim].n
      BY <2>1
    <3>1. d.n = msg'[d.claim].n /\ d.claim \in Claims
      BY <2>2 DEF Deliver, TypeOK, StreamTypeOK
    <3>2. msg'[d.claim].n \in Nat
      BY <3>1, TypeStep, PipelineAssumption DEF TypeOK, StreamTypeOK
    <3>3. QED BY <3>1, <3>2
  <2>8. QED
    BY <2>1, <2>3, <2>4, <2>5, <2>6, <2>7 DEF Next
<1>5. QED
  BY <1>3, <1>4

\* The callback's two ways out that end the message for good.
LEMMA AckedStep ==
  ASSUME RollsBack, TypeOK, HandledInv, [Next]_vars, disp'.pc = "ack"
  PROVE  StartedNext(msg'[disp'.claim].alert) \/ disp'.claim \in skipped'
<1> DEFINE a == msg[disp.claim].alert
           c == disp.claim
<1>1. disp.pc # "idle" => /\ c \in Claims /\ Taken(c) /\ a \in AlertIds
                          /\ msg'[c].alert = a
  BY CurrentClaim, AlertsKept
<1> HIDE DEF a, c
<1>2. StartedFor(a) => StartedNext(a)
  BY StartedKept
<1>3. CASE UNCHANGED disp
  BY <1>1, <1>2, <1>3, HistoryGrows DEF HandledInv, a, c
<1>4. CASE DispStep
  <2>1. disp.pc # "idle" /\ disp'.claim = c
    BY <1>4 DEF DispStep, CheckToggle, TryMark, DispatchOk, DispatchFails,
       UnmarkDispatched, Settle, SettleLost, SkipRelease, SkipSelect, SkipUpdate,
       SkipDigest, AfterSkip, Goto, DispIdle, c
  <2>2. TryMark \/ DispatchOk \/ SkipDigest
    BY <1>4 DEF DispStep, CheckToggle, DispatchFails, UnmarkDispatched, AfterFailure,
       Settle, SettleLost, SkipRelease, SkipSelect, SkipUpdate, Goto, DispIdle
  <2>3. CASE TryMark
    <3>1. disp.pc = "mark" /\ marker[a]
      BY <2>3 DEF TryMark, MarkerTaken, Goto, a
    <3>2. StartedFor(a)
      BY <1>1, <2>1, <3>1 DEF HandledInv, MarkerExplained, a
    <3>3. QED BY <1>1, <1>2, <2>1, <3>2
  <2>4. CASE DispatchOk
    <3>1. \E r \in RunIds : runs'[r].phase # "none" /\ runs'[r].claim = c
      BY <2>4 DEF DispatchOk, StartRun, TypeOK, RunsTypeOK, c
    <3>2. QED BY <1>1, <2>1, <3>1 DEF StartedNext
  <2>5. CASE SkipDigest
    BY <2>1, <2>5 DEF SkipDigest, c
  <2>6. QED BY <2>2, <2>3, <2>4, <2>5
<1>5. CASE Take \/ Crash
  BY <1>5 DEF Take, Crash, DispIdle
<1>6. QED
  BY <1>3, <1>4, <1>5, DispChanges

LEMMA TermStep ==
  ASSUME TypeOK, HandledInv, [Next]_vars, disp'.pc = "term"
  PROVE  disp'.n = MaxAttempts
<1>1. CASE UNCHANGED disp
  BY <1>1 DEF HandledInv
<1>2. CASE DispStep
  <2>1. UnmarkDispatched
    BY <1>2 DEF DispStep, CheckToggle, TryMark, DispatchOk, DispatchFails, Settle,
       SettleLost, SkipRelease, SkipSelect, SkipUpdate, SkipDigest, AfterSkip, Goto, DispIdle
  <2>2. disp'.n = disp.n /\ disp.n >= MaxAttempts
    BY <2>1 DEF UnmarkDispatched, Goto, AfterFailure
  <2>3. QED BY <2>2, PipelineAssumption DEF TypeOK, DispTypeOK
<1>3. CASE Take \/ Crash
  BY <1>3 DEF Take, Crash, DispIdle
<1>4. QED
  BY <1>1, <1>2, <1>3, DispChanges

LEMMA HandledStep ==
  ASSUME RollsBack, TypeOK, HandledInv, [Next]_vars
  PROVE  HandledInv'
<1>1. MarkerExplained' /\ AttemptsCounted'
  BY ExplainedStep, CountedStep DEF HandledInv
<1>2. disp'.pc = "ack" => StartedNext(msg'[disp'.claim].alert) \/ disp'.claim \in skipped'
  BY AckedStep
<1>3. disp'.pc = "term" => disp'.n = MaxAttempts
  BY TermStep
<1>4. ASSUME NEW c \in Claims, msg'[c].state = "done"
      PROVE  \/ \E r \in RunIds : /\ runs'[r].phase # "none"
                                  /\ msg'[runs'[r].claim].alert = msg'[c].alert
             \/ c \in skipped'
             \/ msg'[c].n = MaxAttempts
  <2>1. Taken(c)
    BY <1>4, DoneMoves, CurrentClaim
  <2>2. /\ msg'[c].alert = msg[c].alert /\ msg[c].n <= msg'[c].n
        /\ msg[c].n \in 0..MaxAttempts /\ msg'[c].n \in 0..MaxAttempts
    BY <2>1, AlertsKept, AttemptsGrow, TypeStep DEF TypeOK, StreamTypeOK
  <2>3. \/ StartedFor(msg[c].alert) \/ c \in skipped \/ msg[c].n = MaxAttempts
    <3>1. CASE msg[c].state = "done"
      BY <3>1 DEF HandledInv, AckedIsHandled, StartedFor
    <3>2. CASE Settle /\ disp.pc \in {"ack", "term"} /\ c = disp.claim
      BY <2>2, <3>2, PipelineAssumption DEF HandledInv, AttemptsCounted
    <3>3. QED BY <1>4, <3>1, <3>2, DoneMoves
  <2>4. QED
    BY <2>2, <2>3, StartedKept, HistoryGrows, PipelineAssumption DEF StartedNext
<1>5. AckedIsHandled'
  BY <1>4 DEF AckedIsHandled
<1>6. QED
  BY <1>1, <1>2, <1>3, <1>5 DEF HandledInv, StartedFor, StartedNext

\* For all constants, redelivery, failed and unclear dispatches, lost acks,
\* toggling and every TTL, provided the process does not crash and the KV
\* calls succeed: a message leaves the stream only when its alert_id has a
\* run, was closed out, or used up its attempts (dispatcher.go:84-139).
THEOREM AckedWasHandled ==
  ASSUME RollsBack
  PROVE  Spec => []AckedIsHandled
<1>1. Init => TypeOK /\ HandledInv
  BY TypeInit, HandledInit
<1>2. TypeOK /\ HandledInv /\ [Next]_vars => (TypeOK /\ HandledInv)'
  BY TypeStep, HandledStep
<1>3. HandledInv => AckedIsHandled
  BY DEF HandledInv
<1>4. QED
  BY <1>1, <1>2, <1>3, PTL DEF Spec
=============================================================================
