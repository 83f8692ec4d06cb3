--------------------------- MODULE Toggle_proofs ---------------------------
(***************************************************************************)
(* The flap lock with the repair toggle moving and dispatch markers        *)
(* expiring at any time.  Pipeline_proofs assumes both away, as each of    *)
(* them lets a redelivered message go on without its lock; here they may   *)
(* happen, and what is assumed away is the redelivery: the callback        *)
(* settles each delivery before the server sends the message again.        *)
(***************************************************************************)
EXTENDS Pipeline_proofs

\* No delivery of a message is behind the back of the callback that handles
\* it; no report comes twice, GitHub's answers are clear, and no lock expires
\* under work in progress.
Surprises == {"crash", "ackwait", "acklost", "resend", "ambiguous", "lockttlEarly"}
Prompt == Env \cap Surprises = {}

\* The callback has decided on the message and will not dispatch it.
Closing == {"ack", "term", "skipSelect", "skipUpdate", "skipDigest"}

(* The inductive invariant.  Markers do not count: that a claim has one run *)
(* at most rests on its message, which is in one place at a time (OneCopy)  *)
(* and done with once a run was started (RunIsSettled).                     *)
OneCopy ==
  /\ \A c \in Claims : HasCopy(c) <=> msg[c].state = "out"
  /\ disp.pc = "idle" => disp.claim = NoClaim
  /\ \A d \in inbox : d.claim # disp.claim
  /\ \A d, e \in inbox : d.claim = e.claim => d = e

RunIsSettled ==
  \A r \in RunIds : runs[r].phase # "none" =>
    \/ msg[runs[r].claim].state = "done"
    \/ disp.claim = runs[r].claim /\ disp.pc = "ack"

OneRunPerClaim ==
  \A r, s \in RunIds :
    runs[r].phase # "none" /\ runs[s].phase # "none" /\ runs[r].claim = runs[s].claim => r = s

\* The message may still be dispatched.
Waits(c) == Pending(c) /\ ~(disp.claim = c /\ disp.pc \in Closing)

\* Somebody works under the claim, or will, in a way that needs its lock.
Needs(c) ==
  \/ \E h \in Hooks : hooks[h].pc = "publish" /\ hooks[h].claim = c
  \/ Waits(c)
  \/ \E r \in RunIds : runs[r].phase = "running" /\ runs[r].claim = c
  \/ \E p \in Reports : Releasing(p) /\ reports[p].claim = c

NeedsHold == \A c \in Claims : Needs(c) => Holds(c)

PromptInv ==
  /\ OneCopy /\ RunIsSettled /\ OneRunPerClaim
  /\ OneReportPerRun /\ OnePublisher /\ NeedsHold

LEMMA PromptInit == Init => PromptInv
BY PipelineAssumption
DEF Init, PromptInv, OneCopy, RunIsSettled, OneRunPerClaim, OneReportPerRun, OnePublisher,
    NeedsHold, Needs, Waits, Releasing, Pending, HasCopy, HookIdle, DispIdle, ReportIdle

LEMMA NoSurprise ==
  ASSUME Prompt
  PROVE  /\ ~May("crash") /\ ~May("ackwait") /\ ~May("acklost")
         /\ ~May("resend") /\ ~May("ambiguous") /\ ~May("lockttlEarly")
BY DEF Prompt, Surprises, May

LEMMA NeedHolds ==
  ASSUME TypeOK, PromptInv
  PROVE  /\ \A c \in Claims : Needs(c) => Taken(c) /\ Holds(c)
         /\ \A h \in Hooks : hooks[h].pc = "publish" =>
              /\ hooks[h].claim \in Claims /\ Needs(hooks[h].claim)
              /\ msg[hooks[h].claim].state = "unsent"
         /\ \A r \in RunIds : runs[r].phase # "none" =>
              runs[r].claim \in Claims /\ Taken(runs[r].claim)
         /\ \A r \in RunIds : runs[r].phase = "running" => Needs(runs[r].claim)
         /\ \A p \in Reports : Releasing(p) =>
              reports[p].claim \in Claims /\ Needs(reports[p].claim)
         /\ disp.pc # "idle" => disp.claim \in Claims /\ msg[disp.claim].state = "out"
<1>1. /\ \A h \in Hooks : hooks[h].pc = "publish" =>
           hooks[h].claim \in Claims /\ Taken(hooks[h].claim)
      /\ \A r \in RunIds : runs[r].phase # "none" =>
           runs[r].claim \in Claims /\ Taken(runs[r].claim)
      /\ \A p \in Reports : Releasing(p) =>
           reports[p].claim \in Claims /\ Taken(reports[p].claim)
  BY DEF TypeOK, HooksTypeOK, RunsTypeOK, ReportsTypeOK, Releasing, Taken
<1>2. \A c \in Claims : Waits(c) => Taken(c)
  BY DEF Waits, Pending, Taken
<1>3. \A c \in Claims : Needs(c) => Taken(c)
  BY <1>1, <1>2 DEF Needs
<1>4. disp.pc # "idle" => disp.claim \in Claims /\ msg[disp.claim].state = "out"
  BY CurrentClaim DEF PromptInv, OneCopy, HasCopy
<1>5. \A h \in Hooks : hooks[h].pc = "publish" => msg[hooks[h].claim].state = "unsent"
  BY DEF PromptInv, OnePublisher
<1>6. QED
  BY <1>1, <1>3, <1>4, <1>5 DEF Needs, PromptInv, NeedsHold

\* A claim that keeps its key and its lock.
LEMMA HoldsKept ==
  ASSUME TypeOK, [Next]_vars, UNCHANGED locks, NEW c \in Claims, Taken(c), Holds(c)
  PROVE  Holds(c)'
BY AlertsKept DEF Holds, Key

\* A step that only takes work away, or hands it on.
LessNeed ==
  /\ UNCHANGED locks
  /\ \A h \in Hooks : hooks'[h].pc = "publish" =>
       /\ hooks[h].pc = "publish" /\ hooks'[h].claim = hooks[h].claim
       /\ msg'[hooks[h].claim].state = msg[hooks[h].claim].state
  /\ \A c \in Claims : Waits(c)' => Waits(c)
  /\ \A r \in RunIds :
       /\ runs'[r].phase # "none" =>
            runs[r].phase # "none" /\ runs'[r].claim = runs[r].claim
       /\ runs'[r].phase = "running" => runs[r].phase = "running"
       /\ runs[r].phase = "reported" => runs'[r] = runs[r]
  /\ \A p \in Reports :
       Releasing(p)' => Releasing(p) /\ reports'[p].claim = reports[p].claim

LEMMA PromptFrame ==
  ASSUME TypeOK, PromptInv, [Next]_vars, LessNeed, OneCopy', RunIsSettled'
  PROVE  PromptInv'
<1> USE DEF LessNeed
<1>1. OneRunPerClaim'
  BY DEF PromptInv, OneRunPerClaim
<1>2. OneReportPerRun'
  BY DEF PromptInv, OneReportPerRun
<1>3. OnePublisher'
  BY DEF PromptInv, OnePublisher
<1>4. \A c \in Claims : Needs(c)' => Needs(c)
  BY DEF Needs
<1>5. NeedsHold'
  BY <1>4, NeedHolds, HoldsKept DEF NeedsHold
<1>6. QED BY <1>1, <1>2, <1>3, <1>5 DEF PromptInv

\* A step that leaves the messages and the callback's claim alone.
LEMMA SettledFrame ==
  ASSUME TypeOK, PromptInv, UNCHANGED <<msg, inbox>>, disp'.claim = disp.claim,
         disp'.pc = "idle" <=> disp.pc = "idle",
         disp.pc = "ack" => disp'.pc = "ack",
         \A r \in RunIds : runs'[r].phase # "none" =>
           runs[r].phase # "none" /\ runs'[r].claim = runs[r].claim
  PROVE  OneCopy' /\ RunIsSettled'
<1>1. OneCopy'
  BY DEF PromptInv, OneCopy, HasCopy
<1>2. RunIsSettled'
  BY DEF PromptInv, RunIsSettled
<1>3. QED BY <1>1, <1>2

\* The steps that leave the callback and the messages alone and start nothing.
LEMMA PromptQuiet ==
  ASSUME Prompt, TypeOK, PromptInv, [Next]_vars,
         \/ UNCHANGED vars
         \/ \E h \in Hooks : Receive(h) \/ Halt(h) \/ InsertRun(h)
         \/ \E r \in RunIds : RunnerDies(r)
         \/ \E p \in Reports : ReportUpsert(p) \/ ReportSelect(p) \/ ReportUpdate(p)
         \/ SetRepairEnabled
         \/ \E a \in AlertIds : MarkerExpires(a)
  PROVE  PromptInv'
<1> USE DEF kv, stream, hist
<1> SUFFICES LessNeed /\ UNCHANGED <<msg, inbox, disp>>
  <2>1. ASSUME LessNeed, UNCHANGED <<msg, inbox, disp>> PROVE OneCopy' /\ RunIsSettled'
    BY <2>1, SettledFrame DEF LessNeed
  <2>2. QED BY <2>1, PromptFrame
<1> USE DEF LessNeed, Waits, Pending, Releasing
<1>1. CASE UNCHANGED vars
  BY <1>1 DEF vars
<1>2. ASSUME NEW h \in Hooks, Receive(h) \/ Halt(h) \/ InsertRun(h)
      PROVE  LessNeed /\ UNCHANGED <<msg, inbox, disp>>
  <2>1. \A g \in Hooks : hooks'[g].pc = "publish" => hooks'[g] = hooks[g]
    <3>1. CASE Receive(h)
      BY <3>1 DEF Receive, TypeOK, HooksTypeOK
    <3>2. CASE Advance(h)
      BY <3>2 DEF Advance, HookIdle, TypeOK, HooksTypeOK
    <3>3. QED BY <1>2, <3>1, <3>2 DEF Halt, InsertRun
  <2>2. QED
    BY <1>2, <2>1 DEF Receive, Halt, InsertRun
<1>3. ASSUME NEW r \in RunIds, RunnerDies(r)
      PROVE  LessNeed /\ UNCHANGED <<msg, inbox, disp>>
  <2>1. \A s \in RunIds : runs'[s] = IF s = r THEN [phase |-> "dead", claim |-> runs[r].claim]
                                      ELSE runs[s]
    BY <1>3 DEF RunnerDies, TypeOK, RunsTypeOK
  <2>2. /\ runs[r].phase = "running"
        /\ UNCHANGED <<msg, inbox, disp, locks, hooks, reports>>
    BY <1>3 DEF RunnerDies
  <2>3. QED BY <2>1, <2>2
<1>4. ASSUME NEW p \in Reports, ReportUpsert(p) \/ ReportSelect(p) \/ ReportUpdate(p)
      PROVE  LessNeed /\ UNCHANGED <<msg, inbox, disp>>
  <2>1. UNCHANGED <<msg, inbox, disp, locks, hooks, runs>>
    BY <1>4 DEF ReportUpsert, ReportSelect, ReportUpdate
  <2>2. \A q \in Reports : Releasing(q)' => Releasing(q) /\ reports'[q].claim = reports[q].claim
    BY <1>4 DEF ReportUpsert, ReportSelect, ReportUpdate, ReportGoto, ReportIdle, After,
       OnUpsertError, TypeOK, ReportsTypeOK
  <2>3. QED BY <2>1, <2>2
<1>5. CASE SetRepairEnabled \/ \E a \in AlertIds : MarkerExpires(a)
  <2>1. UNCHANGED <<msg, inbox, disp, locks, hooks, runs, reports>>
    BY <1>5 DEF SetRepairEnabled, MarkerExpires
  <2>2. QED BY <2>1
<1>6. QED
  BY <1>1, <1>2, <1>3, <1>4, <1>5

\* The callback goes on: towards a dispatch, or towards its Ack, Nak or Term,
\* and never back from these.
GoesOn ==
  /\ disp.pc \notin {"idle", "ack"}
  /\ \E pc \in DispPc \ {"idle"} : Goto(pc) /\ (disp.pc \in Closing => pc \in Closing)
  /\ UNCHANGED <<msg, inbox, hooks, runs, reports>>

LEMMA GoingOn ==
  ASSUME Prompt, \/ CheckToggle \/ TryMark \/ UnmarkDispatched \/ DispatchFails
                 \/ SkipRelease \/ SkipSelect \/ SkipUpdate \/ SkipDigest
  PROVE  GoesOn
<1> USE DEF GoesOn, Closing, DispPc, kv, stream, hist
<1>1. CASE CheckToggle
  BY <1>1 DEF CheckToggle
<1>2. CASE TryMark
  BY <1>2 DEF TryMark
<1>3. CASE UnmarkDispatched
  BY <1>3 DEF UnmarkDispatched, AfterFailure
<1>4. CASE DispatchFails
  BY <1>4, NoSurprise DEF DispatchFails
<1>5. CASE SkipRelease
  BY <1>5 DEF SkipRelease
<1>6. CASE SkipSelect
  BY <1>6 DEF SkipSelect
<1>7. CASE SkipUpdate
  BY <1>7 DEF SkipUpdate
<1>8. CASE SkipDigest
  BY <1>8 DEF SkipDigest, AfterSkip
<1>9. QED BY <1>1, <1>2, <1>3, <1>4, <1>5, <1>6, <1>7, <1>8

\* The claim stays where it is, and less of it waits.
LEMMA GoingOnKeeps ==
  ASSUME TypeOK, PromptInv, GoesOn
  PROVE  /\ disp'.claim = disp.claim /\ OneCopy' /\ RunIsSettled'
         /\ \A c \in Claims : Waits(c)' => Waits(c)
<1>1. /\ disp'.claim = disp.claim /\ disp'.pc # "idle" /\ disp.pc # "idle"
      /\ disp.pc \in Closing => disp'.pc \in Closing
      /\ UNCHANGED <<msg, inbox, runs>>
  BY DEF GoesOn, Goto
<1>2. OneCopy' /\ RunIsSettled'
  BY <1>1, SettledFrame DEF GoesOn
<1>3. \A c \in Claims : Waits(c)' => Waits(c)
  BY <1>1 DEF Waits, Pending
<1>4. QED BY <1>1, <1>2, <1>3

LEMMA PromptGoesOn ==
  ASSUME TypeOK, PromptInv, [Next]_vars, GoesOn, UNCHANGED locks
  PROVE  PromptInv'
<1>1. LessNeed
  BY GoingOnKeeps DEF LessNeed, GoesOn, Releasing
<1>2. QED BY <1>1, GoingOnKeeps, PromptFrame

\* The callback takes a delivery over from the client's buffer.
LEMMA PromptTake ==
  ASSUME TypeOK, PromptInv, [Next]_vars, Take
  PROVE  PromptInv'
<1>1. PICK d \in inbox : /\ inbox' = inbox \ {d} /\ disp'.claim = d.claim
                         /\ disp'.pc = "toggle"
  BY DEF Take
<1>2. UNCHANGED <<msg, locks, hooks, runs, reports>> /\ disp.pc = "idle"
  BY DEF Take, kv, hist
<1>3. disp.claim = NoClaim /\ d.claim \in Claims
  BY <1>2 DEF PromptInv, OneCopy, TypeOK, StreamTypeOK
<1>4. \A c \in Claims : HasCopy(c)' <=> HasCopy(c)
  BY <1>1, <1>3, PipelineAssumption DEF HasCopy, PromptInv, OneCopy
<1>5. OneCopy'
  BY <1>1, <1>2, <1>4 DEF PromptInv, OneCopy
<1>6. RunIsSettled'
  BY <1>2 DEF PromptInv, RunIsSettled
<1>7. LessNeed
  BY <1>2, <1>3, PipelineAssumption DEF LessNeed, Waits, Pending, Releasing, Closing
<1>8. QED BY <1>5, <1>6, <1>7, PromptFrame

\* Ack and Term end the message, Nak puts it back in the queue.
LEMMA PromptSettle ==
  ASSUME TypeOK, PromptInv, [Next]_vars, Settle
  PROVE  PromptInv'
<1> DEFINE c == disp.claim
<1>1. /\ disp'.pc = "idle" /\ disp'.claim = NoClaim
      /\ UNCHANGED <<inbox, locks, hooks, runs, reports>> /\ disp.pc \in {"ack", "term", "nak"}
  BY DEF Settle, DispIdle, kv, hist
<1>2. c \in Claims /\ msg[c].state = "out"
  BY <1>1, NeedHolds
<1>3. /\ \A d \in Claims : d # c => msg'[d] = msg[d]
      /\ msg'[c].state = IF disp.pc = "nak" THEN "queued" ELSE "done"
  BY <1>2 DEF Settle, Requeue, SetMsg, TypeOK, StreamTypeOK
<1>4. \A d \in Claims : HasCopy(d)' <=> HasCopy(d) /\ d # c
  BY <1>1, PipelineAssumption DEF HasCopy, PromptInv, OneCopy
<1>5. OneCopy'
  <2>1. \A d \in Claims : HasCopy(d)' <=> msg'[d].state = "out"
    BY <1>2, <1>3, <1>4 DEF PromptInv, OneCopy
  <2>2. \A d \in inbox' : d.claim # disp'.claim
    BY <1>1, PipelineAssumption DEF TypeOK, StreamTypeOK
  <2>3. QED BY <1>1, <2>1, <2>2 DEF PromptInv, OneCopy
<1>6. RunIsSettled'
  <2>1. ASSUME NEW r \in RunIds, runs[r].phase # "none"
        PROVE  msg'[runs[r].claim].state = "done"
    <3>1. runs[r].claim \in Claims
      BY <2>1, NeedHolds
    <3>2. CASE runs[r].claim = c
      <4>1. disp.pc = "ack"
        BY <1>2, <2>1, <3>2 DEF PromptInv, RunIsSettled
      <4>2. QED BY <1>3, <3>2, <4>1
    <3>3. CASE runs[r].claim # c
      BY <1>3, <2>1, <3>1, <3>3 DEF PromptInv, RunIsSettled
    <3>4. QED BY <3>2, <3>3
  <2>2. QED BY <1>1, <2>1 DEF RunIsSettled
<1>7. \A d \in Claims : Waits(d)' => Waits(d)
  <2>1. \A d \in Claims : d = c /\ Waits(d)' => Waits(d)
    BY <1>1, <1>2, <1>3 DEF Waits, Pending, Closing
  <2>2. \A d \in Claims : d # c /\ Waits(d)' => Waits(d)
    BY <1>3 DEF Waits, Pending
  <2>3. QED BY <2>1, <2>2
<1>8. LessNeed
  <2>1. \A h \in Hooks : hooks[h].pc = "publish" =>
          hooks[h].claim \in Claims /\ hooks[h].claim # c
    BY <1>2, NeedHolds
  <2>2. QED BY <1>1, <1>3, <1>7, <2>1 DEF LessNeed, Releasing
<1>9. QED BY <1>5, <1>6, <1>8, PromptFrame

\* A message that is due has no copy yet.
LEMMA PromptDeliver ==
  ASSUME TypeOK, PromptInv, [Next]_vars, NEW c \in Claims, Deliver(c)
  PROVE  PromptInv'
<1>1. PICK n : inbox' = inbox \union {[claim |-> c, n |-> n]}
  BY DEF Deliver
<1>2. /\ msg[c].state = "queued" /\ UNCHANGED <<disp, locks, hooks, runs, reports>>
      /\ msg'[c].state = "out" /\ \A d \in Claims : d # c => msg'[d] = msg[d]
  BY DEF Deliver, SetMsg, kv, hist, TypeOK, StreamTypeOK
<1>3. ~HasCopy(c)
  BY <1>2 DEF PromptInv, OneCopy
<1>4. ASSUME NEW d \in Claims PROVE HasCopy(d)' <=> HasCopy(d) \/ d = c
  <2>1. (\E e \in inbox' : e.claim = d) <=> (\E e \in inbox : e.claim = d) \/ d = c
    <3>1. \E e \in inbox' : e.claim = c
      <4>1. [claim |-> c, n |-> n] \in inbox'
        BY <1>1
      <4>2. [claim |-> c, n |-> n].claim = c
        OBVIOUS
      <4>3. QED BY <4>1, <4>2
    <3>2. \A e \in inbox' : e \in inbox \/ e.claim = c
      BY <1>1
    <3>3. inbox \subseteq inbox'
      BY <1>1
    <3>4. QED BY <3>1, <3>2, <3>3
  <2>2. QED BY <1>2, <2>1 DEF HasCopy
<1>5. OneCopy'
  <2>1. \A d \in Claims : HasCopy(d)' <=> msg'[d].state = "out"
    BY <1>2, <1>4 DEF PromptInv, OneCopy
  <2>2. \A d \in inbox' : d.claim # disp'.claim
    BY <1>1, <1>2, <1>3 DEF PromptInv, OneCopy, HasCopy
  <2>3. \A d, e \in inbox' : d.claim = e.claim => d = e
    BY <1>1, <1>3 DEF PromptInv, OneCopy, HasCopy
  <2>4. QED BY <1>2, <2>1, <2>2, <2>3 DEF PromptInv, OneCopy
<1>6. RunIsSettled'
  <2>1. \A r \in RunIds : runs[r].phase # "none" =>
          runs[r].claim \in Claims /\ runs[r].claim # c
    BY <1>2, <1>3, NeedHolds DEF PromptInv, RunIsSettled, HasCopy
  <2>2. QED BY <1>2, <2>1 DEF PromptInv, RunIsSettled
<1>7. LessNeed
  <2>1. Waits(c)
    BY <1>2, <1>3 DEF Waits, Pending, HasCopy
  <2>2. \A d \in Claims : Waits(d)' => Waits(d)
    BY <1>2, <2>1 DEF Waits, Pending
  <2>3. \A h \in Hooks : hooks[h].pc = "publish" =>
          hooks[h].claim \in Claims /\ hooks[h].claim # c
    BY <1>2, NeedHolds
  <2>4. QED BY <1>2, <2>2, <2>3 DEF LessNeed, Releasing
<1>8. QED BY <1>5, <1>6, <1>7, PromptFrame

\* A claim's message is published once, by the request that took the claim.
LEMMA PromptPublish ==
  ASSUME TypeOK, PromptInv, [Next]_vars, NEW h \in Hooks, Publish(h)
  PROVE  PromptInv'
<1> DEFINE c == hooks[h].claim
<1>1. /\ c \in Claims /\ Taken(c) /\ Holds(c) /\ msg[c].state = "unsent"
      /\ UNCHANGED <<locks, inbox, disp, reports, runs>>
  BY NeedHolds DEF Publish, kv, hist
<1>2. \A g \in Hooks : hooks'[g].pc = "publish" => hooks[g] = hooks'[g] /\ g # h
  BY DEF Publish, HookGoto, Abort, HookIdle, TypeOK, HooksTypeOK
<1>3. \A g \in Hooks : hooks'[g].pc = "publish" =>
        hooks[g].claim \in Claims /\ hooks[g].claim # c
  BY <1>2, NeedHolds DEF Publish, PromptInv, OnePublisher
<1>4. /\ \A d \in Claims : d # c => msg'[d] = msg[d]
      /\ msg'[c].state \in {"unsent", "queued"}
  BY <1>1 DEF Publish, Enqueue, SetMsg, TypeOK, StreamTypeOK
<1>5. OneCopy'
  BY <1>1, <1>4 DEF PromptInv, OneCopy, HasCopy
<1>6. RunIsSettled'
  BY <1>1, <1>4, NeedHolds DEF PromptInv, RunIsSettled, OneCopy, HasCopy
<1>7. OneRunPerClaim' /\ OneReportPerRun'
  BY <1>1 DEF PromptInv, OneRunPerClaim, OneReportPerRun, Releasing
<1>8. OnePublisher'
  BY <1>2, <1>3, <1>4 DEF PromptInv, OnePublisher
<1>9. NeedsHold'
  <2>1. \A d \in Claims : d # c /\ Needs(d)' => Needs(d)
    BY <1>1, <1>2, <1>4 DEF Needs, Waits, Pending, Releasing
  <2>2. \A d \in Claims : d = c \/ Needs(d) => Taken(d) /\ Holds(d)
    BY <1>1, NeedHolds
  <2>3. QED BY <1>1, <2>1, <2>2, HoldsKept DEF NeedsHold
<1>10. QED BY <1>5, <1>6, <1>7, <1>8, <1>9 DEF PromptInv

\* A free lock is nobody's, so taking it takes it from nobody.
LEMMA PromptTryLock ==
  ASSUME TypeOK, PromptInv, [Next]_vars, NEW h \in Hooks, TryLock(h)
  PROVE  PromptInv'
<1> DEFINE a == Head(hooks[h].todo)
           k == KeyOf[a]
<1>1. a \in AlertIds /\ k \in Keys /\ UNCHANGED <<inbox, disp, reports, runs>>
  BY BatchLeft DEF TryLock
<1>2. CASE UNCHANGED <<locks, msg>> /\ (HookGoto(h, "halt", NoClaim) \/ Abort(h))
  <2>1. \A g \in Hooks : hooks'[g].pc = "publish" => hooks[g] = hooks'[g]
    BY <1>2 DEF HookGoto, Abort, HookIdle, TypeOK, HooksTypeOK
  <2>2. LessNeed
    BY <1>1, <1>2, <2>1 DEF LessNeed, Waits, Pending, Releasing
  <2>3. QED BY <1>1, <1>2, <2>2, SettledFrame, PromptFrame
<1>3. ASSUME NEW c \in Claims, LockFree(k), TakeClaim(c, a),
             HookGoto(h, "publish", c) \/ Abort(h)
      PROVE  PromptInv'
  <2>1. /\ msg[c].state = "fresh" /\ msg'[c].alert = a /\ msg'[c].state = "unsent"
        /\ \A d \in Claims : d # c => msg'[d] = msg[d]
    BY <1>3 DEF TakeClaim, TypeOK, StreamTypeOK
  <2>2. locks'[k] = c /\ \A j \in Keys : j # k => locks'[j] = locks[j]
    BY <1>1, <1>3 DEF TakeClaim, TypeOK, KVTypeOK
  <2>3. \A d \in Claims : Taken(d) => d # c
    BY <2>1 DEF Taken
  <2>4. \A d \in Claims : Taken(d) /\ Holds(d) => Holds(d)'
    <3>1. \A d \in Claims : Holds(d) => Key(d) # k
      BY <1>3, PipelineAssumption DEF Holds, LockFree
    <3>2. \A d \in Claims : Taken(d) => Key(d) \in Keys
      BY PipelineAssumption DEF Key, TypeOK, StreamTypeOK, Taken
    <3>3. QED
      BY <2>1, <2>2, <2>3, <3>1, <3>2 DEF Holds, Key
  <2>5. Holds(c)'
    BY <2>1, <2>2 DEF Holds, Key
  <2>6. \A g \in Hooks : hooks'[g].pc = "publish" =>
          \/ g = h /\ hooks'[g].claim = c
          \/ /\ g # h /\ hooks'[g] = hooks[g]
             /\ hooks[g].claim \in Claims /\ Taken(hooks[g].claim)
    BY <1>3 DEF HookGoto, Abort, HookIdle, TypeOK, HooksTypeOK, Taken
  <2>7. OneCopy'
    BY <1>1, <2>1 DEF PromptInv, OneCopy, HasCopy
  <2>8. RunIsSettled'
    BY <1>1, <2>1, <2>3, NeedHolds DEF PromptInv, RunIsSettled
  <2>9. OneRunPerClaim' /\ OneReportPerRun'
    BY <1>1 DEF PromptInv, OneRunPerClaim, OneReportPerRun, Releasing
  <2>10. OnePublisher'
    BY <2>1, <2>3, <2>6 DEF PromptInv, OnePublisher
  <2>11. NeedsHold'
    <3>1. \A d \in Claims : d # c /\ Needs(d)' => Needs(d)
      BY <1>1, <2>1, <2>6 DEF Needs, Waits, Pending, Releasing
    <3>2. QED
      BY <2>4, <2>5, <3>1, NeedHolds DEF NeedsHold
  <2>12. QED
    BY <2>7, <2>8, <2>9, <2>10, <2>11 DEF PromptInv
<1>4. QED
  BY <1>2, <1>3 DEF TryLock

\* The first run under the claim, whose lock is held.
LEMMA PromptDispatchOk ==
  ASSUME TypeOK, PromptInv, [Next]_vars, DispatchOk
  PROVE  PromptInv'
<1> DEFINE c == disp.claim
<1>1. /\ c \in Claims /\ msg[c].state = "out" /\ disp.pc = "dispatch"
      /\ disp'.claim = c /\ disp'.pc = "ack"
      /\ UNCHANGED <<locks, msg, inbox, hooks, reports>>
  BY NeedHolds DEF DispatchOk, Goto, kv, stream
<1>2. PICK r \in RunIds : /\ runs[r].phase = "none"
                          /\ runs' = [runs EXCEPT ![r] = [phase |-> "running", claim |-> c]]
  BY DEF DispatchOk, StartRun
<1>3. \A s \in RunIds : runs'[s] = IF s = r THEN [phase |-> "running", claim |-> c]
                                    ELSE runs[s]
  BY <1>2 DEF TypeOK, RunsTypeOK
<1>4. Needs(c) /\ Taken(c) /\ Holds(c)
  BY <1>1, NeedHolds DEF Needs, Waits, Pending, Closing
<1>5. \A s \in RunIds : runs[s].phase # "none" =>
        /\ s # r /\ runs'[s] = runs[s] /\ runs[s].claim # c
        /\ msg[runs[s].claim].state = "done"
  BY <1>1, <1>2, <1>3 DEF PromptInv, RunIsSettled
<1>6. OneCopy'
  BY <1>1 DEF PromptInv, OneCopy, HasCopy
<1>7. RunIsSettled'
  BY <1>1, <1>3, <1>5 DEF RunIsSettled
<1>8. OneRunPerClaim'
  BY <1>3, <1>5 DEF PromptInv, OneRunPerClaim
<1>9. OneReportPerRun'
  BY <1>1, <1>5 DEF PromptInv, OneReportPerRun, Releasing
<1>10. OnePublisher'
  BY <1>1 DEF PromptInv, OnePublisher
<1>11. NeedsHold'
  <2>1. \A d \in Claims : Needs(d)' => Needs(d) \/ d = c
    BY <1>1, <1>3, <1>5 DEF Needs, Waits, Pending, Releasing
  <2>2. QED BY <1>1, <1>4, <2>1, NeedHolds, HoldsKept DEF NeedsHold
<1>12. QED
  BY <1>6, <1>7, <1>8, <1>9, <1>10, <1>11 DEF PromptInv

\* A report is taken from a running run, once.
LEMMA PromptReport ==
  ASSUME Prompt, TypeOK, PromptInv, [Next]_vars,
         NEW p \in Reports, NEW r \in RunIds, Report(p, r)
  PROVE  PromptInv'
<1> DEFINE c == runs[r].claim
<1>1. /\ runs[r].phase = "running" /\ c \in Claims /\ Needs(c)
      /\ UNCHANGED <<locks, msg, inbox, disp, hooks>>
  BY NoSurprise, NeedHolds DEF Report, kv, stream
<1>2. /\ \A s \in RunIds : runs'[s] = IF s = r THEN [phase |-> "reported", claim |-> c]
                                       ELSE runs[s]
      /\ \A q \in Reports : reports'[q] = IF q = p THEN [pc |-> "upsert", claim |-> c]
                                           ELSE reports[q]
  BY DEF Report, TypeOK, RunsTypeOK, ReportsTypeOK
<1>3. \A s \in RunIds : /\ runs'[s].phase # "none" <=> runs[s].phase # "none"
                        /\ runs'[s].claim = runs[s].claim
                        /\ runs'[s].phase = "running" => runs[s].phase = "running"
  BY <1>1, <1>2
<1>4. OneCopy' /\ RunIsSettled'
  BY <1>1, <1>3, SettledFrame
<1>5. OneRunPerClaim'
  BY <1>3 DEF PromptInv, OneRunPerClaim
<1>6. OnePublisher'
  BY <1>1 DEF PromptInv, OnePublisher
<1>7. OneReportPerRun'
  <2>1. \A q \in Reports : Releasing(q) => reports[q].claim # c
    <3>1. ASSUME NEW q \in Reports, Releasing(q), reports[q].claim = c PROVE FALSE
      <4>1. PICK s \in RunIds : runs[s] = [phase |-> "reported", claim |-> c]
        BY <3>1 DEF PromptInv, OneReportPerRun
      <4>2. s = r
        BY <1>1, <4>1 DEF PromptInv, OneRunPerClaim
      <4>3. QED BY <1>1, <4>1, <4>2
    <3>2. QED BY <3>1
  <2>2. \A q \in Reports : q # p /\ Releasing(q)' =>
          Releasing(q) /\ reports'[q].claim = reports[q].claim
    BY <1>2 DEF Releasing
  <2>3. \A q \in Reports : q # p /\ Releasing(q)' =>
          \E s \in RunIds : runs'[s] = [phase |-> "reported", claim |-> reports[q].claim]
    BY <1>1, <1>2, <2>2 DEF PromptInv, OneReportPerRun
  <2>4. runs'[r] = [phase |-> "reported", claim |-> reports'[p].claim]
    BY <1>2
  <2>5. \A q, t \in Reports :
          Releasing(q)' /\ Releasing(t)' /\ reports'[q].claim = reports'[t].claim => q = t
    <3>1. \A q \in Reports : q # p /\ Releasing(q)' => reports'[q].claim # reports'[p].claim
      BY <1>2, <2>1, <2>2
    <3>2. QED BY <2>2, <3>1 DEF PromptInv, OneReportPerRun
  <2>6. QED BY <2>2, <2>3, <2>4, <2>5 DEF OneReportPerRun
<1>8. NeedsHold'
  <2>1. \A d \in Claims : Needs(d)' => Needs(d) \/ d = c
    BY <1>1, <1>2, <1>3 DEF Needs, Waits, Pending, Releasing
  <2>2. QED BY <1>1, <2>1, NeedHolds, HoldsKept DEF NeedsHold
<1>9. QED
  BY <1>4, <1>5, <1>6, <1>7, <1>8 DEF PromptInv

\* Whoever frees a lock, no work that needs it is left under its claim.
LEMMA PromptFreed ==
  ASSUME TypeOK, PromptInv, [Next]_vars, NEW k \in Keys, locks[k] # NoClaim,
         locks' = [locks EXCEPT ![k] = NoClaim],
         UNCHANGED <<msg, hooks, runs>>, OneCopy', RunIsSettled',
         \A q \in Reports :
           Releasing(q)' => Releasing(q) /\ reports'[q].claim = reports[q].claim,
         \A d \in Claims : Waits(d)' => Waits(d),
         \A d \in Claims : Needs(d)' => d # locks[k]
  PROVE  PromptInv'
<1>1. \A d \in Claims : Taken(d) => Key(d) \in Keys
  BY PipelineAssumption DEF Key, TypeOK, StreamTypeOK, Taken
<1>2. \A d \in Claims : d # locks[k] /\ Taken(d) /\ Holds(d) => Holds(d)'
  BY <1>1 DEF Holds, Key, TypeOK, KVTypeOK
<1>3. OneRunPerClaim' /\ OneReportPerRun' /\ OnePublisher'
  BY DEF PromptInv, OneRunPerClaim, OneReportPerRun, OnePublisher
<1>4. \A d \in Claims : Needs(d)' => Needs(d)
  BY DEF Needs
<1>5. NeedsHold'
  BY <1>2, <1>4, NeedHolds DEF NeedsHold
<1>6. QED BY <1>3, <1>5 DEF PromptInv

\* A run's message is settled, or about to be.
LEMMA RunDoesNotWait ==
  ASSUME TypeOK, PromptInv, NEW r \in RunIds, runs[r].phase # "none"
  PROVE  ~Waits(runs[r].claim) /\ msg[runs[r].claim].state # "unsent"
<1> DEFINE c == runs[r].claim
<1>1. CASE msg[c].state = "done"
  BY <1>1 DEF Waits, Pending
<1>2. CASE disp.claim = c /\ disp.pc = "ack"
  BY <1>2, NeedHolds DEF Waits, Closing
<1>3. QED BY <1>1, <1>2 DEF PromptInv, RunIsSettled

\* The report's run is over and its message settled: nothing is left to do
\* under the claim whose lock it gives back.
LEMMA PromptReportRelease ==
  ASSUME TypeOK, PromptInv, [Next]_vars, NEW p \in Reports, ReportRelease(p)
  PROVE  PromptInv'
<1> DEFINE c == reports[p].claim
<1>1. /\ Releasing(p) /\ c \in Claims /\ Key(c) \in Keys /\ locks[Key(c)] = c
      /\ UNCHANGED <<msg, inbox, disp, hooks, runs>>
  BY ReportedClaim, NeedHolds DEF ReportRelease, Releasing, stream, Holds
<1>2. /\ ~Releasing(p)'
      /\ \A q \in Reports : q # p => reports'[q] = reports[q]
  BY DEF ReportRelease, ReportGoto, ReportIdle, After, Releasing, TypeOK, ReportsTypeOK
<1>3. /\ \A q \in Reports :
           Releasing(q)' => q # p /\ Releasing(q) /\ reports'[q] = reports[q]
      /\ \A d \in Claims : Waits(d)' => Waits(d)
  BY <1>1, <1>2 DEF Releasing, Waits, Pending
<1>4. OneCopy' /\ RunIsSettled'
  BY <1>1, SettledFrame
<1>5. CASE UNCHANGED locks
  BY <1>1, <1>3, <1>4, <1>5, PromptFrame DEF LessNeed
<1>6. CASE locks' = [locks EXCEPT ![Key(c)] = NoClaim]
  <2>1. PICK r \in RunIds : runs[r] = [phase |-> "reported", claim |-> c]
    BY <1>1 DEF PromptInv, OneReportPerRun
  <2>2. ~Waits(c) /\ msg[c].state # "unsent"
    BY <2>1, RunDoesNotWait
  <2>3. \A h \in Hooks : hooks[h].pc = "publish" => hooks[h].claim # c
    BY <2>2 DEF PromptInv, OnePublisher
  <2>4. \A s \in RunIds : runs[s].phase = "running" => runs[s].claim # c
    BY <2>1 DEF PromptInv, OneRunPerClaim
  <2>5. \A q \in Reports : q # p /\ Releasing(q) => reports[q].claim # c
    BY <1>1 DEF PromptInv, OneReportPerRun
  <2>6. \A d \in Claims : Needs(d)' => d # c
    BY <1>1, <1>3, <2>2, <2>3, <2>4, <2>5 DEF Needs
  <2>7. c # NoClaim
    BY <1>1, PipelineAssumption
  <2>8. QED BY <1>1, <1>3, <1>4, <1>6, <2>6, <2>7, PromptFreed
<1>7. QED
  BY <1>5, <1>6 DEF ReportRelease, ReleaseLock, LeaveLock

\* What the callback gives back on the toggle's account is its own lock, and
\* no run was started under it.
LEMMA SkippedIsUnused ==
  ASSUME Prompt, TypeOK, PromptInv, SkipRelease
  PROVE  /\ disp.claim \in Claims /\ Key(disp.claim) \in Keys
         /\ locks[Key(disp.claim)] = disp.claim
         /\ \A r \in RunIds : runs[r].phase # "none" => runs[r].claim # disp.claim
         /\ UNCHANGED <<msg, inbox, hooks, runs, reports>>
         /\ disp'.claim = disp.claim /\ disp'.pc = "skipSelect"
<1> DEFINE c == disp.claim
<1>1. /\ c \in Claims /\ msg[c].state = "out" /\ disp.pc = "skipRelease"
      /\ disp'.claim = c /\ disp'.pc = "skipSelect"
      /\ UNCHANGED <<msg, inbox, hooks, runs, reports>>
  BY NeedHolds DEF SkipRelease, Goto, stream
<1>2. Taken(c) /\ Holds(c)
  BY <1>1, NeedHolds DEF Needs, Waits, Pending, Closing
<1>3. Key(c) \in Keys
  BY <1>2, PipelineAssumption DEF Key, TypeOK, StreamTypeOK, Taken
<1>4. \A r \in RunIds : runs[r].phase # "none" => runs[r].claim # c
  BY <1>1 DEF PromptInv, RunIsSettled
<1>5. QED BY <1>1, <1>2, <1>3, <1>4 DEF Holds

LEMMA PromptSkipRelease ==
  ASSUME Prompt, TypeOK, PromptInv, [Next]_vars, SkipRelease
  PROVE  PromptInv'
<1> DEFINE c == disp.claim
<1>1. /\ c \in Claims /\ Key(c) \in Keys /\ locks[Key(c)] = c
      /\ \A r \in RunIds : runs[r].phase # "none" => runs[r].claim # c
      /\ UNCHANGED <<msg, inbox, hooks, runs, reports>>
      /\ disp'.claim = c /\ disp'.pc = "skipSelect"
  BY SkippedIsUnused
<1>2. GoesOn /\ msg[c].state = "out"
  BY GoingOn, NeedHolds DEF SkipRelease
<1>3. /\ OneCopy' /\ RunIsSettled'
      /\ \A d \in Claims : Waits(d)' => Waits(d)
  BY <1>2, GoingOnKeeps
<1>4. CASE UNCHANGED locks
  BY <1>2, <1>4, PromptGoesOn
<1>5. CASE locks' = [locks EXCEPT ![Key(c)] = NoClaim]
  <2>1. ~Waits(c)'
    BY <1>1 DEF Waits, Closing
  <2>2. \A h \in Hooks : hooks[h].pc = "publish" => hooks[h].claim # c
    BY <1>2, NeedHolds
  <2>3. \A q \in Reports : Releasing(q) => reports[q].claim # c
    <3>1. ASSUME NEW q \in Reports, Releasing(q) PROVE reports[q].claim # c
      <4>1. PICK r \in RunIds : runs[r] = [phase |-> "reported", claim |-> reports[q].claim]
        BY <3>1 DEF PromptInv, OneReportPerRun
      <4>2. QED BY <1>1, <4>1
    <3>2. QED BY <3>1
  <2>4. \A d \in Claims : Needs(d)' => d # c
    BY <1>1, <2>1, <2>2, <2>3 DEF Needs, Releasing
  <2>5. c # NoClaim
    BY <1>1, PipelineAssumption
  <2>6. QED BY <1>1, <1>3, <1>5, <2>4, <2>5, PromptFreed DEF Releasing
<1>6. QED
  BY <1>4, <1>5 DEF SkipRelease, ReleaseLock, LeaveLock

LEMMA PromptLockExpires ==
  ASSUME Prompt, TypeOK, PromptInv, [Next]_vars, NEW k \in Keys, LockExpires(k)
  PROVE  PromptInv'
<1>1. /\ locks[k] # NoClaim /\ Abandoned(locks[k])
      /\ locks' = [locks EXCEPT ![k] = NoClaim]
      /\ UNCHANGED <<msg, inbox, disp, hooks, reports, runs>>
  BY NoSurprise DEF LockExpires, stream
<1>2. OneCopy' /\ RunIsSettled'
  BY <1>1, SettledFrame
<1>3. \A d \in Claims : Needs(d)' => d # locks[k]
  BY <1>1 DEF Abandoned, Needs, Waits, Pending
<1>4. QED
  BY <1>1, <1>2, <1>3, PromptFreed DEF Releasing, Waits, Pending

LEMMA PromptStep ==
  ASSUME Prompt, TypeOK, PromptInv, [Next]_vars
  PROVE  PromptInv'
<1>1. CASE UNCHANGED vars
  BY <1>1, PromptQuiet
<1>2. ASSUME NEW h \in Hooks, Receive(h) \/ HookStep(h) PROVE PromptInv'
  BY <1>2, PromptQuiet, PromptTryLock, PromptPublish DEF HookStep
<1>3. ASSUME NEW c \in Claims, Deliver(c) \/ AckWaitOver(c) PROVE PromptInv'
  <2>1. ~AckWaitOver(c)
    BY NoSurprise DEF AckWaitOver, PromptInv, OneCopy
  <2>2. QED BY <1>3, <2>1, PromptDeliver
<1>4. CASE Take
  BY <1>4, PromptTake
<1>5. CASE DispStep
  <2>1. CASE \/ CheckToggle \/ TryMark \/ UnmarkDispatched \/ DispatchFails
             \/ SkipSelect \/ SkipUpdate \/ SkipDigest
    <3>1. GoesOn
      BY <2>1, GoingOn
    <3>2. UNCHANGED locks
      BY <2>1 DEF CheckToggle, TryMark, UnmarkDispatched, DispatchFails, SkipSelect,
                  SkipUpdate, SkipDigest, kv
    <3>3. QED BY <3>1, <3>2, PromptGoesOn
  <2>2. ~SettleLost
    BY NoSurprise DEF SettleLost
  <2>3. QED
    BY <1>5, <2>1, <2>2, PromptDispatchOk, PromptSettle, PromptSkipRelease DEF DispStep
<1>6. ASSUME NEW p \in Reports, ReportStep(p) PROVE PromptInv'
  BY <1>6, PromptQuiet, PromptReportRelease DEF ReportStep
<1>7. ASSUME NEW p \in Reports, NEW r \in RunIds, Report(p, r) PROVE PromptInv'
  BY <1>7, PromptReport
<1>8. ASSUME NEW r \in RunIds, RunnerDies(r) PROVE PromptInv'
  BY <1>8, PromptQuiet
<1>9. ASSUME NEW k \in Keys, LockExpires(k) PROVE PromptInv'
  BY <1>9, PromptLockExpires
<1>10. CASE SetRepairEnabled \/ \E a \in AlertIds : MarkerExpires(a)
  BY <1>10, PromptQuiet
<1>11. ~Crash
  BY NoSurprise DEF Crash
<1>12. QED
  BY <1>1, <1>2, <1>3, <1>4, <1>5, <1>6, <1>7, <1>8, <1>9, <1>10, <1>11 DEF Next

LEMMA PromptInvariant ==
  ASSUME Prompt
  PROVE  Spec => [](TypeOK /\ PromptInv)
<1>1. Init => TypeOK /\ PromptInv
  BY TypeInit, PromptInit
<1>2. TypeOK /\ PromptInv /\ [Next]_vars => (TypeOK /\ PromptInv)'
  BY TypeStep, PromptStep
<1>3. QED
  BY <1>1, <1>2, PTL DEF Spec

\* Two repairs of one (service, error) are never under way at once, however
\* the operator toggles repair and whenever markers expire, as long as each
\* delivery is settled before its message is sent again: the close-out of a
\* disabled alert frees its own lock only (lock.go:23-26, dispatcher.go:79-88,
\* 150-157).
THEOREM ToggleMutualExclusion ==
  ASSUME Prompt
  PROVE  Spec => []RepairMutex
<1>1. TypeOK /\ PromptInv => RepairMutex
  BY NeedHolds DEF PromptInv, OneRunPerClaim, Holds, RepairMutex
<1>2. QED
  BY <1>1, PromptInvariant, PTL

\* Under the same conditions every dispatch is made by the lock's holder.
THEOREM ToggleDispatcherIsHolder ==
  ASSUME Prompt
  PROVE  Spec => []DispatchHoldsLock
<1>1. TypeOK /\ PromptInv => DispatchHoldsLock
  <2>1. ASSUME TypeOK, PromptInv, disp.pc = "dispatch" PROVE locks[Key(disp.claim)] = disp.claim
    BY <2>1, NeedHolds DEF Needs, Waits, Pending, Closing, Holds
  <2>2. QED BY <2>1 DEF DispatchHoldsLock
<1>2. QED
  BY <1>1, PromptInvariant, PTL

LEMMA PromptFlapLockStep ==
  ASSUME Prompt, TypeOK, PromptInv, [Next]_vars
  PROVE  [FL!Next]_(FL!vars)
<1>1. CASE UNCHANGED vars
  BY <1>1, FlapLockQuiet
<1>2. ASSUME NEW h \in Hooks, Receive(h) \/ HookStep(h)
      PROVE  [FL!Next]_(FL!vars)
  BY <1>2, FlapLockQuiet, FlapLockTryLock DEF HookStep
<1>3. CASE \/ \E c \in Claims : Deliver(c) \/ AckWaitOver(c)
           \/ Take \/ Crash \/ SetRepairEnabled
           \/ \E a \in AlertIds : MarkerExpires(a)
  BY <1>3, FlapLockQuiet
<1>4. ASSUME NEW c \in Claims, Key(c) \in Keys, c \notin RepairingClaims,
             locks[Key(c)] = c, ReleaseLock(c) \/ LeaveLock(c), UNCHANGED <<msg, runs>>
      PROVE  [FL!Next]_(FL!vars)
  BY <1>4, FlapLockStutter, FlapLockRelease DEF ReleaseLock, LeaveLock, Taken
<1>5. CASE DispStep
  <2>1. CASE DispatchOk
    <3>1. disp.claim \in Claims /\ msg[disp.claim].state = "out" /\ disp.pc = "dispatch"
      BY <2>1, NeedHolds DEF DispatchOk
    <3>2. Holds(disp.claim)
      BY <3>1, NeedHolds DEF Needs, Waits, Pending, Closing
    <3>3. disp.claim \notin StartedClaims
      BY <3>1 DEF StartedClaims, PromptInv, RunIsSettled
    <3>4. QED BY <2>1, <3>2, <3>3, FlapLockStart
  <2>2. CASE SkipRelease
    <3>1. disp.claim \notin RepairingClaims
      BY <2>2, SkippedIsUnused DEF RepairingClaims
    <3>2. QED BY <1>4, <2>2, <3>1, SkippedIsUnused DEF SkipRelease
  <2>3. QED
    BY <1>5, <2>1, <2>2, NoSurprise, FlapLockQuiet DEF DispStep
<1>6. ASSUME NEW p \in Reports, ReportStep(p)
      PROVE  [FL!Next]_(FL!vars)
  <2>1. CASE ReportRelease(p)
    <3> DEFINE c == reports[p].claim
    <3>1. /\ c \in Claims /\ Key(c) \in Keys /\ locks[Key(c)] = c
          /\ UNCHANGED <<msg, runs>>
      BY <2>1, ReportedClaim, NeedHolds DEF ReportRelease, Releasing, Holds, stream
    <3>2. c \notin RepairingClaims
      <4>1. PICK r \in RunIds : runs[r] = [phase |-> "reported", claim |-> c]
        BY <2>1 DEF PromptInv, OneReportPerRun, Releasing, ReportRelease
      <4>2. QED BY <4>1 DEF RepairingClaims, PromptInv, OneRunPerClaim
    <3>3. QED BY <1>4, <2>1, <3>1, <3>2 DEF ReportRelease
  <2>2. QED BY <1>6, <2>1, FlapLockQuiet DEF ReportStep
<1>7. ASSUME NEW r \in RunIds, \/ RunnerDies(r)
                               \/ \E p \in Reports : Report(p, r)
      PROVE  [FL!Next]_(FL!vars)
  <2>1. runs[r].phase = "running" /\ UNCHANGED <<locks, msg>>
    BY <1>7, NoSurprise DEF Report, RunnerDies, kv, stream
  <2>2. \A s \in RunIds :
          runs[s].phase = "running" /\ runs[s].claim = runs[r].claim => s = r
    BY <2>1 DEF PromptInv, OneRunPerClaim
  <2>3. QED BY <1>7, <2>1, <2>2, FlapLockFinish DEF Report, RunnerDies
<1>8. ASSUME NEW k \in Keys, LockExpires(k)
      PROVE  [FL!Next]_(FL!vars)
  BY <1>8, NoSurprise, FlapLockExpires
<1>9. QED
  BY <1>1, <1>2, <1>3, <1>5, <1>6, <1>7, <1>8 DEF Next

\* Under the same conditions the pipeline implements FlapLock: the close-out of
\* a disabled alert is a release no repair is at work under, and neither the
\* toggle nor a lost marker starts a second repair under one claim.
THEOREM ToggleFlapLockImplemented ==
  ASSUME Prompt
  PROVE  Spec => ImplementsFlapLock
<1>1. Init => FL!Init
  BY FlapLockInit
<1>2. TypeOK /\ PromptInv /\ [Next]_vars => [FL!Next]_(FL!vars)
  BY PromptFlapLockStep
<1>3. QED
  BY <1>1, <1>2, PromptInvariant, PTL DEF Spec, ImplementsFlapLock, FL!Spec
=============================================================================
