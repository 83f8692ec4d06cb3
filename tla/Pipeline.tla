------------------------------ MODULE Pipeline ------------------------------
(***************************************************************************)
(* The alert-to-repair pipeline of the Re:vi gateway: POST /v1/alerts      *)
(* takes the flap lock and publishes onto JetStream, the durable consumer  *)
(* dispatches a repair run under an idempotency marker, and the run's      *)
(* POST /v1/digest/entry releases the lock and records the outcome.        *)
(*                                                                         *)
(* Every KV, stream, SQL or HTTP call that changes shared state is a step  *)
(* of its own, so the handlers interleave as goroutines do, and the        *)
(* process may crash between any two of them.                              *)
(*                                                                         *)
(* A claim is one successful Create of a flap lock (in NATS, the revision  *)
(* of the lock entry).  At most one message is published under a claim, so *)
(* claims also name the messages.                                          *)
(***************************************************************************)
EXTENDS Naturals, Sequences, FiniteSets

CONSTANTS
  AlertIds,     \* alert_id values: alertname + "-" + fingerprint
  Keys,         \* flap-lock keys
  KeyOf,        \* queue.LockKey(service, error) of each alert_id
  Claims,       \* bound: how often a flap lock is taken in a behaviour
  NoClaim, NoAlert,
  RunIds,       \* bound: how many repair runs start in a behaviour
  Hooks,        \* bound: concurrent POST /v1/alerts requests
  Reports,      \* bound: concurrent POST /v1/digest/entry requests
  Batches,      \* the firing alerts of a webhook call, in mapAlerts' order
  MaxAttempts,  \* maxDispatchAttempts
  Env           \* what the environment may do besides its duty

EnvEvents ==
  { "crash",        \* the gateway process stops and restarts
    "ackwait",      \* AckWait runs out while a copy is still being handled
    "acklost",      \* an Ack, Nak or Term never reaches the server
    "kv",           \* a KV call fails (Create may fail after taking effect)
    "sql",          \* a SQLite statement fails
    "publish",      \* JS.Publish fails (perhaps after taking effect)
    "reject",       \* repository_dispatch fails
    "ambiguous",    \* it fails for the caller although GitHub accepted it
    "runnerdies",   \* a run ends without its final report
    "resend",       \* a run's final report is delivered again
    "oldrunner",    \* a report lacks service_name or error_summary
    "toggle",       \* POST /v1/admin/repair-enabled
    "lockttl",      \* a lock nobody works under reaches its TTL
    "lockttlEarly", \* a lock somebody still works under reaches its TTL
    "markerttl" }   \* a dispatch marker reaches its TTL

ASSUME PipelineAssumption ==
  /\ KeyOf \in [AlertIds -> Keys]
  /\ NoClaim \notin Claims /\ NoAlert \notin AlertIds
  /\ Batches \subseteq Seq(AlertIds) \ {<<>>}
  /\ MaxAttempts \in Nat \ {0}
  /\ Env \subseteq EnvEvents

VARIABLES
  locks,    \* Locks bucket: the claim holding each key, or NoClaim
  marker,   \* Dispatched bucket: is there a marker for the alert_id
  enabled,  \* Config bucket: repair.enabled
  msg,      \* the stream's message of each claim
  inbox,    \* deliveries buffered by the pull consumer
  disp,     \* the dispatcher callback (one at a time)
  hooks,    \* the /v1/alerts requests being handled
  reports,  \* the /v1/digest/entry requests being handled
  runs,     \* repair runs on the target repository
  row,      \* SQLite row of each alert_id: outcome, and the claim it is about
  digest,   \* keys with an entry in the digest buffer
  sent,     \* history: runs confirmed (204) under the alert_id's marker
  skipped,  \* history: claims closed because repair was disabled
  kept      \* history: claims that ended with their lock left alone

kv     == <<locks, marker, enabled, digest>>
stream == <<msg, inbox>>
hist   == <<sent, skipped, kept>>
vars   == <<locks, marker, enabled, msg, inbox, disp, hooks, reports, runs,
            row, digest, sent, skipped, kept>>

May(e) == e \in Env
Key(c) == KeyOf[msg[c].alert]
Pending(c) == msg[c].state \in {"queued", "out"}
HasCopy(c) == disp.claim = c \/ \E d \in inbox : d.claim = c

HookIdle   == [pc |-> "idle", todo |-> <<>>, claim |-> NoClaim]
ReportIdle == [pc |-> "idle", claim |-> NoClaim]
DispIdle   == [pc |-> "idle", claim |-> NoClaim, n |-> 0]

HookPc   == {"idle", "lock", "halt", "publish", "insert"}
ReportPc == {"idle", "upsert", "release", "select", "update"}
DispPc   == {"idle", "toggle", "mark", "dispatch", "unmark", "ack", "nak",
             "term", "skipRelease", "skipSelect", "skipUpdate", "skipDigest"}
-----------------------------------------------------------------------------
(* Calls shared by the handlers.                                           *)

\* Mutant: the lock is Put, whoever holds it.
LockFree_Put(k) == k \in Keys

\* TryLock's Create succeeds only on a missing key.
LockFree(k) == locks[k] = NoClaim

\* Mutant: the marker is not looked at.
MarkerTaken_Ignored(a) == a \notin AlertIds

\* TryMarkDispatched's Create finds the key.
MarkerTaken(a) == marker[a]

\* The end of claim c deletes no lock: its TTL has to.
LeaveLock(c) == kept' = kept \union {c} /\ UNCHANGED locks

\* Locks.Delete(LockKey(..)): by key alone, whatever claim holds it; a
\* failure is only logged.
ReleaseLock(c) ==
  \/ locks' = [locks EXCEPT ![Key(c)] = NoClaim] /\ UNCHANGED kept
  \/ May("kv") /\ LeaveLock(c)

\* UpsertDigestEntry, seen from its callers: the entry is there, or an error.
UpsertDigest(k, ok) ==
  IF ok THEN digest' = digest \union {k} ELSE May("kv") /\ UNCHANGED digest

\* RecordOutcome's SELECT: a recorded outcome ends the call; a failed SELECT
\* reads as no outcome and goes on.
OutcomeSeen(a, seen) ==
  \/ seen = (row[a].state \in {"skipped", "reported"})
  \/ May("sql") /\ seen = FALSE

\* RecordOutcome's UPDATE: touches an existing row, whatever it holds by now.
UpdateRow(c, outcome) ==
  LET a == msg[c].alert IN
  \/ row' = IF row[a].state = "absent" THEN row
            ELSE [row EXCEPT ![a] = [state |-> outcome, by |-> c]]
  \/ May("sql") /\ UNCHANGED row
-----------------------------------------------------------------------------
(* POST /v1/alerts: the loop over the batch and alerts.Publish.            *)

\* Mutant: the loop runs one step past the batch.
Advance_OffByOne(h) ==
  hooks' = [hooks EXCEPT ![h] =
              IF @.todo = <<>> THEN HookIdle
              ELSE [pc |-> "lock", todo |-> Tail(@.todo), claim |-> NoClaim]]

Advance(h) ==
  LET rest == Tail(hooks[h].todo) IN
  hooks' = [hooks EXCEPT ![h] =
              IF rest = <<>> THEN HookIdle
              ELSE [pc |-> "lock", todo |-> rest, claim |-> NoClaim]]

HookGoto(h, pc, c) ==
  hooks' = [hooks EXCEPT ![h] = [pc |-> pc, todo |-> hooks[h].todo, claim |-> c]]

\* An error return answers 500 and leaves the rest of the batch alone.
Abort(h) == hooks' = [hooks EXCEPT ![h] = HookIdle]

Receive(h) ==
  /\ hooks[h].pc = "idle"
  /\ \E b \in Batches :
       hooks' = [hooks EXCEPT ![h] =
                   [pc |-> "lock", todo |-> b, claim |-> NoClaim]]
  /\ UNCHANGED <<kv, stream, disp, reports, runs, row, hist>>

TakeClaim(c, a) ==
  /\ msg[c].state = "fresh"
  /\ locks' = [locks EXCEPT ![KeyOf[a]] = c]
  /\ msg' = [msg EXCEPT ![c] = [alert |-> a, state |-> "unsent", n |-> 0]]

TryLock(h) ==
  LET a == Head(hooks[h].todo) IN
  /\ hooks[h].pc = "lock"
  /\ \/ /\ LockFree(KeyOf[a])
        /\ \E c \in Claims :
             /\ TakeClaim(c, a)
             /\ \/ HookGoto(h, "publish", c)
                \/ May("kv") /\ Abort(h)
     \/ /\ ~LockFree(KeyOf[a])
        /\ HookGoto(h, "halt", NoClaim)
        /\ UNCHANGED <<locks, msg>>
     \/ /\ May("kv")
        /\ Abort(h)
        /\ UNCHANGED <<locks, msg>>
  /\ UNCHANGED <<marker, enabled, inbox, disp, reports, runs, row, digest, hist>>

\* The halt marker in today's digest; its failure is only logged.
Halt(h) ==
  /\ hooks[h].pc = "halt"
  /\ \E ok \in BOOLEAN : UpsertDigest(KeyOf[Head(hooks[h].todo)], ok)
  /\ Advance(h)
  /\ UNCHANGED <<locks, marker, enabled, stream, disp, reports, runs, row, hist>>

SetMsg(c, state, n) ==
  msg' = [msg EXCEPT ![c] = [alert |-> msg[c].alert, state |-> state, n |-> n]]

Enqueue(c) == SetMsg(c, "queued", msg[c].n)

Publish(h) ==
  /\ hooks[h].pc = "publish"
  /\ \/ /\ Enqueue(hooks[h].claim)
        /\ \/ HookGoto(h, "insert", hooks[h].claim)
           \/ May("publish") /\ Abort(h)
     \/ May("publish") /\ Abort(h) /\ UNCHANGED msg
  /\ UNCHANGED <<kv, inbox, disp, reports, runs, row, hist>>

\* ON CONFLICT DO NOTHING: an existing row stays as it is.
InsertRun(h) ==
  LET a == Head(hooks[h].todo) IN
  /\ hooks[h].pc = "insert"
  /\ \/ row' = IF row[a].state # "absent" THEN row
               ELSE [row EXCEPT ![a] = [state |-> "open", by |-> NoClaim]]
     \/ May("sql") /\ UNCHANGED row
  /\ Advance(h)
  /\ UNCHANGED <<kv, stream, disp, reports, runs, hist>>

HookStep(h) == TryLock(h) \/ Halt(h) \/ Publish(h) \/ InsertRun(h)
-----------------------------------------------------------------------------
(* The JetStream consumer (external): explicit ack, redelivery.            *)

Deliver(c) ==
  /\ msg[c].state = "queued"
  /\ LET n == IF msg[c].n = MaxAttempts THEN MaxAttempts ELSE msg[c].n + 1 IN
     /\ SetMsg(c, "out", n)
     /\ inbox' = inbox \union {[claim |-> c, n |-> n]}
  /\ UNCHANGED <<kv, disp, hooks, reports, runs, row, hist>>

\* A Nak, or AckWait running out: the message is due again unless it is done.
Requeue(c) ==
  SetMsg(c, IF msg[c].state = "done" THEN "done" ELSE "queued", msg[c].n)

AckWaitOver(c) ==
  /\ msg[c].state = "out"
  /\ ~HasCopy(c) \/ May("ackwait")
  /\ Requeue(c)
  /\ UNCHANGED <<kv, inbox, disp, hooks, reports, runs, row, hist>>
-----------------------------------------------------------------------------
(* The dispatcher callback.                                                *)

Goto(pc) == disp' = [pc |-> pc, claim |-> disp.claim, n |-> disp.n]

Take ==
  /\ disp.pc = "idle"
  /\ \E d \in inbox :
       /\ inbox' = inbox \ {d}
       /\ disp' = [pc |-> "toggle", claim |-> d.claim, n |-> d.n]
  /\ UNCHANGED <<kv, msg, hooks, reports, runs, row, hist>>

CheckToggle ==
  /\ disp.pc = "toggle"
  /\ \/ enabled /\ Goto("mark")
     \/ ~enabled /\ Goto("skipRelease")
     \/ May("kv") /\ Goto("nak")
  /\ UNCHANGED <<kv, stream, hooks, reports, runs, row, hist>>

TryMark ==
  LET a == msg[disp.claim].alert IN
  /\ disp.pc = "mark"
  /\ \/ /\ ~MarkerTaken(a)
        /\ marker' = [marker EXCEPT ![a] = TRUE]
        /\ Goto("dispatch") \/ (May("kv") /\ Goto("nak"))
     \/ /\ MarkerTaken(a)
        /\ Goto("ack")
        /\ UNCHANGED marker
     \/ /\ May("kv")
        /\ Goto("nak")
        /\ UNCHANGED marker
  /\ UNCHANGED <<locks, enabled, digest, stream, hooks, reports, runs, row, hist>>

StartRun(r) ==
  /\ runs[r].phase = "none"
  /\ runs' = [runs EXCEPT ![r] = [phase |-> "running", claim |-> disp.claim]]

\* 204 No Content: GitHub starts the workflow run.
DispatchOk ==
  /\ disp.pc = "dispatch"
  /\ \E r \in RunIds :
       /\ StartRun(r)
       /\ sent' = [sent EXCEPT ![msg[disp.claim].alert] = @ \union {r}]
  /\ Goto("ack")
  /\ UNCHANGED <<kv, stream, hooks, reports, row, skipped, kept>>

\* Another status, or no answer within the client's timeout: the run may
\* have been started all the same.
DispatchFails ==
  /\ disp.pc = "dispatch"
  /\ \/ May("reject") /\ UNCHANGED runs
     \/ May("ambiguous") /\ \E r \in RunIds : StartRun(r)
  /\ Goto("unmark")
  /\ UNCHANGED <<kv, stream, hooks, reports, row, hist>>

\* Mutant: a failing dispatch is retried for ever.
AfterFailure_Forever(n) == IF n > MaxAttempts THEN "term" ELSE "nak"

AfterFailure(n) == IF n >= MaxAttempts THEN "term" ELSE "nak"

\* Mutant: the roll-back is missing.
DeleteMarker_Missing(a) == a \in AlertIds /\ UNCHANGED marker

DeleteMarker(a) == marker' = [marker EXCEPT ![a] = FALSE]

UnmarkDispatched ==
  /\ disp.pc = "unmark"
  /\ \/ DeleteMarker(msg[disp.claim].alert)
     \/ May("kv") /\ UNCHANGED marker
  /\ Goto(AfterFailure(disp.n))
  /\ UNCHANGED <<locks, enabled, digest, stream, hooks, reports, runs, row, hist>>

\* Ack and Term remove the message for good, Nak asks for it again.
Settle ==
  /\ \/ /\ disp.pc \in {"ack", "term"}
        /\ SetMsg(disp.claim, "done", msg[disp.claim].n)
     \/ /\ disp.pc = "nak"
        /\ Requeue(disp.claim)
  /\ disp' = DispIdle
  /\ UNCHANGED <<kv, inbox, hooks, reports, runs, row, hist>>

SettleLost ==
  /\ May("acklost")
  /\ disp.pc \in {"ack", "term", "nak"}
  /\ disp' = DispIdle
  /\ UNCHANGED <<kv, stream, hooks, reports, runs, row, hist>>

\* skipDisabled, step by step.
SkipRelease ==
  /\ disp.pc = "skipRelease"
  /\ ReleaseLock(disp.claim)
  /\ Goto("skipSelect")
  /\ UNCHANGED <<marker, enabled, digest, stream, hooks, reports, runs, row, sent, skipped>>

SkipSelect ==
  /\ disp.pc = "skipSelect"
  /\ \E seen \in BOOLEAN :
       /\ OutcomeSeen(msg[disp.claim].alert, seen)
       /\ Goto(IF seen THEN "skipDigest" ELSE "skipUpdate")
  /\ UNCHANGED <<kv, stream, hooks, reports, runs, row, hist>>

SkipUpdate ==
  /\ disp.pc = "skipUpdate"
  /\ UpdateRow(disp.claim, "skipped")
  /\ Goto("skipDigest")
  /\ UNCHANGED <<kv, stream, hooks, reports, runs, hist>>

\* Mutant: the skipped message is asked for again.
AfterSkip_Nak == "nak"

AfterSkip == "ack"

SkipDigest ==
  /\ disp.pc = "skipDigest"
  /\ \E ok \in BOOLEAN : UpsertDigest(Key(disp.claim), ok)
  /\ skipped' = skipped \union {disp.claim}
  /\ Goto(AfterSkip)
  /\ UNCHANGED <<locks, marker, enabled, stream, hooks, reports, runs, row, sent, kept>>

DispStep ==
  \/ CheckToggle \/ TryMark \/ DispatchOk \/ DispatchFails \/ UnmarkDispatched
  \/ Settle \/ SettleLost
  \/ SkipRelease \/ SkipSelect \/ SkipUpdate \/ SkipDigest
-----------------------------------------------------------------------------
(* The run's final report: POST /v1/digest/entry.                          *)

\* The runner (external) posts once; "resend" covers a retried post.
Report(p, r) ==
  /\ reports[p].pc = "idle"
  /\ runs[r].phase = "running" \/ (May("resend") /\ runs[r].phase = "reported")
  /\ reports' = [reports EXCEPT ![p] =
                   [pc |-> "upsert", claim |-> runs[r].claim]]
  /\ runs' = [runs EXCEPT ![r] = [phase |-> "reported", claim |-> runs[r].claim]]
  /\ UNCHANGED <<kv, stream, disp, hooks, row, hist>>

RunnerDies(r) ==
  /\ May("runnerdies")
  /\ runs[r].phase = "running"
  /\ runs' = [runs EXCEPT ![r] = [phase |-> "dead", claim |-> runs[r].claim]]
  /\ UNCHANGED <<kv, stream, disp, hooks, reports, row, hist>>

\* Mutants: the outcome is recorded first; a failed upsert does not return.
After_OutcomeFirst == [upsert |-> "select", select |-> "update",
                       update |-> "release", release |-> "idle"]
OnUpsertError_Ignored == "release"

\* The order of the handler's calls; a failed upsert answers 500.
After == [upsert |-> "release", release |-> "select",
          select |-> "update", update |-> "idle"]
OnUpsertError == "idle"

ReportGoto(p, pc) ==
  reports' = [reports EXCEPT ![p] =
                IF pc = "idle" THEN ReportIdle
                ELSE [pc |-> pc, claim |-> reports[p].claim]]

ReportUpsert(p) ==
  /\ reports[p].pc = "upsert"
  /\ \E ok \in BOOLEAN :
       /\ UpsertDigest(msg[reports[p].claim].alert, ok)
       /\ ReportGoto(p, IF ok THEN After.upsert ELSE OnUpsertError)
  /\ UNCHANGED <<locks, marker, enabled, stream, disp, hooks, runs, row, hist>>

\* Best effort: the delete may fail, and a report that does not name the
\* lock's service and error skips it.
ReportRelease(p) ==
  /\ reports[p].pc = "release"
  /\ \/ ReleaseLock(reports[p].claim)
     \/ May("oldrunner") /\ LeaveLock(reports[p].claim)
  /\ ReportGoto(p, After.release)
  /\ UNCHANGED <<marker, enabled, digest, stream, disp, hooks, runs, row, sent, skipped>>

ReportSelect(p) ==
  /\ reports[p].pc = "select"
  /\ \E seen \in BOOLEAN :
       /\ OutcomeSeen(msg[reports[p].claim].alert, seen)
       /\ ReportGoto(p, IF seen THEN "idle" ELSE After.select)
  /\ UNCHANGED <<kv, stream, disp, hooks, runs, row, hist>>

ReportUpdate(p) ==
  /\ reports[p].pc = "update"
  /\ UpdateRow(reports[p].claim, "reported")
  /\ ReportGoto(p, After.update)
  /\ UNCHANGED <<kv, stream, disp, hooks, runs, hist>>

ReportStep(p) ==
  ReportUpsert(p) \/ ReportRelease(p) \/ ReportSelect(p) \/ ReportUpdate(p)
-----------------------------------------------------------------------------
(* The operator, the buckets' TTLs, and the process itself.                *)

SetRepairEnabled ==
  /\ May("toggle")
  /\ enabled' = ~enabled
  /\ UNCHANGED <<locks, marker, digest, stream, disp, hooks, reports, runs, row, hist>>

\* Nothing that was started under claim c is still on its way.
Abandoned(c) ==
  /\ \A h \in Hooks : hooks[h].claim # c
  /\ ~Pending(c) /\ ~HasCopy(c)
  /\ \A r \in RunIds : ~(runs[r].phase = "running" /\ runs[r].claim = c)
  /\ \A p \in Reports : reports[p].claim # c

\* Mutant: the Locks bucket has no TTL.
LockExpires_NoTTL(k) == k \notin Keys /\ UNCHANGED vars

\* lockTTL (4h): "lockttl" takes the comment at its word that it outlasts all
\* work done under the lock, "lockttlEarly" does not.
LockExpires(k) ==
  /\ locks[k] # NoClaim
  /\ May("lockttlEarly") \/ (May("lockttl") /\ Abandoned(locks[k]))
  /\ locks' = [locks EXCEPT ![k] = NoClaim]
  /\ UNCHANGED <<marker, enabled, digest, stream, disp, hooks, reports, runs, row, hist>>

\* dispatchedTTL (24h) cannot run out within one call of the callback.
MarkerExpires(a) ==
  /\ May("markerttl")
  /\ marker[a]
  /\ ~(disp.pc \in {"dispatch", "unmark"} /\ msg[disp.claim].alert = a)
  /\ marker' = [marker EXCEPT ![a] = FALSE]
  /\ sent' = [sent EXCEPT ![a] = {}]
  /\ UNCHANGED <<locks, enabled, digest, stream, disp, hooks, reports, runs, row, skipped, kept>>

\* Handlers, the callback and the client's buffer are gone; NATS and SQLite
\* keep what they have.
Crash ==
  /\ May("crash")
  /\ inbox' = {}
  /\ disp' = DispIdle
  /\ hooks' = [h \in Hooks |-> HookIdle]
  /\ reports' = [p \in Reports |-> ReportIdle]
  /\ UNCHANGED <<kv, msg, runs, row, hist>>
-----------------------------------------------------------------------------
Init ==
  /\ locks = [k \in Keys |-> NoClaim]
  /\ marker = [a \in AlertIds |-> FALSE]
  /\ enabled = TRUE   \* RepairEnabled reads a missing key as enabled
  /\ msg = [c \in Claims |-> [alert |-> NoAlert, state |-> "fresh", n |-> 0]]
  /\ inbox = {}
  /\ disp = DispIdle
  /\ hooks = [h \in Hooks |-> HookIdle]
  /\ reports = [p \in Reports |-> ReportIdle]
  /\ runs = [r \in RunIds |-> [phase |-> "none", claim |-> NoClaim]]
  /\ row = [a \in AlertIds |-> [state |-> "absent", by |-> NoClaim]]
  /\ digest = {}
  /\ sent = [a \in AlertIds |-> {}]
  /\ skipped = {} /\ kept = {}

Next ==
  \/ \E h \in Hooks : Receive(h) \/ HookStep(h)
  \/ \E c \in Claims : Deliver(c) \/ AckWaitOver(c)
  \/ Take \/ DispStep
  \/ \E p \in Reports : ReportStep(p) \/ \E r \in RunIds : Report(p, r)
  \/ \E r \in RunIds : RunnerDies(r)
  \/ SetRepairEnabled
  \/ \E k \in Keys : LockExpires(k)
  \/ \E a \in AlertIds : MarkerExpires(a)
  \/ Crash

Spec == Init /\ [][Next]_vars

(* Fairness.  The Go scheduler runs every started handler and the callback *)
(* on, the server delivers what is due and requeues what nobody handles, a *)
(* running workflow ends, and the Locks bucket enforces its TTL.  Crashes  *)
(* and lost acks may be many, but not for ever.                            *)
Fairness ==
  /\ WF_vars(Take) /\ WF_vars(DispStep)
  /\ \A h \in Hooks : WF_vars(HookStep(h))
  /\ \A p \in Reports : WF_vars(ReportStep(p))
  /\ \A c \in Claims : WF_vars(Deliver(c)) /\ WF_vars(AckWaitOver(c))
  /\ \A r \in RunIds :
       WF_vars(RunnerDies(r) \/ \E p \in Reports : Report(p, r))
  /\ \A k \in Keys : WF_vars(LockExpires(k))

FairSpec ==
  Spec /\ Fairness /\ <>[][~Crash /\ ~SettleLost]_vars
-----------------------------------------------------------------------------
(* Properties.                                                             *)

KVTypeOK ==
  /\ locks \in [Keys -> Claims \union {NoClaim}]
  /\ marker \in [AlertIds -> BOOLEAN]
  /\ enabled \in BOOLEAN
  /\ digest \subseteq Keys \union AlertIds

Taken(c) == c \in Claims /\ msg[c].state # "fresh"

StreamTypeOK ==
  /\ msg \in [Claims -> [alert : AlertIds \union {NoAlert},
                         state : {"fresh", "unsent", "queued", "out", "done"},
                         n : 0..MaxAttempts]]
  /\ \A c \in Claims : Taken(c) => msg[c].alert \in AlertIds
  /\ inbox \subseteq [claim : Claims, n : 1..MaxAttempts]
  /\ \A d \in inbox : Taken(d.claim)

DispTypeOK ==
  /\ disp \in [pc : DispPc, claim : Claims \union {NoClaim}, n : 0..MaxAttempts]
  /\ disp.pc # "idle" => Taken(disp.claim)

HooksTypeOK ==
  /\ hooks \in [Hooks -> [pc : HookPc, todo : Seq(AlertIds),
                          claim : Claims \union {NoClaim}]]
  /\ \A h \in Hooks : /\ hooks[h].pc # "idle" => hooks[h].todo # <<>>
                      /\ hooks[h].pc \in {"publish", "insert"} => Taken(hooks[h].claim)

ReportsTypeOK ==
  /\ reports \in [Reports -> [pc : ReportPc, claim : Claims \union {NoClaim}]]
  /\ \A p \in Reports : reports[p].pc # "idle" => Taken(reports[p].claim)

RunsTypeOK ==
  /\ runs \in [RunIds -> [phase : {"none", "running", "reported", "dead"},
                          claim : Claims \union {NoClaim}]]
  /\ \A r \in RunIds : runs[r].phase # "none" => Taken(runs[r].claim)

RowTypeOK ==
  row \in [AlertIds -> [state : {"absent", "open", "skipped", "reported"},
                        by : Claims \union {NoClaim}]]

HistTypeOK ==
  /\ sent \in [AlertIds -> SUBSET RunIds]
  /\ skipped \subseteq Claims /\ kept \subseteq Claims

\* Every variable stays in its domain; a busy webhook has alerts left, and
\* whatever works on a claim works on one that was taken (the handlers and
\* the dispatcher callback never act on a lock nobody took).
TypeOK ==
  /\ KVTypeOK /\ StreamTypeOK /\ DispTypeOK /\ HooksTypeOK
  /\ ReportsTypeOK /\ RunsTypeOK /\ RowTypeOK /\ HistTypeOK

\* While its marker lives, an alert_id has at most one repository_dispatch
\* that GitHub confirmed: redelivery, retries, crashes and failed KV calls
\* included (dispatcher.go:90-96).
AtMostOneDispatch ==
  \A a \in AlertIds : \A r, s \in sent[a] : r = s

\* No two repair runs work on the same (service, error) at a time: the flap
\* lock's purpose (lock.go:23-26).
RepairMutex ==
  \A r, s \in RunIds :
    /\ runs[r].phase = "running" /\ runs[s].phase = "running"
    /\ Key(runs[r].claim) = Key(runs[s].claim)
    => r = s

\* repository_dispatch is called for a message only while the flap lock is
\* held by that very message's claim, however often it was redelivered.
DispatchHoldsLock ==
  disp.pc = "dispatch" => locks[Key(disp.claim)] = disp.claim

\* The claims a run was started under, and those with a run at work.
StartedClaims == {runs[r].claim : r \in {s \in RunIds : runs[s].phase # "none"}}
RepairingClaims == {runs[r].claim : r \in {s \in RunIds : runs[s].phase = "running"}}

FL == INSTANCE FlapLock WITH
        holder <- locks, used <- {c \in Claims : Taken(c)},
        started <- StartedClaims, repairing <- RepairingClaims

\* The buckets, messages, markers and reports make up one lock: a run starts
\* only under its own claim's lock, once per claim, and no report, late
\* delivery, crash or expiry takes the lock from a run at work
\* (lock.go:23-42, dispatcher.go:90-141, digest/handler.go:101-111).
ImplementsFlapLock == FL!Spec

\* Once GET /v1/runs shows the outcome written for a claim, that claim no
\* longer holds its lock: the order the benchmark's stage 2 waits on.  The
\* exceptions are claims whose delete failed, or was skipped because the
\* report did not name the lock: their lock stays until its TTL
\* (digest/handler.go:101-121, dispatcher.go:153-157, stage.go:42-46).
OutcomeAfterRelease ==
  \A a \in AlertIds :
    row[a].by # NoClaim /\ locks[KeyOf[a]] = row[a].by => row[a].by \in kept

\* A run's outcome is recorded only after its line is in the digest buffer:
\* the row never reports what the digest lost (digest/handler.go:96-99).
OutcomeIsDigested ==
  \A a \in AlertIds : row[a].state = "reported" => a \in digest

\* A message leaves the stream only when its alert was dispatched, was closed
\* out by the toggle, or used up its attempts (dispatcher.go:84-139).
AckedIsHandled ==
  \A c \in Claims : msg[c].state = "done" =>
    \/ \E r \in RunIds : /\ runs[r].phase # "none"
                         /\ msg[runs[r].claim].alert = msg[c].alert
    \/ c \in skipped
    \/ msg[c].n = MaxAttempts

\* Every published alert is eventually acked or terminated: retries are
\* bounded by maxDispatchAttempts (dispatcher.go:26-34, 127-134).
MessageSettles ==
  \A c \in Claims : msg[c].state = "queued" ~> msg[c].state = "done"

\* No (service, error) stays locked for ever: a report or, where none comes,
\* the TTL frees it (queue.go:38-46).
LockIsFreed ==
  \A c \in Claims : (\E k \in Keys : locks[k] = c) ~> (\A k \in Keys : locks[k] # c)
-----------------------------------------------------------------------------
(* What comments and the README say, and the code does not keep.           *)

\* dispatcher.go:94-96: the marker "only ever survives a genuinely
\* successful dispatch".
MarkerMeansDispatched ==
  \A a \in AlertIds :
    marker[a] /\ ~(disp.pc # "idle" /\ msg[disp.claim].alert = a) => sent[a] # {}

\* lock.go:24: a held lock "means a repair is already in flight".
LockMeansInFlight ==
  \A k \in Keys : locks[k] # NoClaim => ~Abandoned(locks[k])
=============================================================================
