------------------------------- MODULE Intake -------------------------------
(***************************************************************************)
(* POST /v1/alerts from the webhook's raw payload to its answer: mapAlerts *)
(* drops and skips, alerts.Publish takes the flap lock, fetches the log    *)
(* context and publishes, and the handler inserts rows and answers.        *)
(* Pipeline models what becomes of the messages; here the data counts:     *)
(* which alerts of a group get through, and what a message carries.        *)
(*                                                                         *)
(* The sender re-sends groups as it likes, so every Receive may be a retry.*)
(***************************************************************************)
EXTENDS Naturals, Sequences, FiniteSets, SequencesExt, FiniteSetsExt

CONSTANTS
  Handlers,         \* concurrent requests
  Payloads,         \* payload.Alerts of the webhook calls: sequences of raw alerts
  LineBytes,        \* bytes a log line may have; 0 stands for a malformed line
  MaxLines,         \* maxLines: the query's limit
  MaxContextBytes,  \* maxContextBytes
  MaxRequests       \* bound: requests in a behaviour

Required == {"alertname", "fingerprint", "service", "trace_id", "summary"}
Absent == ""

ASSUME IntakeAssumption ==
  /\ Payloads \subseteq Seq([Required \union {"status"} -> STRING])
  /\ LineBytes \subseteq Nat /\ MaxLines \in Nat
  /\ MaxContextBytes \in Nat /\ MaxRequests \in Nat

AlertID(a) == <<a.alertname, a.fingerprint>>
LockKey(a) == <<a.service, a.summary>>

VARIABLES
  req,       \* the requests being handled
  locked,    \* keys of the locks bucket
  stream,    \* alert_ids published
  rows,      \* alert_ids with a row in SQLite
  requests,  \* requests so far
  under      \* history: messages published while each key is locked

shared == <<locked, stream, rows>>
vars == <<req, shared, requests, under>>

Keys == {LockKey(raw) : raw \in UNION {ToSet(p) : p \in Payloads}}

\* A request goes over places of its payload: those still to do, and those
\* that were published or met a lock.
ReqIdle == [pc |-> "idle", payload |-> <<>>, todo |-> {}, published |-> {}, halted |-> {},
            result |-> "none", context |-> <<>>, lines |-> <<>>, answer |-> 0]
-----------------------------------------------------------------------------
(* alerts.go: mapAlerts.                                                   *)

\* The switch over the required fields.
Invalid(raw) ==
  \/ raw.alertname = Absent \/ raw.fingerprint = Absent
  \/ raw.service = Absent \/ raw.trace_id = Absent \/ raw.summary = Absent

Fires(raw) == raw.status # "resolved" /\ ~Invalid(raw)

\* Mutant: the loop ends at a malformed alert.
mapAlerts_Break(payload) ==
  {i \in DOMAIN payload : \A j \in 1..i :
     Fires(payload[j]) \/ (j < i /\ payload[j].status = "resolved")}

\* The places of the alerts to deliver, which keep their order.
mapAlerts(payload) == {i \in DOMAIN payload : Fires(payload[i])}
-----------------------------------------------------------------------------
(* victorialogs/client.go.  A line is its place in the answer, 1 the newest; *)
(* lines[i] is its size, or 0 if it is malformed.                          *)

\* Mutant: the joining newlines are not counted.
Cost_NoNewline(lines, i) == lines[i]

Cost(lines, i) == lines[i] + 1

\* The bytes taken after k steps of the loop, which starts at the newest end.
Total(order, lines) ==
  LET total[k \in 0..Len(order)] ==
        IF k = 0 THEN 0 ELSE total[k - 1] + Cost(lines, order[Len(order) + 1 - k])
  IN total

\* It takes whole lines until one does not fit.
truncateOldestFirst(order, lines, maxBytes) ==
  LET total == Total(order, lines)
      taken == CHOOSE k \in 0..Len(order) :
                 total[k] <= maxBytes /\ \A j \in (k + 1)..Len(order) : total[j] > maxBytes
  IN SubSeq(order, Len(order) - taken + 1, Len(order))

\* The scan keeps the lines that parse, of the n newest, and reverse puts the
\* oldest first.
Scanned(lines) ==
  LET scanned[n \in 0..Len(lines)] ==
        IF n = 0 THEN <<>>
        ELSE IF lines[n] = 0 THEN scanned[n - 1] ELSE <<n>> \o scanned[n - 1]
  IN scanned

FetchContext(lines) ==
  truncateOldestFirst(Scanned(lines)[Len(lines)], lines, MaxContextBytes)

Answers == UNION {[1..n -> LineBytes] : n \in 0..MaxLines}
-----------------------------------------------------------------------------
(* The handler.                                                            *)

Place(h) == Min(req[h].todo)
Current(h) == req[h].payload[Place(h)]
Goto(h, pc) == req' = [req EXCEPT ![h].pc = pc]

\* Mutant: the loop runs one step past the batch.
Over_OneMore(todo) == todo = {}

Over(todo) == todo = {Min(todo)}

\* The alert at hand is done with; 500 ends the request at once.
Fate(h, fate) ==
  LET r == req[h]
      With(set, result) == IF fate = result THEN set \union {Place(h)} ELSE set
      published == With(r.published, "published")
      done == fate = "failed" \/ Over(r.todo)
      status == IF fate = "failed" THEN 500 ELSE IF published # {} THEN 202 ELSE 200 IN
  req' = [req EXCEPT ![h] =
            [ReqIdle EXCEPT !.payload = r.payload,
                            !.published = published, !.halted = With(r.halted, "halted"),
                            !.pc = IF done THEN "answered" ELSE "lock",
                            !.todo = IF done THEN {} ELSE r.todo \ {Place(h)},
                            !.answer = IF done THEN status ELSE 0]]

\* 401 and 400 end here; so does a group in which nothing is firing.
Receive(h) ==
  /\ req[h].pc \in {"idle", "answered"} /\ requests < MaxRequests
  /\ requests' = requests + 1
  /\ \/ req' = [req EXCEPT ![h] = [ReqIdle EXCEPT !.pc = "answered", !.answer = 401]]
     \/ req' = [req EXCEPT ![h] = [ReqIdle EXCEPT !.pc = "answered", !.answer = 400]]
     \/ \E p \in Payloads :
          LET fired == mapAlerts(p) IN
          req' = [req EXCEPT ![h] =
                    [ReqIdle EXCEPT !.payload = p, !.todo = fired,
                                    !.pc = IF fired = {} THEN "answered" ELSE "lock",
                                    !.answer = IF fired = {} THEN 200 ELSE 0]]
  /\ UNCHANGED <<shared, under>>

\* Mutant: the lock is written over.
LockFree_Put(k) == k \in Keys

LockFree(k) == k \notin locked

\* TryLock.  A held lock halts the alert (its digest entry is DigestBuffer's
\* upsert); an error may come after the lock was written.
TryLock(h) ==
  LET k == LockKey(Current(h)) IN
  /\ req[h].pc = "lock"
  /\ \/ /\ LockFree(k) /\ Goto(h, "fetch")
        /\ locked' = locked \union {k}
     \/ /\ ~LockFree(k) /\ UNCHANGED locked
        /\ req' = [req EXCEPT ![h].pc = "returned", ![h].result = "halted"]
     \/ /\ Fate(h, "failed")
        /\ locked' \in {locked, locked \union {k}}
  /\ UNCHANGED <<stream, rows, requests, under>>

\* No answer, an error status or an overlong line leave the context empty.
Enrich(h) ==
  /\ req[h].pc = "fetch"
  /\ \/ \E lines \in Answers :
          req' = [req EXCEPT ![h].pc = "publish", ![h].lines = lines,
                             ![h].context = FetchContext(lines)]
     \/ Goto(h, "publish")
  /\ UNCHANGED <<shared, requests, under>>

\* JS.Publish; an error may come after the message was stored.
PublishMessage(h) ==
  LET a == Current(h)
      stored == /\ stream' = stream \union {AlertID(a)}
                /\ under' = [under EXCEPT ![LockKey(a)] = @ + 1] IN
  /\ req[h].pc = "publish"
  /\ \/ /\ stored
        /\ req' = [req EXCEPT ![h].pc = "returned", ![h].result = "published",
                              ![h].lines = <<>>, ![h].context = <<>>]
     \/ Fate(h, "failed") /\ (stored \/ UNCHANGED <<stream, under>>)
  /\ UNCHANGED <<locked, rows, requests>>

\* Mutant: an alert that met a lock counts as published.
Ok_Always(result) == result # "none"

Ok(result) == result = "published"

\* The row of a published alert, if SQLite takes it.
Returned(h) ==
  LET a == Current(h) IN
  /\ req[h].pc = "returned"
  /\ Fate(h, req[h].result)
  /\ \/ Ok(req[h].result) /\ rows' = rows \union {AlertID(a)}
     \/ UNCHANGED rows
  /\ UNCHANGED <<locked, stream, requests, under>>

\* The process stops: the sender of an open request gets no answer.
Crash ==
  /\ \E h \in Handlers : req[h].pc \notin {"idle", "answered"}
  /\ req' = [h \in Handlers |-> ReqIdle]
  /\ UNCHANGED <<shared, requests, under>>

\* A report or the TTL frees the lock; the TTL outlasts any request.  (A
\* report that comes after its own lock is gone is Pipeline's.)
Unlock(k) ==
  /\ k \in locked
  /\ ~\E h \in Handlers :
        req[h].pc \in {"fetch", "publish"} /\ LockKey(Current(h)) = k
  /\ locked' = locked \ {k}
  /\ under' = [under EXCEPT ![k] = 0]
  /\ UNCHANGED <<req, stream, rows, requests>>
-----------------------------------------------------------------------------
Init ==
  /\ req = [h \in Handlers |-> ReqIdle]
  /\ locked = {} /\ stream = {} /\ rows = {}
  /\ requests = 0 /\ under = [k \in Keys |-> 0]

Next ==
  \/ \E h \in Handlers :
       Receive(h) \/ TryLock(h) \/ Enrich(h) \/ PublishMessage(h) \/ Returned(h)
  \/ Crash
  \/ \E k \in Keys : Unlock(k)

Spec == Init /\ [][Next]_vars
-----------------------------------------------------------------------------
(* Properties.                                                             *)

TypeOK ==
  /\ \A h \in Handlers :
       /\ req[h].pc \in {"idle", "lock", "fetch", "publish", "returned", "answered"}
       /\ req[h].pc \in {"lock", "fetch", "publish", "returned"} <=> req[h].todo # {}
       /\ req[h].answer \in {0, 200, 202, 400, 401, 500}
  /\ locked \subseteq Keys
  /\ under \in [Keys -> Nat]
  /\ requests \in 0..MaxRequests

\* Which raw alerts the webhook has to deliver, read off the wire format.
Deliverable(p) ==
  {i \in DOMAIN p : p[i].status # "resolved" /\ \A f \in Required : p[i][f] # Absent}

\* What an answer says of its group: after 200 or 202 every firing and
\* complete alert was published or met a lock, 202 if one was published;
\* after 500 those before the failed one were.  No resolved or malformed
\* alert keeps another from its turn (alerts.go:73-80, handler.go:39-76).
AnswerIsTrue ==
  \A h \in Handlers :
    LET r == req[h]
        handled == r.published \union r.halted
        due == Deliverable(r.payload) IN
    /\ handled \subseteq due
    /\ \A i \in handled, j \in due : j < i => j \in handled
    /\ \A i \in r.published : AlertID(r.payload[i]) \in stream
    /\ r.answer \in {200, 202} => handled = due
    /\ r.answer = 202 => r.published # {}
    /\ r.answer = 200 => r.published = {}
    /\ r.answer = 500 => handled # due

\* One repair per lock: a group that names one failure twice, two requests
\* at once, and a retry after a 500 publish one message while the key stays
\* locked (dispatch.go:39-54, handler.go:46-54).
OneMessagePerLock == \A k \in Keys : under[k] <= 1

\* A row says a repair was ordered: no halted or failed alert has one
\* (handler.go:56-68).
RowsAreOrdered == rows \subseteq stream

\* The bytes strings.Join makes of the context: its lines and the newlines
\* between them.
Joined(lines, context) ==
  LET Piece(n) == lines[context[n]] + (IF n = 1 THEN 0 ELSE 1)
      joined[n \in 0..Len(context)] == IF n = 0 THEN 0 ELSE joined[n - 1] + Piece(n)
  IN joined[Len(context)]

\* The context a message carries has lines that parse, in the order of time
\* and within the budget; it leaves out no line newer than one it has, and
\* leaves a line out only when that would have filled the budget
\* (client.go:37-40, 73-113).
ContextIsNewest ==
  \A h \in Handlers : req[h].pc = "publish" =>
    LET lines == req[h].lines
        context == req[h].context
        parsed == {i \in DOMAIN lines : lines[i] # 0}
        left == parsed \ ToSet(context) IN
    /\ ToSet(context) \subseteq parsed
    /\ \A i, j \in DOMAIN context : i < j => context[i] > context[j]
    /\ Joined(lines, context) <= MaxContextBytes
    /\ \A i \in left, j \in ToSet(context) : i > j
    /\ left # {} => Joined(lines, <<Min(left)>> \o context) >= MaxContextBytes
=============================================================================
