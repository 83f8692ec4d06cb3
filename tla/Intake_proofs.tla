---------------------------- MODULE Intake_proofs ----------------------------
(***************************************************************************)
(* Proofs about Intake, for any payloads, any number of concurrent         *)
(* requests and any log context: one message per lock, rows of published   *)
(* alerts only, and answers that tell what became of the group.  The log   *)
(* context itself is the subject of Context_proofs.                        *)
(***************************************************************************)
EXTENDS Intake, WellFoundedInduction, TLAPS

Raws == [Required \union {"status"} -> STRING]
Working == {"lock", "fetch", "publish", "returned"}
Contexts == {FetchContext(lines) : lines \in Answers} \union {<<>>}

Requests == [pc : Working \union {"idle", "answered"}, payload : Payloads \union {<<>>},
             todo : SUBSET Nat, published : SUBSET Nat, halted : SUBSET Nat,
             result : {"none", "published", "halted"},
             context : Contexts, lines : Answers \union {<<>>},
             answer : {0, 200, 202, 400, 401, 500}]

Handled(h) == req[h].published \union req[h].halted
Due(h) == mapAlerts(req[h].payload)

\* A request is at work as long as it has alerts to do; then those it is done
\* with come first, and the others are to do.
Turn(h) ==
  /\ req[h].pc \in Working => Handled(h) \union req[h].todo = Due(h) /\ req[h].answer = 0
  /\ req[h].pc \in Working <=> req[h].todo # {}
  /\ \A i \in Handled(h), j \in req[h].todo : i < j
  /\ req[h].pc = "returned" => req[h].result # "none"

Types ==
  /\ req \in [Handlers -> Requests]
  /\ locked \subseteq Keys /\ under \in [Keys -> Nat]
  /\ requests \in 0..MaxRequests
  /\ \A h \in Handlers : Turn(h)

\* Every nonempty set of places has a first one.
LEMMA MinIs ==
  ASSUME NEW S \in SUBSET Nat, S # {}
  PROVE  Min(S) \in S /\ \A i \in S : Min(S) <= i
<1> DEFINE R == OpToRel(<, Nat)
<1>1. IsWellFoundedOn(R, Nat)
  BY NatLessThanWellFounded
<1>2. \A i, j \in Nat : i < j => <<i, j>> \in R
  BY DEF OpToRel
<1> HIDE DEF R
<1>3. PICK x \in S : \A y \in S : <<y, x>> \notin R
  BY <1>1, WFMin
<1>4. \A y \in S : x <= y
  <2>1. x \in Nat /\ \A y \in S : y \in Nat
    OBVIOUS
  <2>2. \A y \in S : ~(y < x)
    BY <1>2, <1>3, <2>1, Zenon
  <2>3. QED BY <2>1, <2>2
<1>5. QED BY <1>4 DEF Min

LEMMA PayloadTypes ==
  ASSUME NEW p \in Payloads \union {<<>>}
  PROVE  /\ mapAlerts(p) \subseteq Nat
         /\ \A i \in mapAlerts(p) : p \in Payloads /\ i \in DOMAIN p /\ LockKey(p[i]) \in Keys
<1>1. CASE p = <<>>
  BY <1>1 DEF mapAlerts
<1>2. CASE p \in Payloads
  <2>1. p \in Seq(Raws)
    BY <1>2, IntakeAssumption DEF Raws
  <2>2. DOMAIN p \subseteq Nat
    BY <2>1
  <2>3. \A i \in DOMAIN p : LockKey(p[i]) \in Keys
    BY <1>2 DEF Keys, ToSet
  <2>4. QED BY <1>2, <2>2, <2>3 DEF mapAlerts
<1>3. QED BY <1>1, <1>2

\* What the switch over the fields lets through is what the wire format asks
\* to be delivered.
LEMMA DueIsDeliverable ==
  ASSUME NEW p \in Payloads \union {<<>>}
  PROVE  mapAlerts(p) = Deliverable(p)
BY DEF mapAlerts, Deliverable, Fires, Invalid, Required

LEMMA IdleIs ==
  /\ ReqIdle \in Requests /\ ReqIdle.pc = "idle" /\ ReqIdle.todo = {}
  /\ ReqIdle.published = {} /\ ReqIdle.halted = {} /\ ReqIdle.answer = 0
<1>1. <<>> \in Contexts /\ <<>> \in Answers \union {<<>>} /\ <<>> \in Payloads \union {<<>>}
  BY DEF Contexts
<1>2. QED BY <1>1 DEF ReqIdle, Requests, Working
-----------------------------------------------------------------------------
(* Steps of a request.                                                     *)

\* One request moves.
Moves(h) ==
  /\ req' \in [Handlers -> Requests]
  /\ \A g \in Handlers : g # h => req'[g] = req[g]

\* It stays with the alert at hand.
Stays(h) ==
  /\ Moves(h)
  /\ req'[h].payload = req[h].payload /\ req'[h].todo = req[h].todo
  /\ req'[h].published = req[h].published /\ req'[h].halted = req[h].halted
  /\ req'[h].answer = req[h].answer

\* The alert at hand.
LEMMA PlaceIs ==
  ASSUME Types, NEW h \in Handlers, req[h].pc \in Working
  PROVE  /\ Place(h) \in req[h].todo /\ \A i \in req[h].todo : Place(h) <= i
         /\ Place(h) \in Nat /\ Place(h) \in Due(h)
         /\ LockKey(Current(h)) \in Keys
<1>1. /\ req[h] \in Requests /\ req[h].todo # {} /\ req[h].todo \subseteq Due(h)
      /\ req[h].todo \in SUBSET Nat /\ req[h].payload \in Payloads \union {<<>>}
  BY DEF Types, Turn, Requests
<1>2. Place(h) \in req[h].todo /\ \A i \in req[h].todo : Place(h) <= i
  BY <1>1, MinIs DEF Place
<1>3. Place(h) \in Nat /\ Place(h) \in Due(h)
  BY <1>1, <1>2
<1>4. LockKey(Current(h)) \in Keys
  BY <1>1, <1>3, PayloadTypes DEF Current, Due
<1>5. QED BY <1>2, <1>3, <1>4

LEMMA GotoIs ==
  ASSUME Types, NEW h \in Handlers, NEW pc \in Working, Goto(h, pc)
  PROVE  Stays(h) /\ req'[h].pc = pc /\ req'[h].result = req[h].result
<1>1. req[h] \in Requests /\ req \in [Handlers -> Requests]
  BY DEF Types
<1>2. [req[h] EXCEPT !.pc = pc] \in Requests
  BY <1>1 DEF Requests
<1>3. req' = [req EXCEPT ![h] = [req[h] EXCEPT !.pc = pc]]
  BY <1>1 DEF Goto
<1>4. QED BY <1>1, <1>2, <1>3 DEF Stays, Moves, Requests

\* What the end of an alert leaves of its request.
LEMMA FateIs ==
  ASSUME Types, NEW h \in Handlers, req[h].pc \in Working,
         NEW fate \in {"published", "halted", "failed"}, Fate(h, fate)
  PROVE  /\ Moves(h) /\ req'[h].payload = req[h].payload
         /\ req'[h].published = IF fate = "published" THEN req[h].published \union {Place(h)}
                                ELSE req[h].published
         /\ req'[h].halted = IF fate = "halted" THEN req[h].halted \union {Place(h)}
                             ELSE req[h].halted
         /\ IF fate = "failed"
            THEN req'[h].pc = "answered" /\ req'[h].todo = {} /\ req'[h].answer = 500
            ELSE IF req[h].todo = {Place(h)}
            THEN /\ req'[h].pc = "answered" /\ req'[h].todo = {}
                 /\ req'[h].answer = IF req'[h].published # {} THEN 202 ELSE 200
            ELSE /\ req'[h].pc = "lock" /\ req'[h].todo = req[h].todo \ {Place(h)}
                 /\ req'[h].answer = 0
<1> DEFINE published == IF fate = "published" THEN req[h].published \union {Place(h)}
                        ELSE req[h].published
           halted == IF fate = "halted" THEN req[h].halted \union {Place(h)}
                     ELSE req[h].halted
           done == fate = "failed" \/ Over(req[h].todo)
           pc == IF done THEN "answered" ELSE "lock"
           todo == IF done THEN {} ELSE req[h].todo \ {Place(h)}
           answer == IF done THEN (IF fate = "failed" THEN 500
                                   ELSE IF published # {} THEN 202 ELSE 200)
                     ELSE 0
           payload == req[h].payload
           r == [ReqIdle EXCEPT !.payload = payload, !.published = published,
                                !.halted = halted, !.pc = pc, !.todo = todo,
                                !.answer = answer]
<1>1. req[h] \in Requests /\ req \in [Handlers -> Requests] /\ Place(h) \in Nat
  BY PlaceIs DEF Types
<1>2. /\ payload \in Payloads \union {<<>>} /\ published \in SUBSET Nat /\ halted \in SUBSET Nat
      /\ pc \in {"lock", "answered"} /\ todo \in SUBSET Nat /\ answer \in {0, 200, 202, 500}
  BY <1>1 DEF Requests
<1>3. req' = [req EXCEPT ![h] = r]
  BY DEF Fate
<1>4. /\ Over(req[h].todo) <=> req[h].todo = {Place(h)}
  BY DEF Over, Place
<1>5. /\ pc = IF fate = "failed" \/ req[h].todo = {Place(h)} THEN "answered" ELSE "lock"
      /\ todo = IF fate = "failed" \/ req[h].todo = {Place(h)} THEN {}
                ELSE req[h].todo \ {Place(h)}
      /\ answer = IF fate = "failed" THEN 500
                  ELSE IF req[h].todo = {Place(h)} THEN (IF published # {} THEN 202 ELSE 200)
                  ELSE 0
  BY <1>4
<1>6. /\ r \in Requests /\ r.payload = payload /\ r.published = published
      /\ r.halted = halted /\ r.pc = pc /\ r.todo = todo /\ r.answer = answer
  <2>1. r = [ReqIdle EXCEPT !.payload = payload, !.published = published,
                            !.halted = halted, !.pc = pc, !.todo = todo, !.answer = answer]
    OBVIOUS
  <2> HIDE DEF r, payload, published, halted, pc, todo, answer
  <2>2. r = [pc |-> pc, payload |-> payload, todo |-> todo, published |-> published,
             halted |-> halted, result |-> "none", context |-> <<>>, lines |-> <<>>,
             answer |-> answer]
    BY <2>1 DEF ReqIdle
  <2>3. r \in Requests
    BY <1>2, <2>2 DEF Requests, Working, Contexts
  <2>4. QED BY <2>2, <2>3
<1> HIDE DEF r, pc, todo, answer
<1>7. req'[h] = r /\ Moves(h)
  BY <1>1, <1>3, <1>6 DEF Moves
<1>8. QED BY <1>5, <1>6, <1>7

\* A batch as a request takes it up.
LEMMA ReceiveIs ==
  ASSUME Types, NEW h \in Handlers, Receive(h)
  PROVE  /\ Moves(h) /\ req'[h].published = {} /\ req'[h].halted = {}
         /\ UNCHANGED <<locked, stream, rows, under>> /\ requests' \in 0..MaxRequests
         /\ \/ /\ req'[h].pc = "answered" /\ req'[h].todo = {}
               /\ req'[h].answer \in {400, 401}
            \/ /\ req'[h].pc = "answered" /\ req'[h].todo = {}
               /\ req'[h].answer = 200 /\ mapAlerts(req'[h].payload) = {}
            \/ /\ req'[h].pc = "lock" /\ req'[h].todo = mapAlerts(req'[h].payload)
               /\ req'[h].todo # {} /\ req'[h].answer = 0
<1>1. req \in [Handlers -> Requests] /\ ReqIdle \in Requests
  BY IdleIs DEF Types
<1>2. UNCHANGED <<locked, stream, rows, under>> /\ requests' \in 0..MaxRequests
  <2>1. UNCHANGED <<locked, stream, rows, under>>
    BY DEF Receive, shared
  <2>2. requests \in Nat /\ requests < MaxRequests /\ requests' = requests + 1
    <3>1. requests \in Nat
      BY IntakeAssumption DEF Types
    <3>2. QED BY <3>1 DEF Receive
  <2>3. QED BY <2>1, <2>2, IntakeAssumption
<1>3. ASSUME NEW code \in {400, 401},
             req' = [req EXCEPT ![h] = [ReqIdle EXCEPT !.pc = "answered", !.answer = code]]
      PROVE  /\ Moves(h) /\ req'[h].published = {} /\ req'[h].halted = {}
             /\ req'[h].pc = "answered" /\ req'[h].todo = {} /\ req'[h].answer \in {400, 401}
  <2> DEFINE r == [ReqIdle EXCEPT !.pc = "answered", !.answer = code]
  <2>1. /\ r \in Requests /\ r.published = {} /\ r.halted = {} /\ r.pc = "answered"
        /\ r.todo = {} /\ r.answer = code
    <3>1. r = [ReqIdle EXCEPT !.pc = "answered", !.answer = code]
      OBVIOUS
    <3> HIDE DEF r
    <3>2. r = [pc |-> "answered", payload |-> <<>>, todo |-> {}, published |-> {},
               halted |-> {}, result |-> "none", context |-> <<>>, lines |-> <<>>,
               answer |-> code]
      BY <3>1 DEF ReqIdle
    <3>3. r \in Requests
      BY <3>2 DEF Requests, Working, Contexts
    <3>4. QED BY <3>2, <3>3
  <2> HIDE DEF r
  <2>2. req'[h] = r /\ Moves(h)
    BY <1>1, <1>3, <2>1 DEF r, Moves
  <2>3. QED BY <2>1, <2>2
<1>4. ASSUME NEW p \in Payloads,
             req' = [req EXCEPT ![h] =
                       [ReqIdle EXCEPT !.payload = p, !.todo = mapAlerts(p),
                                       !.pc = IF mapAlerts(p) = {} THEN "answered" ELSE "lock",
                                       !.answer = IF mapAlerts(p) = {} THEN 200 ELSE 0]]
      PROVE  /\ Moves(h) /\ req'[h].published = {} /\ req'[h].halted = {}
             /\ req'[h].todo = mapAlerts(req'[h].payload)
             /\ req'[h].pc = IF req'[h].todo = {} THEN "answered" ELSE "lock"
             /\ req'[h].answer = IF req'[h].todo = {} THEN 200 ELSE 0
  <2> DEFINE fired == mapAlerts(p)
             pc == IF fired = {} THEN "answered" ELSE "lock"
             answer == IF fired = {} THEN 200 ELSE 0
             r == [ReqIdle EXCEPT !.payload = p, !.todo = fired, !.pc = pc, !.answer = answer]
  <2>1. fired \in SUBSET Nat
    BY PayloadTypes
  <2>2. pc \in {"answered", "lock"} /\ answer \in {0, 200}
    OBVIOUS
  <2>3. req' = [req EXCEPT ![h] = r]
    BY <1>4
  <2> HIDE DEF fired, pc, answer
  <2>4. /\ r \in Requests /\ r.published = {} /\ r.halted = {} /\ r.payload = p
        /\ r.todo = fired /\ r.pc = pc /\ r.answer = answer
    <3>1. r = [ReqIdle EXCEPT !.payload = p, !.todo = fired, !.pc = pc, !.answer = answer]
      OBVIOUS
    <3> HIDE DEF r
    <3>2. r = [pc |-> pc, payload |-> p, todo |-> fired, published |-> {},
               halted |-> {}, result |-> "none", context |-> <<>>, lines |-> <<>>,
               answer |-> answer]
      BY <3>1 DEF ReqIdle
    <3>3. r \in Requests
      BY <2>1, <2>2, <3>2 DEF Requests, Working, Contexts
    <3>4. QED BY <3>2, <3>3
  <2> HIDE DEF r
  <2>5. req'[h] = r /\ Moves(h)
    BY <1>1, <2>3, <2>4 DEF Moves
  <2>6. QED BY <2>4, <2>5 DEF fired, pc, answer
<1>5. CASE \/ req' = [req EXCEPT ![h] = [ReqIdle EXCEPT !.pc = "answered", !.answer = 401]]
           \/ req' = [req EXCEPT ![h] = [ReqIdle EXCEPT !.pc = "answered", !.answer = 400]]
  BY <1>2, <1>3, <1>5
<1>6. CASE \E p \in Payloads :
             req' = [req EXCEPT ![h] =
                       [ReqIdle EXCEPT !.payload = p, !.todo = mapAlerts(p),
                                       !.pc = IF mapAlerts(p) = {} THEN "answered" ELSE "lock",
                                       !.answer = IF mapAlerts(p) = {} THEN 200 ELSE 0]]
  <2>1. /\ Moves(h) /\ req'[h].published = {} /\ req'[h].halted = {}
        /\ req'[h].todo = mapAlerts(req'[h].payload)
        /\ req'[h].pc = IF req'[h].todo = {} THEN "answered" ELSE "lock"
        /\ req'[h].answer = IF req'[h].todo = {} THEN 200 ELSE 0
    BY <1>4, <1>6
  <2>2. CASE req'[h].todo = {}
    BY <1>2, <2>1, <2>2
  <2>3. CASE req'[h].todo # {}
    BY <1>2, <2>1, <2>3
  <2>4. QED BY <2>2, <2>3
<1>7. \/ req' = [req EXCEPT ![h] = [ReqIdle EXCEPT !.pc = "answered", !.answer = 401]]
      \/ req' = [req EXCEPT ![h] = [ReqIdle EXCEPT !.pc = "answered", !.answer = 400]]
      \/ \E p \in Payloads :
           req' = [req EXCEPT ![h] =
                     [ReqIdle EXCEPT !.payload = p, !.todo = mapAlerts(p),
                                     !.pc = IF mapAlerts(p) = {} THEN "answered" ELSE "lock",
                                     !.answer = IF mapAlerts(p) = {} THEN 200 ELSE 0]]
  BY DEF Receive
<1>8. QED BY <1>5, <1>6, <1>7

LEMMA Update ==
  ASSUME NEW r \in Requests
  PROVE  /\ \A x \in Working : [r EXCEPT !.pc = x] \in Requests
         /\ \A x \in {"none", "published", "halted"} : [r EXCEPT !.result = x] \in Requests
         /\ \A x \in Contexts : [r EXCEPT !.context = x] \in Requests
         /\ \A x \in Answers \union {<<>>} : [r EXCEPT !.lines = x] \in Requests
<1>1. \A x \in Working : [r EXCEPT !.pc = x] \in Requests
  BY DEF Requests
<1>2. \A x \in {"none", "published", "halted"} : [r EXCEPT !.result = x] \in Requests
  BY DEF Requests
<1>3. \A x \in Contexts : [r EXCEPT !.context = x] \in Requests
  BY DEF Requests
<1>4. \A x \in Answers \union {<<>>} : [r EXCEPT !.lines = x] \in Requests
  BY DEF Requests
<1>5. QED BY <1>1, <1>2, <1>3, <1>4

LEMMA Updates ==
  ASSUME NEW r \in Requests, NEW x \in {"published", "halted"},
         NEW context \in Contexts, NEW lines \in Answers \union {<<>>}
  PROVE  /\ [r EXCEPT !.pc = "returned", !.result = x] \in Requests
         /\ [r EXCEPT !.pc = "publish", !.lines = lines, !.context = context] \in Requests
         /\ [r EXCEPT !.pc = "returned", !.result = x, !.lines = lines, !.context = context]
              \in Requests
<1> DEFINE a == [r EXCEPT !.pc = "returned"]
           b == [a EXCEPT !.result = x]
           c == [b EXCEPT !.lines = lines]
           d == [r EXCEPT !.pc = "publish"]
           e == [d EXCEPT !.lines = lines]
<1>1. a \in Requests /\ d \in Requests
  BY Update DEF Working
<1>2. b \in Requests /\ e \in Requests
  <2> HIDE DEF a, d
  <2>1. QED BY <1>1, Update
<1>3. c \in Requests /\ [e EXCEPT !.context = context] \in Requests
  <2> HIDE DEF b, e
  <2>1. QED BY <1>2, Update
<1>4. [c EXCEPT !.context = context] \in Requests
  <2> HIDE DEF c
  <2>1. QED BY <1>3, Update
<1>5. QED BY <1>2, <1>3, <1>4

\* The message is in the stream.
Stored(h) ==
  /\ stream' = stream \union {AlertID(Current(h))}
  /\ under' = [under EXCEPT ![LockKey(Current(h))] = @ + 1]

LEMMA TryLockIs ==
  ASSUME Types, NEW h \in Handlers, TryLock(h)
  PROVE  /\ req[h].pc = "lock" /\ UNCHANGED <<stream, rows, requests, under>>
         /\ \/ /\ Stays(h) /\ req'[h].pc = "fetch" /\ LockKey(Current(h)) \notin locked
               /\ locked' = locked \union {LockKey(Current(h))}
            \/ /\ Stays(h) /\ req'[h].pc = "returned" /\ req'[h].result = "halted"
               /\ locked' = locked
            \/ /\ Fate(h, "failed")
               /\ locked' \in {locked, locked \union {LockKey(Current(h))}}
<1>1. req[h].pc = "lock" /\ UNCHANGED <<stream, rows, requests, under>>
  BY DEF TryLock
<1>2. CASE LockFree(LockKey(Current(h))) /\ Goto(h, "fetch") /\ locked' = locked \union {LockKey(Current(h))}
  <2>1. "fetch" \in Working
    BY DEF Working
  <2>2. Stays(h) /\ req'[h].pc = "fetch"
    BY <1>2, <2>1, GotoIs
  <2>3. QED BY <1>1, <1>2, <2>2 DEF LockFree
<1>3. CASE /\ req' = [req EXCEPT ![h].pc = "returned", ![h].result = "halted"]
           /\ UNCHANGED locked
  <2> DEFINE r == [req[h] EXCEPT !.pc = "returned", !.result = "halted"]
  <2>1. req[h] \in Requests /\ req \in [Handlers -> Requests]
    BY DEF Types
  <2>2. r \in Requests
    <3>1. <<>> \in Contexts /\ <<>> \in Answers \union {<<>>}
      BY DEF Contexts
    <3>2. QED BY <2>1, <3>1, Updates
  <2>3. req' = [req EXCEPT ![h] = r]
    BY <1>3, <2>1
  <2>4. Stays(h) /\ req'[h].pc = "returned" /\ req'[h].result = "halted"
    BY <2>1, <2>2, <2>3 DEF Stays, Moves, Requests
  <2>5. QED BY <1>1, <1>3, <2>4
<1>4. QED BY <1>1, <1>2, <1>3 DEF TryLock

LEMMA EnrichIs ==
  ASSUME Types, NEW h \in Handlers, Enrich(h)
  PROVE  /\ req[h].pc = "fetch" /\ Stays(h) /\ req'[h].pc = "publish"
         /\ UNCHANGED <<locked, stream, rows, requests, under>>
<1>1. req[h].pc = "fetch" /\ UNCHANGED <<locked, stream, rows, requests, under>>
  BY DEF Enrich, shared
<1>2. CASE Goto(h, "publish")
  <2>1. "publish" \in Working
    BY DEF Working
  <2>2. QED BY <1>1, <1>2, <2>1, GotoIs
<1>3. CASE \E lines \in Answers :
             req' = [req EXCEPT ![h].pc = "publish", ![h].lines = lines,
                                ![h].context = FetchContext(lines)]
  <2>1. PICK lines \in Answers :
          req' = [req EXCEPT ![h].pc = "publish", ![h].lines = lines,
                             ![h].context = FetchContext(lines)]
    BY <1>3
  <2> DEFINE context == FetchContext(lines)
             r == [req[h] EXCEPT !.pc = "publish", !.lines = lines, !.context = context]
  <2>2. context \in Contexts
    BY DEF Contexts
  <2>3. req' = [req EXCEPT ![h].pc = "publish", ![h].lines = lines, ![h].context = context]
    BY <2>1
  <2> HIDE DEF context
  <2>4. req[h] \in Requests /\ req \in [Handlers -> Requests]
    BY DEF Types
  <2>5. r \in Requests
    BY <2>2, <2>4, Updates
  <2>6. req' = [req EXCEPT ![h] = r]
    BY <2>3, <2>4
  <2>7. Stays(h) /\ req'[h].pc = "publish"
    BY <2>4, <2>5, <2>6 DEF Stays, Moves, Requests
  <2>8. QED BY <1>1, <2>7
<1>4. QED BY <1>2, <1>3 DEF Enrich

LEMMA PublishIs ==
  ASSUME Types, NEW h \in Handlers, PublishMessage(h)
  PROVE  /\ req[h].pc = "publish" /\ UNCHANGED <<locked, rows, requests>>
         /\ Stored(h) \/ UNCHANGED <<stream, under>>
         /\ \/ Stored(h) /\ Stays(h) /\ req'[h].pc = "returned" /\ req'[h].result = "published"
            \/ Fate(h, "failed")
<1>1. req[h].pc = "publish" /\ UNCHANGED <<locked, rows, requests>>
  BY DEF PublishMessage
<1>2. CASE Stored(h) /\ req' = [req EXCEPT ![h].pc = "returned", ![h].result = "published",
                                          ![h].lines = <<>>, ![h].context = <<>>]
  <2> DEFINE r == [req[h] EXCEPT !.pc = "returned", !.result = "published",
                                 !.lines = <<>>, !.context = <<>>]
  <2>1. req[h] \in Requests /\ req \in [Handlers -> Requests]
    BY DEF Types
  <2>2. r \in Requests
    BY <2>1, Updates DEF Contexts
  <2>3. req' = [req EXCEPT ![h] = r]
    BY <1>2, <2>1
  <2>4. Stays(h) /\ req'[h].pc = "returned" /\ req'[h].result = "published"
    BY <2>1, <2>2, <2>3 DEF Stays, Moves, Requests
  <2>5. QED BY <1>1, <1>2, <2>4
<1>3. CASE Fate(h, "failed") /\ (Stored(h) \/ UNCHANGED <<stream, under>>)
  BY <1>1, <1>3
<1>4. QED BY <1>2, <1>3 DEF PublishMessage, Stored

LEMMA ReturnedIs ==
  ASSUME Types, NEW h \in Handlers, Returned(h)
  PROVE  /\ req[h].pc = "returned" /\ req[h].result \in {"published", "halted"}
         /\ Fate(h, req[h].result) /\ UNCHANGED <<locked, stream, requests, under>>
         /\ \/ req[h].result = "published" /\ rows' = rows \union {AlertID(Current(h))}
            \/ rows' = rows
<1>1. req[h].pc = "returned" /\ req[h].result \in {"published", "halted"}
  BY DEF Returned, Types, Turn, Requests
<1>2. QED BY <1>1 DEF Returned, Ok
-----------------------------------------------------------------------------
(* Types and turns.                                                        *)

LEMMA TurnStays ==
  ASSUME Types, NEW h \in Handlers, Stays(h), req[h].pc \in Working, req'[h].pc \in Working,
         req'[h].pc = "returned" => req'[h].result # "none"
  PROVE  Turn(h)'
<1>1. Handled(h)' = Handled(h) /\ Due(h)' = Due(h)
  BY DEF Stays, Handled, Due
<1>2. QED BY <1>1 DEF Stays, Types, Turn

LEMMA TurnFate ==
  ASSUME Types, NEW h \in Handlers, req[h].pc \in Working,
         NEW fate \in {"published", "halted", "failed"}, Fate(h, fate)
  PROVE  Turn(h)' /\ Moves(h)
<1>1. /\ Place(h) \in req[h].todo /\ \A i \in req[h].todo : Place(h) <= i
      /\ Handled(h) \union req[h].todo = Due(h)
      /\ \A i \in Handled(h), j \in req[h].todo : i < j
      /\ Handled(h) \in SUBSET Nat /\ req[h].todo \in SUBSET Nat
  BY PlaceIs DEF Types, Turn, Handled, Requests
<1>2. Moves(h) /\ Due(h)' = Due(h)
  BY FateIs DEF Due
<1>3. CASE fate = "failed"
  <2>1. req'[h].pc = "answered" /\ req'[h].todo = {}
    BY <1>3, FateIs
  <2>2. QED BY <1>2, <2>1 DEF Turn, Working
<1>4. CASE fate # "failed"
  <2>1. Handled(h)' = Handled(h) \union {Place(h)}
    BY <1>4, FateIs DEF Handled
  <2>2. CASE req[h].todo = {Place(h)}
    <3>1. req'[h].pc = "answered" /\ req'[h].todo = {}
      BY <1>4, <2>2, FateIs
    <3>2. QED BY <1>2, <3>1 DEF Turn, Working
  <2>3. CASE req[h].todo # {Place(h)}
    <3>1. req'[h].pc = "lock" /\ req'[h].todo = req[h].todo \ {Place(h)} /\ req'[h].answer = 0
      BY <1>4, <2>3, FateIs
    <3>2. Handled(h)' \union req'[h].todo = Due(h)' /\ req'[h].todo # {}
      BY <1>1, <1>2, <2>1, <2>3, <3>1
    <3>3. \A i \in Handled(h)', j \in req'[h].todo : i < j
      BY <1>1, <2>1, <3>1
    <3>4. "lock" \in Working /\ "lock" # "returned"
      BY DEF Working
    <3>5. QED BY <1>2, <3>1, <3>2, <3>3, <3>4 DEF Turn
  <2>4. QED BY <2>2, <2>3
<1>5. QED BY <1>3, <1>4

\* A step of one request keeps the turns of the others.
LEMMA TurnOthers ==
  ASSUME Types, NEW h \in Handlers, Moves(h), Turn(h)'
  PROVE  \A g \in Handlers : Turn(g)'
<1>1. ASSUME NEW g \in Handlers, g # h PROVE Turn(g)'
  <2>1. req'[g] = req[g]
    BY <1>1 DEF Moves
  <2>2. QED BY <2>1 DEF Types, Turn, Handled, Due
<1>2. QED BY <1>1

LEMMA TypesReceive ==
  ASSUME Types, NEW h \in Handlers, Receive(h)
  PROVE  Types'
<1>1. /\ Moves(h) /\ req'[h].published = {} /\ req'[h].halted = {}
      /\ UNCHANGED <<locked, under>> /\ requests' \in 0..MaxRequests
  BY ReceiveIs
<1>2. Turn(h)'
  <2>1. Handled(h)' = {}
    BY <1>1 DEF Handled
  <2>2. CASE req'[h].pc = "answered" /\ req'[h].todo = {}
    BY <2>1, <2>2 DEF Turn, Working
  <2>3. CASE /\ req'[h].pc = "lock" /\ req'[h].todo = mapAlerts(req'[h].payload)
             /\ req'[h].todo # {} /\ req'[h].answer = 0
    <3>1. Due(h)' = req'[h].todo
      BY <2>3 DEF Due
    <3>2. QED BY <2>1, <2>3, <3>1 DEF Turn, Working
  <2>4. QED BY <2>2, <2>3, ReceiveIs
<1>3. QED BY <1>1, <1>2, TurnOthers DEF Types, Moves

\* The steps of a request at work.
Step(h) == TryLock(h) \/ Enrich(h) \/ PublishMessage(h) \/ Returned(h)

LEMMA StepIs ==
  ASSUME Types, NEW h \in Handlers, Step(h)
  PROVE  /\ req[h].pc \in Working /\ UNCHANGED requests
         /\ \/ /\ Stays(h) /\ req'[h].pc \in Working
               /\ req'[h].pc = "returned" => req'[h].result # "none"
            \/ \E fate \in {"published", "halted", "failed"} : Fate(h, fate)
<1>1. CASE TryLock(h)
  BY <1>1, TryLockIs DEF Working
<1>2. CASE Enrich(h)
  BY <1>2, EnrichIs DEF Working
<1>3. CASE PublishMessage(h)
  BY <1>3, PublishIs DEF Working
<1>4. CASE Returned(h)
  BY <1>4, ReturnedIs DEF Working
<1>5. QED BY <1>1, <1>2, <1>3, <1>4 DEF Step

LEMMA TypesRequest ==
  ASSUME Types, NEW h \in Handlers, Step(h)
  PROVE  Types'
<1>1. req[h].pc \in Working /\ requests' = requests
  BY StepIs
<1>2. Moves(h) /\ Turn(h)'
  <2>1. CASE /\ Stays(h) /\ req'[h].pc \in Working
             /\ req'[h].pc = "returned" => req'[h].result # "none"
    BY <1>1, <2>1, TurnStays DEF Stays
  <2>2. CASE \E fate \in {"published", "halted", "failed"} : Fate(h, fate)
    BY <1>1, <2>2, TurnFate
  <2>3. QED BY <2>1, <2>2, StepIs
<1>3. LockKey(Current(h)) \in Keys
  BY <1>1, PlaceIs
<1>4. locked' \subseteq Keys
  BY <1>3, TryLockIs, EnrichIs, PublishIs, ReturnedIs DEF Step, Types
<1>5. under' \in [Keys -> Nat]
  <2>1. CASE Stored(h)
    <3>1. under[LockKey(Current(h))] + 1 \in Nat
      BY <1>3 DEF Types
    <3>2. QED BY <1>3, <2>1, <3>1 DEF Types, Stored
  <2>2. CASE ~Stored(h)
    <3>1. under' = under
      BY <2>2, TryLockIs, EnrichIs, PublishIs, ReturnedIs DEF Step
    <3>2. QED BY <3>1 DEF Types
  <2>3. QED BY <2>1, <2>2
<1>6. QED BY <1>1, <1>2, <1>4, <1>5, TurnOthers DEF Types, Moves

LEMMA IdleTurn ==
  ASSUME NEW h \in Handlers, req[h] = ReqIdle
  PROVE  Turn(h)
BY IdleIs DEF Turn, Working, Handled

LEMMA TypesInit == Init => Types
<1> SUFFICES ASSUME Init PROVE Types
  OBVIOUS
<1>1. req \in [Handlers -> Requests] /\ \A h \in Handlers : req[h] = ReqIdle
  BY IdleIs DEF Init
<1>2. 0 \in 0..MaxRequests
  BY IntakeAssumption
<1>3. QED BY <1>1, <1>2, IdleTurn DEF Init, Types

LEMMA TypesStep ==
  ASSUME Types, [Next]_vars
  PROVE  Types'
<1>1. CASE Crash
  <2>1. req' \in [Handlers -> Requests] /\ \A h \in Handlers : req'[h] = ReqIdle
    BY <1>1, IdleIs DEF Crash
  <2>2. \A h \in Handlers : Turn(h)'
    BY <2>1, IdleIs DEF Turn, Working, Handled
  <2>3. UNCHANGED <<locked, under, requests>>
    BY <1>1 DEF Crash, shared
  <2>4. QED BY <2>1, <2>2, <2>3 DEF Types
<1>2. ASSUME NEW k \in Keys, Unlock(k) PROVE Types'
  <2>1. locked' \subseteq Keys /\ under' \in [Keys -> Nat]
    BY <1>2 DEF Unlock, Types
  <2>2. UNCHANGED <<req, requests>>
    BY <1>2 DEF Unlock
  <2>3. QED BY <2>1, <2>2 DEF Types, Turn, Handled, Due
<1>3. CASE UNCHANGED vars
  BY <1>3 DEF vars, shared, Types, Turn, Handled, Due
<1>4. QED BY <1>1, <1>2, <1>3, TypesReceive, TypesRequest DEF Next, Step

LEMMA TypesHold == Spec => []Types
<1>1. Init => Types
  BY TypesInit
<1>2. Types /\ [Next]_vars => Types'
  BY TypesStep
<1>3. QED BY <1>1, <1>2, PTL DEF Spec

\* The variables stay in their domains, and a request is at work exactly as
\* long as it has alerts to do: the batch loop neither ends early nor runs past
\* its last alert.
THEOREM TypeCorrect == Spec => []TypeOK
<1>1. Types => TypeOK
  BY DEF Types, TypeOK, Turn, Working, Requests
<1>2. QED BY <1>1, TypesHold, PTL
-----------------------------------------------------------------------------
(* The lock.                                                               *)

Busy(h) == req[h].pc \in {"fetch", "publish"}

\* A request between its lock and its message has the lock, alone, and no
\* message was published under that lock yet.
LockInv ==
  /\ \A k \in Keys : under[k] <= 1 /\ (k \notin locked => under[k] = 0)
  /\ \A h \in Handlers : Busy(h) =>
       LockKey(Current(h)) \in locked /\ under[LockKey(Current(h))] = 0
  /\ \A h, g \in Handlers : h # g /\ Busy(h) /\ Busy(g) =>
       LockKey(Current(h)) # LockKey(Current(g))

\* The alert at hand is the same until it is done with.
LEMMA SameCurrent ==
  ASSUME NEW h \in Handlers, Moves(h)
  PROVE  /\ Stays(h) => Current(h)' = Current(h)
         /\ \A g \in Handlers : g # h =>
              Current(g)' = Current(g) /\ (Busy(g)' <=> Busy(g))
BY DEF Moves, Stays, Current, Place, Busy

LEMMA FateEnds ==
  ASSUME Types, NEW h \in Handlers, req[h].pc \in Working,
         NEW fate \in {"published", "halted", "failed"}, Fate(h, fate)
  PROVE  Moves(h) /\ req'[h].pc \in {"lock", "answered"}
BY FateIs

\* A step that leaves the lock and its count alone, and takes no request up
\* to its message.
LEMMA LockKept ==
  ASSUME Types, LockInv, NEW h \in Handlers, Moves(h),
         locked \subseteq locked', under' = under, Busy(h)' => Busy(h) /\ Stays(h)
  PROVE  LockInv'
<1>1. \A g \in Handlers : Busy(g)' => Busy(g) /\ Current(g)' = Current(g)
  BY SameCurrent
<1>2. QED BY <1>1 DEF LockInv

LEMMA LockTaken ==
  ASSUME Types, LockInv, NEW h \in Handlers, TryLock(h)
  PROVE  LockInv'
<1>1. /\ req[h].pc = "lock" /\ req[h].pc \in Working /\ UNCHANGED under
      /\ LockKey(Current(h)) \in Keys /\ locked \subseteq locked'
  BY TryLockIs, PlaceIs DEF Working
<1>2. CASE /\ Stays(h) /\ req'[h].pc = "fetch" /\ LockKey(Current(h)) \notin locked
           /\ locked' = locked \union {LockKey(Current(h))}
  <2>1. under[LockKey(Current(h))] = 0
    BY <1>1, <1>2 DEF LockInv
  <2>2. /\ Current(h)' = Current(h)
        /\ \A g \in Handlers : g # h => Current(g)' = Current(g) /\ (Busy(g)' <=> Busy(g))
    BY <1>2, SameCurrent DEF Stays
  <2>3. \A g \in Handlers : g # h /\ Busy(g) => LockKey(Current(g)) # LockKey(Current(h))
    BY <1>2 DEF LockInv
  <2>4. QED BY <1>1, <1>2, <2>1, <2>2, <2>3 DEF LockInv
<1>3. CASE Stays(h) /\ req'[h].pc = "returned"
  BY <1>1, <1>3, LockKept DEF Stays, Busy
<1>4. CASE Fate(h, "failed")
  <2>1. Moves(h) /\ ~Busy(h)'
    BY <1>1, <1>4, FateEnds DEF Busy
  <2>2. QED BY <1>1, <2>1, LockKept
<1>5. QED BY <1>2, <1>3, <1>4, TryLockIs

LEMMA LockPublished ==
  ASSUME Types, LockInv, NEW h \in Handlers, PublishMessage(h)
  PROVE  LockInv'
<1>1. /\ req[h].pc \in Working /\ Busy(h) /\ UNCHANGED locked
      /\ LockKey(Current(h)) \in Keys
  BY PublishIs, PlaceIs DEF Working, Busy
<1>2. Moves(h) /\ ~Busy(h)'
  <2>1. CASE Stays(h) /\ req'[h].pc = "returned"
    BY <2>1 DEF Stays, Busy
  <2>2. CASE Fate(h, "failed")
    BY <1>1, <2>2, FateEnds DEF Busy
  <2>3. QED BY <2>1, <2>2, PublishIs
<1>3. CASE Stored(h)
  <2>1. /\ under'[LockKey(Current(h))] = 1
        /\ \A k \in Keys : k # LockKey(Current(h)) => under'[k] = under[k]
    <3>1. under[LockKey(Current(h))] = 0
      BY <1>1 DEF LockInv
    <3>2. QED BY <1>1, <1>3, <3>1 DEF Stored, Types
  <2>2. \A g \in Handlers : Busy(g)' => g # h /\ Busy(g) /\ Current(g)' = Current(g)
    BY <1>2, SameCurrent
  <2>3. \A g \in Handlers : Busy(g)' =>
          /\ LockKey(Current(g)) # LockKey(Current(h))
          /\ LockKey(Current(g)) \in Keys
    <3>1. \A g \in Handlers : Busy(g) => LockKey(Current(g)) \in Keys
      BY PlaceIs DEF Busy, Working
    <3>2. QED BY <1>1, <2>2, <3>1 DEF LockInv
  <2>4. \A k \in Keys : under'[k] <= 1 /\ (k \notin locked' => under'[k] = 0)
    BY <1>1, <2>1 DEF LockInv
  <2>5. QED BY <1>1, <2>1, <2>2, <2>3, <2>4 DEF LockInv
<1>4. CASE UNCHANGED under
  BY <1>1, <1>2, <1>4, LockKept
<1>5. QED BY <1>3, <1>4, PublishIs

LEMMA LockStep ==
  ASSUME Types, LockInv, [Next]_vars
  PROVE  LockInv'
<1>1. ASSUME NEW h \in Handlers, Receive(h) PROVE LockInv'
  BY <1>1, ReceiveIs, LockKept DEF Busy
<1>2. ASSUME NEW h \in Handlers, Enrich(h) PROVE LockInv'
  BY <1>2, EnrichIs, LockKept DEF Stays, Busy
<1>3. ASSUME NEW h \in Handlers, Returned(h) PROVE LockInv'
  <2>1. req[h].pc \in Working /\ UNCHANGED <<locked, under>>
    BY <1>3, ReturnedIs DEF Working
  <2>2. Moves(h) /\ ~Busy(h)'
    BY <1>3, <2>1, ReturnedIs, FateEnds DEF Busy
  <2>3. QED BY <2>1, <2>2, LockKept
<1>4. CASE Crash
  <2>1. UNCHANGED <<locked, under>> /\ \A h \in Handlers : ~Busy(h)'
    BY <1>4, IdleIs DEF Crash, shared, Busy
  <2>2. QED BY <2>1 DEF LockInv
<1>5. ASSUME NEW k \in Keys, Unlock(k) PROVE LockInv'
  <2>1. /\ req' = req /\ locked' = locked \ {k}
        /\ \A h \in Handlers : Busy(h) => LockKey(Current(h)) # k
    BY <1>5 DEF Unlock, Busy
  <2>2. under'[k] = 0 /\ \A l \in Keys : l # k => under'[l] = under[l]
    BY <1>5 DEF Unlock, Types
  <2>3. \A h \in Handlers : Busy(h) => LockKey(Current(h)) \in Keys
    BY PlaceIs DEF Busy, Working
  <2>4. \A h \in Handlers : (Busy(h)' <=> Busy(h)) /\ Current(h)' = Current(h)
    BY <2>1 DEF Busy, Current, Place
  <2>5. \A l \in Keys : under'[l] <= 1 /\ (l \notin locked' => under'[l] = 0)
    BY <2>1, <2>2 DEF LockInv
  <2>6. QED BY <2>1, <2>2, <2>3, <2>4, <2>5 DEF LockInv
<1>6. CASE UNCHANGED vars
  BY <1>6 DEF vars, shared, LockInv, Busy, Current, Place
<1>7. QED BY <1>1, <1>2, <1>3, <1>4, <1>5, <1>6, LockTaken, LockPublished DEF Next

\* One repair per lock: a group that names one failure twice, requests at
\* once, and a retry after a 500 publish one message while the key stays
\* locked (Publish).
THEOREM OnePerLock == Spec => []OneMessagePerLock
<1>1. Init => LockInv
  BY IdleIs DEF Init, LockInv, Busy
<1>2. Types /\ LockInv /\ [Next]_vars => LockInv'
  BY LockStep
<1>3. LockInv => OneMessagePerLock
  BY DEF LockInv, OneMessagePerLock
<1>4. QED BY <1>1, <1>2, <1>3, TypesHold, PTL DEF Spec
-----------------------------------------------------------------------------
(* Messages, rows and answers.                                             *)

\* What counts as published is in the stream, and has a row only then.
OrderInv ==
  /\ rows \subseteq stream
  /\ \A h \in Handlers :
       /\ req[h].pc = "returned" /\ req[h].result = "published" =>
            AlertID(Current(h)) \in stream
       /\ \A i \in req[h].published : AlertID(req[h].payload[i]) \in stream

\* The alerts a request is done with come first; an answer says if these are
\* all, and if one was published.
Told(h) ==
  /\ Handled(h) \subseteq Due(h)
  /\ \A i \in Handled(h), j \in Due(h) : j < i => j \in Handled(h)
  /\ req[h].answer \in {200, 202} => Handled(h) = Due(h)
  /\ req[h].answer = 202 => req[h].published # {}
  /\ req[h].answer = 200 => req[h].published = {}
  /\ req[h].answer = 500 => Handled(h) # Due(h)

AnswerInv == \A h \in Handlers : Told(h)

\* What a step of one request owes to OrderInv.
LEMMA OrderKept ==
  ASSUME OrderInv, NEW h \in Handlers, Moves(h), stream \subseteq stream',
         rows' \subseteq stream',
         req'[h].pc = "returned" /\ req'[h].result = "published" =>
           AlertID(Current(h)') \in stream',
         \A i \in req'[h].published : AlertID(req'[h].payload[i]) \in stream'
  PROVE  OrderInv'
<1>1. \A g \in Handlers : g # h => req'[g] = req[g] /\ Current(g)' = Current(g)
  BY DEF Moves, Current, Place
<1>2. QED BY <1>1 DEF OrderInv

LEMMA OrderFate ==
  ASSUME Types, OrderInv, NEW h \in Handlers, req[h].pc \in Working,
         NEW fate \in {"published", "halted", "failed"}, Fate(h, fate),
         fate = "published" => AlertID(Current(h)) \in stream,
         stream \subseteq stream', rows' \subseteq stream'
  PROVE  OrderInv'
<1>1. /\ Moves(h) /\ req'[h].pc # "returned" /\ req'[h].payload = req[h].payload
      /\ \A i \in req'[h].published :
           i \in req[h].published \/ (fate = "published" /\ i = Place(h))
  BY FateIs
<1>2. \A i \in req'[h].published : AlertID(req'[h].payload[i]) \in stream'
  BY <1>1 DEF OrderInv, Current
<1>3. QED BY <1>1, <1>2, OrderKept

LEMMA OrderStep ==
  ASSUME Types, OrderInv, [Next]_vars
  PROVE  OrderInv'
<1>1. ASSUME NEW h \in Handlers, Receive(h) PROVE OrderInv'
  <2>1. /\ Moves(h) /\ req'[h].published = {} /\ req'[h].pc # "returned"
        /\ UNCHANGED <<stream, rows>>
    BY <1>1, ReceiveIs
  <2>2. QED BY <2>1, OrderKept DEF OrderInv
<1>2. ASSUME NEW h \in Handlers, TryLock(h) PROVE OrderInv'
  <2>1. UNCHANGED <<stream, rows>> /\ req[h].pc \in Working
    BY <1>2, TryLockIs DEF Working
  <2>2. CASE /\ Stays(h)
             /\ req'[h].pc = "fetch" \/ (req'[h].pc = "returned" /\ req'[h].result = "halted")
    BY <2>1, <2>2, OrderKept DEF OrderInv, Stays
  <2>3. CASE Fate(h, "failed")
    BY <2>1, <2>3, OrderFate DEF OrderInv
  <2>4. QED BY <1>2, <2>2, <2>3, TryLockIs
<1>3. ASSUME NEW h \in Handlers, Enrich(h) PROVE OrderInv'
  <2>1. Stays(h) /\ req'[h].pc = "publish" /\ UNCHANGED <<stream, rows>>
    BY <1>3, EnrichIs
  <2>2. QED BY <2>1, OrderKept DEF OrderInv, Stays
<1>4. ASSUME NEW h \in Handlers, PublishMessage(h) PROVE OrderInv'
  <2>1. /\ req[h].pc \in Working /\ rows' = rows /\ stream \subseteq stream'
    BY <1>4, PublishIs DEF Working, Stored
  <2>2. rows' \subseteq stream'
    BY <2>1 DEF OrderInv
  <2>3. CASE Stored(h) /\ Stays(h)
    <3>1. Current(h)' = Current(h) /\ AlertID(Current(h)) \in stream'
      BY <2>3, SameCurrent DEF Stays, Stored
    <3>2. \A i \in req'[h].published : AlertID(req'[h].payload[i]) \in stream'
      BY <2>1, <2>3 DEF OrderInv, Stays
    <3>3. QED BY <2>1, <2>2, <2>3, <3>1, <3>2, OrderKept DEF Stays
  <2>4. CASE Fate(h, "failed")
    BY <2>1, <2>2, <2>4, OrderFate
  <2>5. QED BY <1>4, <2>3, <2>4, PublishIs
<1>5. ASSUME NEW h \in Handlers, Returned(h) PROVE OrderInv'
  <2>1. /\ req[h].pc \in Working /\ req[h].pc = "returned" /\ stream' = stream
        /\ req[h].result \in {"published", "halted"} /\ Fate(h, req[h].result)
    BY <1>5, ReturnedIs DEF Working
  <2>2. req[h].result = "published" => AlertID(Current(h)) \in stream
    BY <2>1 DEF OrderInv
  <2>3. rows' \subseteq stream'
    BY <1>5, <2>1, <2>2, ReturnedIs DEF OrderInv
  <2>4. QED BY <2>1, <2>2, <2>3, OrderFate
<1>6. CASE Crash
  <2>1. /\ UNCHANGED <<stream, rows>>
        /\ \A h \in Handlers : req'[h].pc = "idle" /\ req'[h].published = {}
    BY <1>6, IdleIs DEF Crash, shared
  <2>2. QED BY <2>1 DEF OrderInv
<1>7. ASSUME NEW k \in Keys, Unlock(k) PROVE OrderInv'
  <2>1. UNCHANGED <<req, stream, rows>>
    BY <1>7 DEF Unlock
  <2>2. QED BY <2>1 DEF OrderInv, Current, Place
<1>8. CASE UNCHANGED vars
  BY <1>8 DEF vars, shared, OrderInv, Current, Place
<1>9. QED BY <1>1, <1>2, <1>3, <1>4, <1>5, <1>6, <1>7, <1>8 DEF Next

LEMMA OrdersHold == Spec => []OrderInv
<1>1. Init => OrderInv
  BY IdleIs DEF Init, OrderInv
<1>2. Types /\ OrderInv /\ [Next]_vars => OrderInv'
  BY OrderStep
<1>3. QED BY <1>1, <1>2, TypesHold, PTL DEF Spec

\* A row says a repair was ordered: no halted or failed alert has one
\* (NewHandler's InsertRun).
THEOREM RowsOrdered == Spec => []RowsAreOrdered
<1>1. OrderInv => RowsAreOrdered
  BY DEF OrderInv, RowsAreOrdered
<1>2. QED BY <1>1, OrdersHold, PTL

LEMMA ToldFate ==
  ASSUME Types, NEW h \in Handlers, Told(h), req[h].pc \in Working,
         NEW fate \in {"published", "halted", "failed"}, Fate(h, fate)
  PROVE  Told(h)'
<1>1. /\ Place(h) \in req[h].todo /\ \A i \in req[h].todo : Place(h) <= i
      /\ Place(h) \in Due(h) /\ Place(h) \in Nat
      /\ Handled(h) \union req[h].todo = Due(h)
      /\ \A i \in Handled(h), j \in req[h].todo : i < j
      /\ Handled(h) \in SUBSET Nat /\ req[h].todo \in SUBSET Nat
      /\ Handled(h) \subseteq Due(h)
      /\ \A i \in Handled(h), j \in Due(h) : j < i => j \in Handled(h)
  BY PlaceIs DEF Types, Turn, Handled, Requests, Told
<1>2. Due(h)' = Due(h)
  BY FateIs DEF Due
<1>3. CASE fate = "failed"
  <2>1. Handled(h)' = Handled(h) /\ req'[h].answer = 500
    BY <1>3, FateIs DEF Handled
  <2>2. Place(h) \notin Handled(h)
    BY <1>1
  <2>3. QED BY <1>1, <1>2, <2>1, <2>2 DEF Told
<1>4. CASE fate # "failed"
  <2>1. Handled(h)' = Handled(h) \union {Place(h)}
    BY <1>4, FateIs DEF Handled
  <2>2. \A j \in Due(h) : j < Place(h) => j \in Handled(h)
    BY <1>1
  <2>3. /\ Handled(h)' \subseteq Due(h)'
        /\ \A i \in Handled(h)', j \in Due(h)' : j < i => j \in Handled(h)'
    BY <1>1, <1>2, <2>1, <2>2
  <2>4. CASE req[h].todo = {Place(h)}
    <3>1. Handled(h)' = Due(h)'
      BY <1>1, <1>2, <2>1, <2>4
    <3>2. req'[h].answer = IF req'[h].published # {} THEN 202 ELSE 200
      BY <1>4, <2>4, FateIs
    <3>3. QED BY <2>3, <3>1, <3>2 DEF Told
  <2>5. CASE req[h].todo # {Place(h)}
    <3>1. req'[h].answer = 0
      BY <1>4, <2>5, FateIs
    <3>2. QED BY <2>3, <3>1 DEF Told
  <2>6. QED BY <2>4, <2>5
<1>5. QED BY <1>3, <1>4

LEMMA ToldMoves ==
  ASSUME AnswerInv, NEW h \in Handlers, Moves(h), Told(h)'
  PROVE  AnswerInv'
<1>1. ASSUME NEW g \in Handlers, g # h PROVE Told(g)'
  <2>1. req'[g] = req[g]
    BY <1>1 DEF Moves
  <2>2. QED BY <2>1 DEF AnswerInv, Told, Handled, Due
<1>2. QED BY <1>1 DEF AnswerInv

LEMMA AnswerStep ==
  ASSUME Types, AnswerInv, [Next]_vars
  PROVE  AnswerInv'
<1>1. ASSUME NEW h \in Handlers, Receive(h) PROVE AnswerInv'
  <2>1. Moves(h) /\ req'[h].published = {} /\ Handled(h)' = {}
    BY <1>1, ReceiveIs DEF Handled
  <2>2. req'[h].answer \in {0, 400, 401} \/ (req'[h].answer = 200 /\ Due(h)' = {})
    BY <1>1, ReceiveIs DEF Due
  <2>3. Told(h)'
    BY <2>1, <2>2 DEF Told
  <2>4. QED BY <2>1, <2>3, ToldMoves
<1>2. ASSUME NEW h \in Handlers, Step(h) PROVE AnswerInv'
  <2>1. CASE Stays(h)
    <3>1. Handled(h)' = Handled(h) /\ Due(h)' = Due(h)
      BY <2>1 DEF Stays, Handled, Due
    <3>2. Told(h)'
      BY <2>1, <3>1 DEF Stays, AnswerInv, Told
    <3>3. QED BY <2>1, <3>2, ToldMoves DEF Stays
  <2>2. CASE \E fate \in {"published", "halted", "failed"} : Fate(h, fate)
    <3>1. Told(h)' /\ Moves(h)
      BY <1>2, <2>2, StepIs, ToldFate, FateEnds DEF AnswerInv
    <3>2. QED BY <3>1, ToldMoves
  <2>3. QED BY <1>2, <2>1, <2>2, StepIs
<1>3. CASE Crash
  <2>1. \A h \in Handlers : Handled(h)' = {} /\ req'[h].answer = 0
    BY <1>3, IdleIs DEF Crash, Handled
  <2>2. QED BY <2>1 DEF AnswerInv, Told
<1>4. ASSUME NEW k \in Keys, Unlock(k) PROVE AnswerInv'
  <2>1. req' = req
    BY <1>4 DEF Unlock
  <2>2. QED BY <2>1 DEF AnswerInv, Told, Handled, Due
<1>5. CASE UNCHANGED vars
  BY <1>5 DEF vars, AnswerInv, Told, Handled, Due
<1>6. QED BY <1>1, <1>2, <1>3, <1>4, <1>5 DEF Next, Step

\* What an answer says of its group is so: 200 and 202 that every firing and
\* complete alert was published or met a lock, 202 that one was published,
\* 500 that those before the failed one were dealt with (mapAlerts, NewHandler).
THEOREM AnswersAreTrue == Spec => []AnswerIsTrue
<1>1. Init => AnswerInv
  BY IdleIs DEF Init, AnswerInv, Told, Handled
<1>2. Types /\ AnswerInv /\ [Next]_vars => AnswerInv'
  BY AnswerStep
<1>3. Types /\ OrderInv /\ AnswerInv => AnswerIsTrue
  <2> SUFFICES ASSUME Types, OrderInv, AnswerInv, NEW h \in Handlers
               PROVE  LET r == req[h]
                          handled == r.published \union r.halted
                          due == Deliverable(r.payload) IN
                      /\ handled \subseteq due
                      /\ \A i \in handled, j \in due : j < i => j \in handled
                      /\ \A i \in r.published : AlertID(r.payload[i]) \in stream
                      /\ r.answer \in {200, 202} => handled = due
                      /\ r.answer = 202 => r.published # {}
                      /\ r.answer = 200 => r.published = {}
                      /\ r.answer = 500 => handled # due
    BY DEF AnswerIsTrue
  <2>1. Due(h) = Deliverable(req[h].payload)
    BY DueIsDeliverable DEF Types, Requests, Due
  <2>2. \A i \in req[h].published : AlertID(req[h].payload[i]) \in stream
    BY DEF OrderInv
  <2>3. QED BY <2>1, <2>2 DEF AnswerInv, Told, Handled
<1>4. QED BY <1>1, <1>2, <1>3, TypesHold, OrdersHold, PTL DEF Spec
=============================================================================
