------------------------- MODULE DigestBuffer_proofs -------------------------
(***************************************************************************)
(* Proofs about DigestBuffer, for any number of writers, keys, upserts,    *)
(* attempts and days, long ones among them, and every fault.               *)
(***************************************************************************)
EXTENDS DigestBuffer, TLAPS

Counts == [EventKeys -> Nat]

LEMMA CountArith ==
  /\ Zero \in Counts
  /\ \A f, g \in Counts : Plus(f, g) \in Counts
  /\ \A k \in EventKeys : One(k) \in Counts
BY DEF Counts, Zero, Plus, One

\* What the history and the document add up to after one more upsert, and
\* after a delete.
LEMMA CountSums ==
  ASSUME NEW f \in Counts, NEW g \in Counts, NEW h \in Counts
  PROVE  /\ Plus(Plus(f, g), h) = Plus(Plus(f, h), g)
         /\ Plus(Zero, f) = f /\ Plus(f, Zero) = f
         /\ Plus(f, g) = Plus(g, f)
         /\ \A k \in EventKeys : Plus(f, g)[k] = f[k] + g[k] /\ Plus(f, g)[k] >= f[k]
BY DEF Counts, Zero, Plus

(***************************************************************************)
(* Types, without the bounds that only a finite instance has.              *)
(***************************************************************************)
DocType == doc \in [Days -> [rev : Nat, live : BOOLEAN, count : Counts]]

WriterType ==
  /\ writer \in [Writers -> [pc : {"idle", "get", "put"}, day : Nat,
                             key : EventKeys \union {""}, attempt : Nat,
                             rev : Nat, count : Counts]]
  /\ \A w \in Writers : writer[w].pc # "idle" =>
       writer[w].day \in Days /\ writer[w].key \in EventKeys

CronType ==
  /\ cron \in [pc : {"wait", "post", "delete"}, due : Nat, day : Nat,
               count : Counts, ahead : BOOLEAN]
  /\ cron.pc # "wait" => cron.day = clock.day

ClockType == clock \in [day : Days, late : BOOLEAN]

HistType ==
  /\ applied \in [Days -> Counts] /\ early \in [Days -> Counts]
  /\ removed \in [Days -> Counts] /\ posted \in [Days -> Counts]
  /\ posts \in [Days -> Nat] /\ missed \subseteq Days

Types == DocType /\ WriterType /\ CronType /\ ClockType /\ HistType

LEMMA DaysAreNat == Days \subseteq Nat /\ LastDay \in Nat /\ 1 \in Days
BY DigestAssumption DEF Days

LEMMA CronWaitType ==
  ASSUME NEW now \in [day : Days, late : BOOLEAN]
  PROVE  /\ CronWait(now) \in [pc : {"wait", "post", "delete"}, due : Nat, day : Nat,
                               count : Counts, ahead : BOOLEAN]
         /\ CronWait(now).pc = "wait"
         /\ CronWait(now).due = IF now.late THEN now.day + 1 ELSE now.day
         /\ CronWait(now).ahead <=> (now.late /\ now.day + 1 \in LongDays)
<1>1. now.day \in Nat /\ now.late \in BOOLEAN
  BY DaysAreNat
<1>2. NextFire(now) \in Nat /\ NextFire(now) = IF now.late THEN now.day + 1 ELSE now.day
  BY <1>1 DEF NextFire
<1>3. (now.late /\ now.day + 1 \in LongDays) \in BOOLEAN
  OBVIOUS
<1>4. QED BY <1>2, <1>3, CountArith DEF CronWait

LEMMA TypesInit == Init => Types
<1> SUFFICES ASSUME Init PROVE Types
  OBVIOUS
<1> USE CountArith, DaysAreNat DEF Init
<1>1. DocType /\ HistType /\ ClockType
  BY DEF DocType, HistType, ClockType
<1>2. WriterType
  BY DEF WriterType, WriterIdle
<1>3. CronType
  BY <1>1, CronWaitType DEF CronType, ClockType
<1>4. QED BY <1>1, <1>2, <1>3 DEF Types

LEMMA ReturnType ==
  ASSUME WriterType, NEW w \in Writers, Return(w)
  PROVE  WriterType'
BY CountArith DEF WriterType, Return, WriterIdle

LEMMA TypesBegin ==
  ASSUME Types, NEW w \in Writers, Begin(w)
  PROVE  Types'
<1> USE DEF Types, Begin, hist
<1>1. PICK d \in Days, k \in EventKeys :
        writer' = [writer EXCEPT ![w] = [WriterIdle EXCEPT
                     !.pc = "get", !.day = d, !.key = k]]
  OBVIOUS
<1>2. WriterType'
  BY <1>1, CountArith, DaysAreNat DEF WriterType, WriterIdle
<1>3. QED
  BY <1>2 DEF DocType, CronType, ClockType, HistType

LEMMA TypesGet ==
  ASSUME Types, NEW w \in Writers, Get(w)
  PROVE  Types'
<1> USE DEF Types, Get, hist
<1>1. CASE Return(w)
  BY <1>1, ReturnType DEF DocType, CronType, ClockType, HistType
<1>2. CASE ~Return(w)
  <2> DEFINE d == doc[writer[w].day]
  <2>1. d \in [rev : Nat, live : BOOLEAN, count : Counts]
    BY DEF DocType, WriterType
  <2>2. writer' = [writer EXCEPT ![w].pc = "put",
                     ![w].rev = IF d.live THEN d.rev ELSE 0,
                     ![w].count = IF d.live THEN d.count ELSE Zero]
    BY <1>2
  <2>3. (IF d.live THEN d.rev ELSE 0) \in Nat /\ (IF d.live THEN d.count ELSE Zero) \in Counts
    BY <2>1, CountArith
  <2> HIDE DEF d
  <2>4. /\ writer \in [Writers -> [pc : {"idle", "get", "put"}, day : Nat,
                                    key : EventKeys \union {""}, attempt : Nat,
                                    rev : Nat, count : Counts]]
        /\ writer[w].day \in Days /\ writer[w].key \in EventKeys
    BY DEF WriterType
  <2> DEFINE r == IF d.live THEN d.rev ELSE 0
             c == IF d.live THEN d.count ELSE Zero
  <2>5. writer' = [writer EXCEPT ![w] = [writer[w] EXCEPT !.pc = "put", !.rev = r, !.count = c]]
    BY <2>2, <2>4
  <2> HIDE DEF r, c
  <2>6. [writer[w] EXCEPT !.pc = "put", !.rev = r, !.count = c]
          \in [pc : {"idle", "get", "put"}, day : Nat, key : EventKeys \union {""},
               attempt : Nat, rev : Nat, count : Counts]
    BY <2>3, <2>4 DEF r, c
  <2>7. WriterType'
    BY <2>4, <2>5, <2>6 DEF WriterType
  <2>8. QED
    BY <2>7 DEF DocType, CronType, ClockType, HistType
<1>3. QED BY <1>1, <1>2

LEMMA TypesPut ==
  ASSUME Types, NEW w \in Writers, Put(w)
  PROVE  Types'
<1> USE DEF Types, Put
<1> DEFINE me == writer[w]
<1>1. /\ me.day \in Days /\ me.key \in EventKeys /\ me.count \in Counts
      /\ One(me.key) \in Counts
  BY CountArith DEF WriterType
<1>2. CronType' /\ ClockType'
  BY DEF CronType, ClockType
<1>3. WriterType'
  <2>1. CASE Return(w)
    BY <2>1, ReturnType
  <2>2. CASE writer' = [writer EXCEPT ![w].pc = "get", ![w].attempt = @ + 1]
    <3>1. /\ writer \in [Writers -> [pc : {"idle", "get", "put"}, day : Nat,
                                      key : EventKeys \union {""}, attempt : Nat,
                                      rev : Nat, count : Counts]]
          /\ writer[w].attempt \in Nat
      BY DEF WriterType
    <3> DEFINE n == writer[w].attempt + 1
    <3>2. n \in Nat
      <4>1. \A i \in Nat : i + 1 \in Nat
        OBVIOUS
      <4>2. QED BY <3>1, <4>1, Zenon
    <3>3. writer' = [writer EXCEPT ![w] = [writer[w] EXCEPT !.pc = "get", !.attempt = n]]
      BY <2>2, <3>1
    <3> HIDE DEF n
    <3>4. [writer[w] EXCEPT !.pc = "get", !.attempt = n]
            \in [pc : {"idle", "get", "put"}, day : Nat, key : EventKeys \union {""},
                 attempt : Nat, rev : Nat, count : Counts]
      BY <3>1, <3>2
    <3>5. QED BY <1>1, <3>1, <3>3, <3>4 DEF WriterType
  <2>3. QED BY <2>1, <2>2
<1>4. DocType' /\ HistType'
  <2>1. CASE UNCHANGED <<doc, hist>>
    BY <2>1 DEF DocType, HistType, hist
  <2>2. CASE /\ Store(me.day, Plus(me.count, One(me.key)))
             /\ applied' = [applied EXCEPT ![me.day] = Plus(@, One(me.key))]
             /\ early' = IF clock = [day |-> me.day, late |-> FALSE]
                         THEN [early EXCEPT ![me.day] = Plus(@, One(me.key))]
                         ELSE early
             /\ UNCHANGED <<removed, posted, posts, missed>>
    <3>1. DocType'
      BY <1>1, <2>2, CountArith DEF DocType, Store
    <3>2. HistType'
      BY <1>1, <2>2, CountArith DEF HistType
    <3>3. QED BY <3>1, <3>2
  <2>3. QED BY <2>1, <2>2
<1>5. QED BY <1>2, <1>3, <1>4

LEMMA TypesFlush ==
  ASSUME Types, FlushGet \/ FlushPost \/ FlushDelete
  PROVE  Types'
<1> USE DEF Types
<1>1. WriterType' /\ ClockType'
  BY DEF FlushGet, FlushPost, FlushDelete, WriterType, ClockType
<1>2. clock \in [day : Days, late : BOOLEAN] /\ clock.day \in Days
  BY DEF ClockType
<1>3. CronType'
  <2>1. CASE cron' = CronWait(clock)
    BY <1>1, <1>2, <2>1, CronWaitType DEF CronType
  <2>2. CASE FlushGet
    BY <1>2, <2>1, <2>2, DaysAreNat DEF FlushGet, FlushDate, CronType, DocType
  <2>3. CASE FlushPost
    BY <2>1, <2>3 DEF FlushPost, PostFailed, OnPostError, CronType
  <2>4. CASE FlushDelete
    BY <2>1, <2>4 DEF FlushDelete
  <2>5. QED BY <2>2, <2>3, <2>4
<1>4. DocType'
  <2>1. CASE FlushDelete
    <3>1. CASE doc' = [doc EXCEPT ![cron.day] =
                         [rev |-> @.rev + 1, live |-> FALSE, count |-> Zero]]
      <4>1. cron.day \in Days /\ doc[cron.day].rev + 1 \in Nat
        BY <1>2, <2>1 DEF FlushDelete, DocType, CronType
      <4>2. QED BY <3>1, <4>1, CountArith DEF DocType
    <3>2. CASE UNCHANGED doc
      BY <3>2 DEF DocType
    <3>3. QED BY <2>1, <3>1, <3>2 DEF FlushDelete
  <2>2. CASE FlushGet \/ FlushPost
    BY <2>2 DEF FlushGet, FlushPost, DocType
  <2>3. QED BY <2>1, <2>2
<1>5. HistType'
  <2>1. CASE FlushGet
    BY <1>2, <2>1 DEF FlushGet, FlushFailed, HistType
  <2>2. CASE FlushPost
    <3>1. cron.day \in Days /\ cron.count \in Counts
      BY <1>2, <2>2 DEF FlushPost, CronType
    <3>2. posted' \in [Days -> Counts] /\ posts' \in [Days -> Nat]
      BY <2>2, <3>1, CountArith DEF FlushPost, HistType
    <3>3. missed' \subseteq Days
      BY <1>2, <2>2 DEF FlushPost, FlushFailed, HistType
    <3>4. QED BY <2>2, <3>2, <3>3 DEF FlushPost, HistType
  <2>3. CASE FlushDelete
    <3>1. cron.day \in Days /\ doc[cron.day].count \in Counts
      BY <1>2, <2>3 DEF FlushDelete, CronType, DocType
    <3>2. QED BY <2>3, <3>1, CountArith DEF FlushDelete, HistType
  <2>4. QED BY <2>1, <2>2, <2>3
<1>6. QED BY <1>1, <1>3, <1>4, <1>5

LEMMA TypesTime ==
  ASSUME Types, Tick \/ Crash
  PROVE  Types'
<1> USE DEF Types
<1>1. ClockType'
  <2>1. CASE Tick
    BY <2>1, DaysAreNat DEF Tick, ClockType
  <2>2. CASE Crash
    BY <2>2, DaysAreNat DEF Crash, ClockType, Days
  <2>3. QED BY <2>1, <2>2
<1>2. CronType'
  <2>1. CASE Tick
    BY <2>1 DEF Tick, CronType
  <2>2. CASE Crash
    <3>1. cron' = CronWait(clock')
      BY <2>2 DEF Crash
    <3>2. QED BY <1>1, <3>1, CronWaitType DEF CronType, ClockType
  <2>3. QED BY <2>1, <2>2
<1>3. WriterType'
  <2>1. CASE Tick
    BY <2>1 DEF Tick, WriterType
  <2>2. CASE Crash
    BY <2>2, CountArith DEF Crash, WriterType, WriterIdle
  <2>3. QED BY <2>1, <2>2
<1>4. DocType' /\ HistType'
  <2>1. CASE Tick
    BY <2>1 DEF Tick, DocType, HistType, hist
  <2>2. CASE Crash
    <3>1. missed' \subseteq Days
      <4>1. PICK d \in clock.day..LastDay, late \in BOOLEAN :
              missed' = missed \union
                (IF clock.late /\ ~TimerIsOver /\ cron.pc # "post"
                 THEN (clock.day..(IF late THEN d ELSE d - 1)) \ {clock.day}
                 ELSE clock.day..(IF late THEN d ELSE d - 1))
        BY <2>2 DEF Crash
      <4>2. clock.day..(IF late THEN d ELSE d - 1) \subseteq Days
        BY DaysAreNat DEF ClockType, Days
      <4>3. QED BY <4>1, <4>2 DEF HistType
    <3>2. QED BY <2>2, <3>1 DEF Crash, DocType, HistType
  <2>3. QED BY <2>1, <2>2
<1>5. QED BY <1>1, <1>2, <1>3, <1>4

LEMMA TypesStep ==
  ASSUME Types, [Next]_vars
  PROVE  Types'
<1>1. CASE UNCHANGED vars
  BY <1>1 DEF vars, hist, Types, DocType, WriterType, CronType, ClockType, HistType
<1>2. CASE Next
  BY <1>2, TypesBegin, TypesGet, TypesPut, TypesFlush, TypesTime DEF Next
<1>3. QED BY <1>1, <1>2

(***************************************************************************)
(* The buffer.  A writer that has read the document holds its counts as    *)
(* long as the revision is the one it read.  A revision is never used      *)
(* twice, a deleted document's included, and 0 is read only when there is  *)
(* no document: Create and Update never overwrite what was not read.       *)
(***************************************************************************)
Read(w) ==
  LET d == doc[writer[w].day] IN
  writer[w].pc = "put" =>
    /\ writer[w].rev <= d.rev
    /\ writer[w].rev = 0 => writer[w].count = Zero
    /\ writer[w].rev # 0 /\ writer[w].rev = d.rev => writer[w].count = d.count

Document(d) ==
  /\ ~doc[d].live => doc[d].count = Zero
  /\ doc[d].live => doc[d].rev # 0

BufferInv ==
  /\ \A w \in Writers : Read(w)
  /\ \A d \in Days : Document(d)
  /\ NoLostUpsert

(***************************************************************************)
(* The cron.  Between two flushes the timer is set for the next digest     *)
(* time, and for a digest time that has come only while its flush is due.  *)
(***************************************************************************)
Timer ==
  cron.pc = "wait" =>
    /\ cron.due \in {clock.day, clock.day + 1}
    /\ ~clock.late => cron.due = clock.day
    /\ cron.ahead => cron.due \in LongDays

\* Only a long day's document is read before the digest time.
Punctual == cron.pc # "wait" => clock.late \/ clock.day \in LongDays

\* The posts today's document may still have: the one under way, the one of
\* the digest time, and that of a timer which fires too early.
Left ==
  (IF cron.pc = "post" THEN 1 ELSE 0)
  + (IF ~clock.late \/ (cron.pc = "wait" /\ cron.due = clock.day) THEN 1 ELSE 0)
  + (IF ~clock.late /\ cron.pc = "wait" /\ cron.ahead THEN 1 ELSE 0)

Most(d) == IF d \in LongDays THEN 2 ELSE 1

PostInv ==
  /\ Timer /\ Punctual
  /\ \A d \in Days : d > clock.day => posts[d] = 0
  /\ posts[clock.day] + Left <= Most(clock.day)
  /\ PostedOncePerDay

DeleteInv ==
  /\ cron.pc = "delete" => posts[cron.day] > 0
  /\ DeletedOnlyAfterPost

(***************************************************************************)
(* The early entries of a day whose flush is over are posted, and those of *)
(* a flush under way are in the document it has read.                      *)
(***************************************************************************)
Flushed(d) ==
  \/ d < clock.day
  \/ /\ d = clock.day /\ clock.late
     /\ cron.pc = "delete" \/ (cron.pc = "wait" /\ cron.due # d)

EarlyInv ==
  /\ \A d \in Days, k \in EventKeys : early[d][k] <= applied[d][k]
  /\ \A d \in Days : d > clock.day => early[d] = Zero
  /\ cron.pc = "post" /\ clock.day \notin LongDays =>
       \A k \in EventKeys : cron.count[k] >= early[clock.day][k]
  /\ \A d \in Days \ (LongDays \union missed) :
       Flushed(d) => \A k \in EventKeys : posted[d][k] >= early[d][k]

-----------------------------------------------------------------------------
(* No upsert is lost.                                                      *)

LEMMA BufferInit == Init => BufferInv
<1> SUFFICES ASSUME Init PROVE BufferInv
  OBVIOUS
<1>1. \A w \in Writers : Read(w)
  BY DEF Init, Read, WriterIdle
<1>2. \A d \in Days : Document(d)
  BY DEF Init, Document
<1>3. NoLostUpsert
  BY CountArith, CountSums DEF Init, NoLostUpsert
<1>4. QED BY <1>1, <1>2, <1>3 DEF BufferInv

\* A step of one writer that is not in "put" after it, or that has just read
\* the document, when the documents stay as they are.
LEMMA WriterMoves ==
  ASSUME BufferInv, UNCHANGED <<doc, applied, removed>>, NEW w \in Writers,
         \A v \in Writers : v # w => writer'[v] = writer[v],
         Read(w)'
  PROVE  BufferInv'
<1>1. \A v \in Writers : Read(v)'
  BY DEF BufferInv, Read
<1>2. \A d \in Days : Document(d)'
  BY DEF BufferInv, Document
<1>3. NoLostUpsert'
  BY DEF BufferInv, NoLostUpsert
<1>4. QED BY <1>1, <1>2, <1>3 DEF BufferInv

LEMMA Returned ==
  ASSUME WriterType, NEW w \in Writers, Return(w)
  PROVE  /\ \A v \in Writers : v # w => writer'[v] = writer[v]
         /\ writer'[w].pc = "idle"
BY DEF WriterType, Return, WriterIdle

LEMMA BufferGet ==
  ASSUME Types, BufferInv, NEW w \in Writers, Get(w)
  PROVE  BufferInv'
<1>0. UNCHANGED <<doc, applied, removed>>
  BY DEF Get, hist
<1>1. CASE Return(w)
  <2>1. \A v \in Writers : v # w => writer'[v] = writer[v]
    BY <1>1, Returned DEF Types
  <2>2. Read(w)'
    BY <1>1, Returned DEF Types, Read
  <2>3. QED BY <1>0, <2>1, <2>2, WriterMoves
<1>2. CASE ~Return(w)
  <2> DEFINE d == doc[writer[w].day]
  <2>1. /\ d \in [rev : Nat, live : BOOLEAN, count : Counts]
        /\ writer[w].day \in Days /\ Document(writer[w].day)
    BY DEF Get, Types, DocType, WriterType, BufferInv
  <2>2. writer' = [writer EXCEPT ![w].pc = "put",
                     ![w].rev = IF d.live THEN d.rev ELSE 0,
                     ![w].count = IF d.live THEN d.count ELSE Zero]
    BY <1>2 DEF Get
  <2>3. \A v \in Writers : v # w => writer'[v] = writer[v]
    BY <2>2 DEF Types, WriterType
  <2>4. /\ writer'[w].day = writer[w].day
        /\ writer'[w].rev = IF d.live THEN d.rev ELSE 0
        /\ writer'[w].count = IF d.live THEN d.count ELSE Zero
    BY <2>2 DEF Types, WriterType
  <2>5. doc'[writer'[w].day] = d
    BY <1>0, <2>4
  <2>6. CASE d.live
    <3>1. d.rev # 0 /\ d.rev \in Nat
      BY <2>1, <2>6 DEF Document
    <3>2. QED BY <1>0, <2>3, <2>4, <2>5, <2>6, <3>1, WriterMoves DEF Read
  <2>7. CASE ~d.live
    <3>1. d.rev \in Nat
      BY <2>1
    <3>2. QED BY <1>0, <2>3, <2>4, <2>5, <2>7, <3>1, WriterMoves DEF Read
  <2>8. QED BY <2>6, <2>7
<1>3. QED BY <1>1, <1>2

\* A document of the new revision is no writer's: nobody has read it.
LEMMA DocumentMoves ==
  ASSUME Types, BufferInv, NEW d \in Days,
         doc'[d].rev = doc[d].rev + 1,
         ~doc'[d].live => doc'[d].count = Zero,
         \A x \in Days : x # d => doc'[x] = doc[x],
         \A v \in Writers : writer'[v] = writer[v] \/ writer'[v].pc # "put"
  PROVE  /\ \A v \in Writers : Read(v)'
         /\ \A x \in Days : Document(x)'
<1>1. doc[d].rev \in Nat
  BY DEF Types, DocType
<1>2. ASSUME NEW v \in Writers PROVE Read(v)'
  <2>1. CASE writer'[v].pc # "put"
    BY <2>1 DEF Read
  <2>2. CASE writer'[v] = writer[v] /\ writer[v].pc = "put"
    <3>1. /\ writer'[v] = writer[v] /\ writer[v].day \in Days /\ writer[v].rev \in Nat
          /\ writer[v].rev <= doc[writer[v].day].rev
          /\ writer[v].rev = 0 => writer[v].count = Zero
      BY <2>2 DEF Types, WriterType, BufferInv, Read
    <3>2. CASE writer[v].day = d
      <4>1. writer[v].rev <= doc[d].rev + 1 /\ writer[v].rev # doc[d].rev + 1
        BY <1>1, <3>1, <3>2
      <4>2. QED BY <1>1, <3>1, <3>2, <4>1 DEF Read
    <3>3. CASE writer[v].day # d
      BY <1>1, <2>2, <3>1, <3>3 DEF BufferInv, Read
    <3>4. QED BY <3>2, <3>3
  <2>3. QED BY <2>1, <2>2
<1>3. ASSUME NEW x \in Days PROVE Document(x)'
  <2>1. CASE x = d
    <3>1. doc[d].rev + 1 # 0
      BY <1>1
    <3>2. QED BY <1>1, <2>1, <3>1 DEF Document
  <2>2. CASE x # d
    BY <1>1, <2>2 DEF BufferInv, Document
  <2>3. QED BY <2>1, <2>2
<1>4. QED BY <1>2, <1>3

\* What a successful write read is what it overwrites.
LEMMA PutReadAll ==
  ASSUME Types, BufferInv, NEW w \in Writers, writer[w].pc = "put",
         NoConflict(doc[writer[w].day], writer[w].rev)
  PROVE  writer[w].count = doc[writer[w].day].count
<1> DEFINE me == writer[w]
           d == doc[me.day]
<1>1. me.day \in Days
  BY DEF Types, WriterType
<1>2. CASE me.rev = 0
  BY <1>1, <1>2 DEF NoConflict, BufferInv, Read, Document
<1>3. CASE me.rev # 0
  BY <1>1, <1>3 DEF NoConflict, BufferInv, Read
<1>4. QED BY <1>2, <1>3

LEMMA BufferPut ==
  ASSUME Types, BufferInv, NEW w \in Writers, Put(w)
  PROVE  BufferInv'
<1> DEFINE me == writer[w]
<1>1. /\ me.day \in Days /\ me.key \in EventKeys /\ me.count \in Counts
      /\ One(me.key) \in Counts /\ me.pc = "put" /\ me.rev \in Nat
  BY CountArith DEF Put, Types, WriterType
<1>2. CASE UNCHANGED <<doc, hist>>
  <2>1. Return(w) \/ writer' = [writer EXCEPT ![w].pc = "get", ![w].attempt = @ + 1]
    <3>1. CASE Return(w)
      BY <3>1
    <3>2. CASE ~Return(w)
      BY <3>2 DEF Put
    <3>3. QED BY <3>1, <3>2
  <2>2. /\ \A v \in Writers : v # w => writer'[v] = writer[v]
        /\ writer'[w].pc # "put"
    BY <2>1, Returned DEF Types, WriterType
  <2>3. Read(w)'
    BY <2>2 DEF Read
  <2>4. UNCHANGED <<doc, applied, removed>>
    BY <1>2 DEF hist
  <2>5. QED BY <2>2, <2>3, <2>4, WriterMoves
<1>3. CASE ~UNCHANGED <<doc, hist>>
  <2> DEFINE sum == Plus(me.count, One(me.key))
             d == doc[me.day]
  <2>1. /\ NoConflict(d, me.rev)
        /\ doc' = [doc EXCEPT ![me.day] =
                     [rev |-> d.rev + 1, live |-> TRUE, count |-> sum]]
        /\ applied' = [applied EXCEPT ![me.day] = Plus(applied[me.day], One(me.key))]
        /\ Return(w) /\ removed' = removed
    BY <1>3 DEF Put, Store
  <2>2. sum \in Counts
    BY <1>1, CountArith
  <2>3. /\ \A v \in Writers : v # w => writer'[v] = writer[v]
        /\ writer'[w].pc # "put"
    BY <2>1, Returned DEF Types
  <2>4. /\ \A v \in Writers : Read(v)'
        /\ \A x \in Days : Document(x)'
    <3>1. /\ doc'[me.day].rev = doc[me.day].rev + 1 /\ doc'[me.day].live
          /\ \A x \in Days : x # me.day => doc'[x] = doc[x]
      BY <1>1, <2>1 DEF Types, DocType
    <3>2. \A v \in Writers : writer'[v] = writer[v] \/ writer'[v].pc # "put"
      BY <2>3
    <3> HIDE DEF me
    <3>3. QED BY <1>1, <3>1, <3>2, DocumentMoves
  <2>5. me.count = d.count
    BY <1>1, <2>1, PutReadAll
  <2>6. ASSUME NEW x \in Days
        PROVE  Plus(doc'[x].count, removed'[x]) = applied'[x]
    <3>1. Plus(doc[x].count, removed[x]) = applied[x]
      BY DEF BufferInv, NoLostUpsert
    <3>2. CASE x # me.day
      BY <1>1, <2>1, <3>1, <3>2 DEF Types, DocType, HistType
    <3>3. CASE x = me.day
      <4>1. doc'[x].count = sum /\ applied'[x] = Plus(applied[x], One(me.key))
        BY <1>1, <2>1, <3>3 DEF Types, DocType, HistType
      <4>2. removed[x] \in Counts
        BY DEF Types, HistType
      <4>3. Plus(sum, removed[x]) = Plus(Plus(me.count, removed[x]), One(me.key))
        BY <1>1, <4>2, CountSums
      <4>4. me.count = doc[x].count /\ removed' = removed
        BY <2>1, <2>5, <3>3
      <4> HIDE DEF sum, d, me
      <4>5. QED BY <3>1, <4>1, <4>3, <4>4
    <3>4. QED BY <3>2, <3>3
  <2>7. QED BY <2>4, <2>6 DEF BufferInv, NoLostUpsert
<1>4. QED BY <1>2, <1>3

LEMMA BufferDelete ==
  ASSUME Types, BufferInv, FlushDelete
  PROVE  BufferInv'
<1> DEFINE d == cron.day
<1>1. d \in Days /\ doc[d].count \in Counts /\ removed[d] \in Counts
  BY DEF FlushDelete, Types, CronType, ClockType, DocType, HistType
<1>2. CASE UNCHANGED <<doc, removed>>
  BY <1>2 DEF FlushDelete, BufferInv, Read, Document, NoLostUpsert
<1>3. CASE ~UNCHANGED <<doc, removed>>
  <2>1. /\ doc' = [doc EXCEPT ![d] =
                     [rev |-> doc[d].rev + 1, live |-> FALSE, count |-> Zero]]
        /\ removed' = [removed EXCEPT ![d] = Plus(removed[d], doc[d].count)]
        /\ UNCHANGED <<writer, applied>>
    BY <1>3 DEF FlushDelete
  <2>2. /\ doc'[d].rev = doc[d].rev + 1 /\ doc'[d].count = Zero
        /\ \A x \in Days : x # d => doc'[x] = doc[x]
    BY <1>1, <2>1 DEF Types, DocType
  <2>3. /\ \A v \in Writers : Read(v)'
        /\ \A x \in Days : Document(x)'
    <3> HIDE DEF d
    <3>1. QED BY <1>1, <2>1, <2>2, DocumentMoves
  <2>4. ASSUME NEW x \in Days
        PROVE  Plus(doc'[x].count, removed'[x]) = applied'[x]
    <3>1. Plus(doc[x].count, removed[x]) = applied[x]
      BY DEF BufferInv, NoLostUpsert
    <3>2. CASE x # d
      BY <1>1, <2>1, <3>1, <3>2 DEF Types, DocType, HistType
    <3>3. CASE x = d
      <4>1. doc'[x].count = Zero /\ removed'[x] = Plus(removed[x], doc[x].count)
        BY <1>1, <2>1, <3>3 DEF Types, DocType, HistType
      <4>2. Plus(removed[x], doc[x].count) \in Counts
        BY <1>1, <3>3, CountArith
      <4>3. Plus(Zero, removed'[x]) = Plus(doc[x].count, removed[x])
        BY <1>1, <3>3, <4>1, <4>2, CountSums
      <4>4. applied' = applied
        BY <2>1
      <4>5. QED BY <3>1, <4>1, <4>3, <4>4
    <3>4. QED BY <3>2, <3>3
  <2>5. QED BY <2>3, <2>4 DEF BufferInv, NoLostUpsert
<1>4. QED BY <1>2, <1>3

LEMMA BufferStep ==
  ASSUME Types, BufferInv, [Next]_vars
  PROVE  BufferInv'
<1>1. CASE UNCHANGED <<doc, writer, applied, removed>>
  BY <1>1 DEF BufferInv, Read, Document, NoLostUpsert
<1>2. ASSUME NEW w \in Writers, Begin(w) PROVE BufferInv'
  <2>1. /\ \A v \in Writers : v # w => writer'[v] = writer[v]
        /\ writer'[w].pc = "get"
    BY <1>2 DEF Begin, Types, WriterType, WriterIdle
  <2>2. UNCHANGED <<doc, applied, removed>> /\ Read(w)'
    BY <1>2, <2>1 DEF Begin, hist, Read
  <2>3. QED BY <2>1, <2>2, WriterMoves
<1>3. ASSUME Crash PROVE BufferInv'
  <2>1. \A w \in Writers : Read(w)'
    BY <1>3 DEF Crash, Read, WriterIdle
  <2>2. QED BY <1>3, <2>1 DEF Crash, BufferInv, Document, NoLostUpsert
<1>4. FlushGet \/ FlushPost \/ Tick \/ UNCHANGED vars =>
        UNCHANGED <<doc, writer, applied, removed>>
  BY DEF FlushGet, FlushPost, Tick, vars, hist
<1>5. QED BY <1>1, <1>2, <1>3, <1>4, BufferGet, BufferPut, BufferDelete DEF Next

\* No upsert is lost to a concurrent one, whatever KV calls fail and whenever
\* the gateway stops: create-if-missing and update-at-revision
\* (digest.go:33-36, 74-102) never overwrite what the writer has not read.
THEOREM UpsertsAreKept == Spec => []NoLostUpsert
<1>1. Init => Types /\ BufferInv
  BY TypesInit, BufferInit
<1>2. Types /\ BufferInv /\ [Next]_vars => (Types /\ BufferInv)'
  BY TypesStep, BufferStep
<1>3. Types /\ BufferInv => NoLostUpsert
  BY DEF BufferInv
<1>4. QED BY <1>1, <1>2, <1>3, PTL DEF Spec
-----------------------------------------------------------------------------
(* A document is posted once, and deleted after that.                      *)

\* The timer set after a flush, and after a restart.
LEMMA TimerSet ==
  ASSUME ClockType', cron' = CronWait(clock')
  PROVE  /\ Timer' /\ Punctual'
         /\ Left' = IF clock'.late THEN 0 ELSE 1
         /\ cron'.pc = "wait"
         /\ clock'.late => cron'.due # clock'.day
<1>1. clock' \in [day : Days, late : BOOLEAN] /\ clock'.day \in Nat
  BY DaysAreNat DEF ClockType
<1>2. /\ cron'.pc = "wait"
      /\ cron'.due = IF clock'.late THEN clock'.day + 1 ELSE clock'.day
      /\ cron'.ahead <=> (clock'.late /\ clock'.day + 1 \in LongDays)
  BY <1>1, CronWaitType
<1>3. CASE clock'.late
  BY <1>1, <1>2, <1>3 DEF Timer, Punctual, Left
<1>4. CASE ~clock'.late
  BY <1>1, <1>2, <1>4 DEF Timer, Punctual, Left
<1>5. QED BY <1>3, <1>4, <1>2

LEMMA LeftIsNat == Left \in Nat
BY DEF Left

LEMMA PostInit == Init => PostInv /\ DeleteInv
<1> SUFFICES ASSUME Init PROVE PostInv /\ DeleteInv
  OBVIOUS
<1>1. clock = [day |-> 1, late |-> FALSE] /\ cron = CronWait(clock)
  BY DEF Init
<1>2. cron.pc = "wait" /\ cron.due = 1 /\ ~cron.ahead
  BY <1>1, DaysAreNat, CronWaitType
<1>3. Timer /\ Punctual /\ Left = 1
  BY <1>1, <1>2 DEF Timer, Punctual, Left
<1>4. PostInv
  BY <1>1, <1>3, DaysAreNat DEF Init, PostInv, PostedOncePerDay, Most
<1>5. DeleteInv
  BY <1>2 DEF Init, DeleteInv, DeletedOnlyAfterPost
<1>6. QED BY <1>4, <1>5

\* A step on the same day that posts nothing and takes no post from those
\* that are left.
LEMMA NoPost ==
  ASSUME Types, Types', PostInv, UNCHANGED <<clock, posts>>, Timer', Punctual', Left' <= Left
  PROVE  PostInv'
<1>1. posts[clock.day] + Left' <= Most(clock.day)
  <2>1. posts[clock.day] \in Nat /\ Most(clock.day) \in Nat
    BY DEF Types, ClockType, HistType, Most
  <2>2. posts[clock.day] + Left <= Most(clock.day)
    BY DEF PostInv
  <2>3. Left' \in Nat
    BY DEF Left
  <2>4. QED BY <2>1, <2>2, <2>3, LeftIsNat
<1>2. QED BY <1>1 DEF PostInv, PostedOncePerDay, Most

LEMMA PostFlushGet ==
  ASSUME Types, Types', PostInv, FlushGet
  PROVE  PostInv'
<1>1. /\ clock.day \in Nat /\ clock.late \in BOOLEAN /\ cron.ahead \in BOOLEAN
      /\ cron.pc = "wait" /\ cron.due = clock.day /\ (clock.late \/ cron.ahead)
      /\ UNCHANGED <<clock, posts>>
  BY DaysAreNat DEF FlushGet, TimerIsOver, Types, ClockType, CronType
<1>2. Left = IF clock.late THEN 1 ELSE 2
  BY <1>1 DEF Left
<1>3. CASE cron' = CronWait(clock)
  <2>1. ClockType' /\ cron' = CronWait(clock')
    BY <1>1, <1>3 DEF Types
  <2>2. Left' <= Left
    BY <1>1, <1>2, <2>1, TimerSet
  <2>3. QED BY <1>1, <2>1, <2>2, TimerSet, NoPost
<1>4. CASE cron' # CronWait(clock)
  <2>1. cron'.pc = "post"
    <3>1. cron' = [cron EXCEPT !.pc = "post", !.day = FlushDate(clock),
                               !.count = doc[FlushDate(clock)].count]
      BY <1>4 DEF FlushGet
    <3>2. QED BY <3>1 DEF Types, CronType
  <2>2. Left' = IF clock.late THEN 1 ELSE 2
    BY <1>1, <2>1 DEF Left
  <2>3. Timer' /\ Punctual'
    BY <1>1, <2>1 DEF Timer, Punctual, PostInv
  <2>4. Left' <= Left
    BY <1>2, <2>2
  <2>5. QED BY <1>1, <2>3, <2>4, NoPost
<1>5. QED BY <1>3, <1>4

LEMMA PostFlushPost ==
  ASSUME Types, Types', PostInv, FlushPost
  PROVE  PostInv'
<1>1. /\ clock.day \in Days /\ clock.day \in Nat /\ clock.late \in BOOLEAN
      /\ cron.pc = "post" /\ cron.day = clock.day /\ posts \in [Days -> Nat]
      /\ clock' = clock
  BY DaysAreNat DEF FlushPost, Types, ClockType, CronType, HistType
<1>2. Left = IF clock.late THEN 1 ELSE 2
  BY <1>1 DEF Left
<1>3. /\ Timer' /\ Punctual'
      /\ Left' = IF clock.late THEN 0 ELSE 1
  <2>1. CASE cron' = [cron EXCEPT !.pc = "delete"]
    <3>1. cron'.pc = "delete"
      BY <2>1 DEF Types, CronType
    <3>2. Timer' /\ Punctual'
      BY <1>1, <3>1 DEF Timer, Punctual, PostInv
    <3>3. QED BY <1>1, <3>1, <3>2 DEF Left
  <2>2. CASE PostFailed
    <3>1. ClockType' /\ cron' = CronWait(clock')
      BY <1>1, <2>2 DEF PostFailed, OnPostError, Types
    <3>2. QED BY <1>1, <3>1, TimerSet
  <2>3. QED BY <2>1, <2>2 DEF FlushPost
<1>4. CASE UNCHANGED posts
  BY <1>1, <1>2, <1>3, <1>4, NoPost
<1>5. CASE ~UNCHANGED posts
  <2>1. posts' = [posts EXCEPT ![clock.day] = posts[clock.day] + 1]
    BY <1>1, <1>5 DEF FlushPost
  <2>2. /\ posts'[clock.day] = posts[clock.day] + 1
        /\ \A d \in Days : d # clock.day => posts'[d] = posts[d]
    BY <1>1, <2>1
  <2>3. posts[clock.day] + Left <= Most(clock.day)
    BY DEF PostInv
  <2>4. posts'[clock.day] + Left' <= Most(clock.day)
    BY <1>1, <1>2, <1>3, <2>2, <2>3 DEF Most
  <2>5. posts'[clock.day] <= Most(clock.day)
    BY <1>1, <1>3, <2>2, <2>4 DEF Most
  <2>6. \A d \in Days : d > clock'.day => posts'[d] = 0
    BY <1>1, <2>2 DEF PostInv
  <2>7. PostedOncePerDay'
    BY <1>1, <2>2, <2>5 DEF PostedOncePerDay, PostInv, Most
  <2>8. (posts[clock.day] + Left <= Most(clock.day))'
    BY <1>1, <2>4 DEF Most
  <2>9. QED BY <1>3, <2>6, <2>7, <2>8 DEF PostInv
<1>6. QED BY <1>4, <1>5

LEMMA PostTick ==
  ASSUME Types, Types', PostInv, Tick
  PROVE  PostInv'
<1>1. /\ clock.day \in Nat /\ clock.late \in BOOLEAN /\ cron.ahead \in BOOLEAN
      /\ cron.pc = "wait" /\ ~(cron.due = clock.day /\ (clock.late \/ cron.ahead))
      /\ cron.due \in {clock.day, clock.day + 1}
      /\ ~clock.late => cron.due = clock.day
      /\ cron.ahead => cron.due \in LongDays
      /\ UNCHANGED <<cron, posts>>
  BY DaysAreNat DEF Tick, hist, TimerIsOver, Types, ClockType, CronType, PostInv, Timer
<1>2. clock'.day \in Days /\ posts \in [Days -> Nat]
  BY DEF Tick, Types, HistType
<1>3. CASE clock.late
  <2>1. clock'.day = clock.day + 1 /\ ~clock'.late /\ cron.due = clock.day + 1
    BY <1>1, <1>3 DEF Tick
  <2>2. Timer' /\ Punctual' /\ Left' <= Most(clock'.day)
    BY <1>1, <2>1 DEF Timer, Punctual, Left, Most
  <2>3. posts[clock.day + 1] = 0
    BY <1>1, <1>2, <2>1 DEF PostInv
  <2>4. posts'[clock'.day] + Left' <= Most(clock'.day)
    <3>1. posts'[clock'.day] = 0 /\ Left' \in Nat
      BY <1>1, <2>1, <2>3 DEF Left
    <3>2. QED BY <2>2, <3>1
  <2>5. \A d \in Days : d > clock'.day => posts'[d] = 0
    BY <1>1, <2>1, DaysAreNat DEF PostInv
  <2>6. QED BY <1>1, <2>2, <2>4, <2>5 DEF PostInv, PostedOncePerDay, Most
<1>4. CASE ~clock.late
  <2>1. clock'.day = clock.day /\ clock'.late
    BY <1>4 DEF Tick, Types, ClockType
  <2>2. Timer' /\ Punctual' /\ Left = 1 /\ Left' = 1
    BY <1>1, <1>4, <2>1 DEF Timer, Punctual, Left
  <2>3. QED BY <1>1, <2>1, <2>2 DEF PostInv, PostedOncePerDay, Most
<1>5. QED BY <1>1, <1>3, <1>4

\* What a restart knows of the day it happens on.
LEMMA Restart ==
  ASSUME Types, Crash
  PROVE  /\ clock.day \in Nat /\ clock'.day \in Nat /\ clock'.day >= clock.day
         /\ clock'.day = clock.day /\ clock.late => clock'.late
         /\ cron' = CronWait(clock')
         /\ UNCHANGED <<doc, applied, early, removed, posted, posts>>
<1>1. clock.day \in Nat /\ LastDay \in Nat
  BY DaysAreNat DEF Types, ClockType
<1>2. PICK d \in clock.day..LastDay, late \in BOOLEAN :
        /\ d = clock.day /\ clock.late => late
        /\ clock' = [day |-> d, late |-> late]
  BY DEF Crash
<1>3. d \in Nat /\ d >= clock.day /\ clock'.day = d /\ clock'.late = late
  BY <1>1, <1>2
<1>4. QED BY <1>1, <1>2, <1>3 DEF Crash

LEMMA PostCrash ==
  ASSUME Types, Types', PostInv, Crash
  PROVE  PostInv'
<1>1. /\ Timer' /\ Punctual'
      /\ Left' = IF clock'.late THEN 0 ELSE 1
  BY Restart, TimerSet DEF Types
<1>2. /\ posts \in [Days -> Nat] /\ clock'.day \in Days /\ clock.day \in Days
      /\ clock.late \in BOOLEAN /\ clock'.late \in BOOLEAN
  BY DEF Types, HistType, ClockType
<1>3. posts'[clock'.day] + Left' <= Most(clock'.day)
  <2>1. CASE clock'.day = clock.day
    <3>1. Left \in Nat /\ (~clock.late => Left >= 1)
      BY DEF Left
    <3>2. Left' <= Left
      BY <1>1, <1>2, <2>1, <3>1, Restart
    <3>3. posts[clock.day] + Left <= Most(clock.day)
      BY DEF PostInv
    <3>4. posts'[clock'.day] = posts[clock.day] /\ Most(clock.day) \in Nat /\ Left' \in Nat
      BY <1>1, <2>1, Restart DEF Most
    <3>5. QED BY <1>2, <2>1, <3>1, <3>2, <3>3, <3>4
  <2>2. CASE clock'.day # clock.day
    <3>1. posts'[clock'.day] = 0
      BY <1>2, <2>2, Restart DEF PostInv
    <3>2. QED BY <1>1, <3>1 DEF Most
  <2>3. QED BY <2>1, <2>2
<1>4. \A d \in Days : d > clock'.day => posts'[d] = 0
  BY Restart, DaysAreNat DEF PostInv
<1>5. PostedOncePerDay'
  BY Restart DEF PostInv, PostedOncePerDay
<1>6. (posts[clock.day] + Left <= Most(clock.day))'
  BY <1>3 DEF Most
<1>7. QED BY <1>1, <1>4, <1>5, <1>6 DEF PostInv

LEMMA PostStep ==
  ASSUME Types, Types', PostInv, [Next]_vars
  PROVE  PostInv'
<1>1. CASE UNCHANGED <<cron, clock, posts>>
  BY <1>1 DEF PostInv, Timer, Punctual, Left, Most, PostedOncePerDay
<1>2. (\E w \in Writers : Begin(w) \/ Get(w) \/ Put(w)) \/ UNCHANGED vars =>
        UNCHANGED <<cron, clock, posts>>
  BY DEF Begin, Get, Put, vars, hist
<1>3. CASE FlushDelete
  <2>1. ClockType' /\ cron' = CronWait(clock') /\ UNCHANGED <<clock, posts>>
    BY <1>3 DEF FlushDelete, Types
  <2>2. Left' <= Left
    <3>1. Left' = IF clock.late THEN 0 ELSE 1
      BY <2>1, TimerSet
    <3>2. Left \in Nat /\ (~clock.late => Left >= 1)
      BY DEF Left
    <3>3. QED BY <3>1, <3>2
  <2>3. QED BY <2>1, <2>2, TimerSet, NoPost
<1>4. QED BY <1>1, <1>2, <1>3, PostFlushGet, PostFlushPost, PostTick, PostCrash DEF Next

LEMMA DeleteStep ==
  ASSUME Types, Types', DeleteInv, [Next]_vars
  PROVE  DeleteInv'
<1>1. CASE UNCHANGED <<cron, posts, removed>>
  BY <1>1 DEF DeleteInv, DeletedOnlyAfterPost
<1>2. (\E w \in Writers : Begin(w) \/ Get(w) \/ Put(w)) \/ Tick \/ UNCHANGED vars =>
        UNCHANGED <<cron, posts, removed>>
  BY DEF Begin, Get, Put, Tick, vars, hist
<1>3. CASE Crash
  <2>1. cron'.pc = "wait"
    BY <1>3, Restart, TimerSet DEF Types
  <2>2. QED BY <1>3, <2>1, Restart DEF DeleteInv, DeletedOnlyAfterPost
<1>4. CASE FlushGet
  <2>1. cron'.pc # "delete"
    <3>1. CASE cron' = CronWait(clock)
      BY <3>1, CronWaitType DEF Types, ClockType
    <3>2. CASE cron' # CronWait(clock)
      <4>1. cron' = [cron EXCEPT !.pc = "post", !.day = FlushDate(clock),
                                 !.count = doc[FlushDate(clock)].count]
        BY <1>4, <3>2 DEF FlushGet
      <4>2. QED BY <4>1 DEF Types, CronType
    <3>3. QED BY <3>1, <3>2
  <2>2. QED BY <1>4, <2>1 DEF FlushGet, DeleteInv, DeletedOnlyAfterPost
<1>5. CASE FlushPost
  <2>1. cron.day \in Days /\ posts \in [Days -> Nat] /\ removed' = removed
    BY <1>5 DEF FlushPost, Types, CronType, ClockType, HistType
  <2>2. \A d \in Days : posts[d] > 0 => posts'[d] > 0
    BY <1>5, <2>1 DEF FlushPost
  <2>3. cron'.pc = "delete" => posts'[cron'.day] > 0
    <3>1. CASE PostFailed
      BY <3>1, CronWaitType DEF PostFailed, OnPostError, Types, ClockType
    <3>2. CASE ~PostFailed
      <4>1. /\ cron' = [cron EXCEPT !.pc = "delete"]
            /\ posts' = [posts EXCEPT ![cron.day] = posts[cron.day] + 1]
        BY <1>5, <3>2 DEF FlushPost
      <4>2. cron'.day = cron.day /\ posts'[cron.day] = posts[cron.day] + 1
        BY <2>1, <4>1 DEF Types, CronType
      <4>3. QED BY <2>1, <4>2
    <3>3. QED BY <3>1, <3>2
  <2>4. QED BY <2>1, <2>2, <2>3 DEF DeleteInv, DeletedOnlyAfterPost
<1>6. CASE FlushDelete
  <2>1. cron'.pc = "wait" /\ posts' = posts
    BY <1>6, CronWaitType DEF FlushDelete, Types, ClockType
  <2>2. posts[cron.day] > 0 /\ \A d \in Days : d # cron.day => removed'[d] = removed[d]
    BY <1>6 DEF FlushDelete, DeleteInv, Types, HistType
  <2>3. QED BY <2>1, <2>2 DEF DeleteInv, DeletedOnlyAfterPost
<1>7. QED BY <1>1, <1>2, <1>3, <1>4, <1>5, <1>6 DEF Next

\* A day's document is posted at most once, on a day of 25 hours at most
\* twice, however often the gateway restarts: nextFire (cron.go:36-50) never
\* returns a digest time that has passed.
THEOREM OnePostADay == Spec => []PostedOncePerDay
<1>1. Init => Types /\ PostInv
  BY TypesInit, PostInit
<1>2. Types /\ PostInv /\ [Next]_vars => (Types /\ PostInv)'
  BY TypesStep, PostStep
<1>3. Types /\ PostInv => PostedOncePerDay
  BY DEF PostInv
<1>4. QED BY <1>1, <1>2, <1>3, PTL DEF Spec

\* No document is deleted that Slack was not sent: flush returns on a failed
\* post (cron.go:72-75).
THEOREM PostBeforeDelete == Spec => []DeletedOnlyAfterPost
<1>1. Init => Types /\ DeleteInv
  BY TypesInit, PostInit
<1>2. Types /\ DeleteInv /\ [Next]_vars => (Types /\ DeleteInv)'
  BY TypesStep, DeleteStep
<1>3. Types /\ DeleteInv => DeletedOnlyAfterPost
  BY DEF DeleteInv
<1>4. QED BY <1>1, <1>2, <1>3, PTL DEF Spec
-----------------------------------------------------------------------------
(* The early entries of a day are posted.                                  *)

LEMMA CountLess ==
  ASSUME NEW f \in Counts, NEW g \in Counts, NEW k \in EventKeys
  PROVE  f[k] \in Nat /\ Plus(f, g)[k] = f[k] + g[k]
BY DEF Counts, Plus

LEMMA EarlyInit == Init => EarlyInv
<1> SUFFICES ASSUME Init PROVE EarlyInv
  OBVIOUS
<1>1. cron.pc = "wait" /\ clock.day = 1 /\ ~clock.late
  BY DaysAreNat, CronWaitType DEF Init
<1>2. \A d \in Days : ~Flushed(d)
  BY <1>1, DaysAreNat DEF Flushed, Days
<1>3. \A d \in Days, k \in EventKeys : early[d][k] <= applied[d][k]
  BY DEF Init, Zero
<1>4. QED BY <1>1, <1>2, <1>3 DEF Init, EarlyInv

\* The steps that touch neither the entries nor what is posted, and finish
\* no flush.
LEMMA EarlyKept ==
  ASSUME EarlyInv, UNCHANGED <<early, applied, posted, missed, clock>>,
         cron' = cron
  PROVE  EarlyInv'
BY DEF EarlyInv, Flushed

LEMMA EarlyPut ==
  ASSUME Types, PostInv, EarlyInv, NEW w \in Writers, Put(w)
  PROVE  EarlyInv'
<1> DEFINE me == writer[w]
           up == One(me.key)
<1>1. UNCHANGED <<cron, clock, posted, missed>>
  BY DEF Put, hist
<1>2. CASE UNCHANGED <<applied, early>>
  BY <1>1, <1>2, EarlyKept
<1>3. CASE ~UNCHANGED <<applied, early>>
  <2>1. /\ me.day \in Days /\ up \in Counts
        /\ applied \in [Days -> Counts] /\ early \in [Days -> Counts]
    BY CountArith DEF Put, Types, WriterType, HistType
  <2>2. /\ applied' = [applied EXCEPT ![me.day] = Plus(applied[me.day], up)]
        /\ early' = IF clock = [day |-> me.day, late |-> FALSE]
                    THEN [early EXCEPT ![me.day] = Plus(early[me.day], up)]
                    ELSE early
    BY <1>3 DEF Put, hist
  <2> HIDE DEF me, up
  <2>3. ASSUME NEW d \in Days, NEW k \in EventKeys
        PROVE  early'[d][k] <= applied'[d][k]
    <3>1. /\ early[d][k] <= applied[d][k] /\ early[d][k] \in Nat
          /\ applied[d][k] \in Nat /\ up[k] \in Nat
      BY <2>1 DEF EarlyInv, Counts
    <3>2. CASE d # me.day
      BY <2>1, <2>2, <3>1, <3>2
    <3>3. CASE d = me.day
      <4>1. applied'[d][k] = applied[d][k] + up[k]
        BY <2>1, <2>2, <3>3, CountLess
      <4>2. early'[d][k] = early[d][k] + up[k] \/ early'[d][k] = early[d][k]
        <5>1. CASE clock = [day |-> me.day, late |-> FALSE]
          BY <2>1, <2>2, <3>3, <5>1, CountLess
        <5>2. CASE clock # [day |-> me.day, late |-> FALSE]
          BY <2>2, <5>2
        <5>3. QED BY <5>1, <5>2
      <4>3. QED BY <3>1, <4>1, <4>2
    <3>4. QED BY <3>2, <3>3
  <2>4. CASE clock # [day |-> me.day, late |-> FALSE]
    BY <1>1, <2>2, <2>3, <2>4 DEF EarlyInv, Flushed
  <2>5. CASE clock = [day |-> me.day, late |-> FALSE]
    <3>1. /\ clock.day = me.day /\ ~clock.late /\ clock.day \in Nat
          /\ \A d \in Days : d # me.day => early'[d] = early[d]
      BY <2>1, <2>2, <2>5, DaysAreNat
    <3>2. \A d \in Days : d > clock'.day => early'[d] = Zero
      BY <1>1, <3>1, DaysAreNat DEF EarlyInv
    <3>3. ~(cron'.pc = "post" /\ clock'.day \notin LongDays)
      BY <1>1, <3>1 DEF PostInv, Punctual
    <3>4. \A d \in Days : Flushed(d)' => Flushed(d) /\ d # me.day
      BY <1>1, <3>1, DaysAreNat DEF Flushed
    <3>5. \A d \in Days \ (LongDays \union missed) :
            Flushed(d)' => \A k \in EventKeys : posted'[d][k] >= early'[d][k]
      BY <1>1, <3>1, <3>4 DEF EarlyInv
    <3>6. QED BY <1>1, <2>3, <3>2, <3>3, <3>5 DEF EarlyInv
  <2>6. QED BY <2>4, <2>5
<1>4. QED BY <1>2, <1>3

\* A step of the flush: of the day it is on, only what it posts, what it
\* holds and whether it is missed matter.
LEMMA EarlyFlush ==
  ASSUME Types, EarlyInv, UNCHANGED <<early, applied, clock>>,
         missed \subseteq missed',
         \A d \in Days : d # clock.day => posted'[d] = posted[d],
         clock.day \notin LongDays =>
           /\ cron'.pc = "post" =>
                \A k \in EventKeys : cron'.count[k] >= early[clock.day][k]
           /\ cron'.pc # "post" /\ clock.day \notin missed' =>
                \A k \in EventKeys : posted'[clock.day][k] >= early[clock.day][k]
  PROVE  EarlyInv'
<1>1. ASSUME NEW d \in Days \ (LongDays \union missed'), Flushed(d)', NEW k \in EventKeys
      PROVE  posted'[d][k] >= early'[d][k]
  <2>1. CASE d = clock.day
    <3>1. cron'.pc # "post"
      BY <1>1, <2>1, DaysAreNat DEF Flushed, Types, ClockType
    <3>2. QED BY <1>1, <2>1, <3>1
  <2>2. CASE d # clock.day
    <3>1. Flushed(d)
      BY <1>1, <2>2 DEF Flushed
    <3>2. QED BY <1>1, <2>2, <3>1 DEF EarlyInv
  <2>3. QED BY <2>1, <2>2
<1>2. QED BY <1>1 DEF EarlyInv

LEMMA EarlyFlushGet ==
  ASSUME Types, BufferInv, PostInv, DeleteInv, EarlyInv, FlushGet
  PROVE  EarlyInv'
<1> DEFINE d == clock.day
<1>1. /\ d \in Days /\ d \in Nat /\ clock.late \in BOOLEAN
      /\ cron.pc = "wait" /\ cron.due = d /\ (clock.late \/ cron.ahead)
      /\ UNCHANGED <<clock, early, applied, posted>>
      /\ FlushDate(clock) = d
      /\ doc[d].count \in Counts /\ removed[d] \in Counts /\ early[d] \in Counts
      /\ posted[d] \in Counts /\ applied[d] \in Counts
      /\ posts[d] \in Nat
  BY DaysAreNat DEF FlushGet, FlushDate, TimerIsOver, Types, ClockType, CronType,
     DocType, HistType
<1>2. missed \subseteq missed'
  BY DEF FlushGet, FlushFailed
<1>3. CASE d \in LongDays
  BY <1>1, <1>2, <1>3, EarlyFlush
<1>4. CASE d \notin LongDays
  <2>1. clock.late
    BY <1>1, <1>4 DEF PostInv, Timer
  <2>2. removed[d] = Zero
    <3>1. posts[d] + Left <= 1 /\ Left = 1
      BY <1>1, <1>4, <2>1 DEF PostInv, Most, Left
    <3>2. posts[d] = 0
      BY <1>1, <3>1
    <3>3. QED BY <1>1, <3>2 DEF DeleteInv, DeletedOnlyAfterPost
  <2>3. applied[d] = doc[d].count
    <3>1. Plus(doc[d].count, Zero) = doc[d].count
      BY <1>1, CountArith, CountSums
    <3>2. QED BY <1>1, <2>2, <3>1 DEF BufferInv, NoLostUpsert
  <2>4. ASSUME NEW k \in EventKeys
        PROVE  doc[d].count[k] >= early[d][k] /\ early[d][k] \in Nat
    BY <1>1, <2>3, CountLess DEF EarlyInv
  <2>5. CASE cron' = CronWait(clock) /\ ~doc[d].live
    <3>1. doc[d].count = Zero
      BY <1>1, <2>5 DEF BufferInv, Document
    <3>2. ASSUME NEW k \in EventKeys PROVE posted'[d][k] >= early[d][k]
      <4>1. Zero[k] = 0 /\ posted[d][k] \in Nat
        BY <1>1, CountLess DEF Zero
      <4>2. QED BY <1>1, <2>4, <3>1, <4>1
    <3>3. cron'.pc = "wait"
      BY <2>5, CronWaitType DEF Types, ClockType
    <3>4. QED BY <1>1, <1>2, <3>2, <3>3, EarlyFlush
  <2>6. CASE cron' = CronWait(clock) /\ doc[d].live /\ FlushFailed
    <3>1. d \in missed'
      BY <1>1, <2>1, <2>6 DEF FlushFailed, NextFire
    <3>2. cron'.pc = "wait"
      BY <2>6, CronWaitType DEF Types, ClockType
    <3>3. QED BY <1>1, <1>2, <3>1, <3>2, EarlyFlush
  <2>7. CASE cron' = [cron EXCEPT !.pc = "post", !.day = d, !.count = doc[d].count]
    <3>1. cron'.pc = "post" /\ cron'.count = doc[d].count
      BY <2>7 DEF Types, CronType
    <3>2. QED BY <1>1, <1>2, <2>4, <3>1, EarlyFlush
  <2>8. QED BY <1>1, <2>5, <2>6, <2>7 DEF FlushGet
<1>5. QED BY <1>3, <1>4

LEMMA EarlyFlushPost ==
  ASSUME Types, PostInv, EarlyInv, FlushPost
  PROVE  EarlyInv'
<1> DEFINE d == clock.day
<1>1. /\ d \in Days /\ d \in Nat /\ clock.late \in BOOLEAN
      /\ cron.pc = "post" /\ cron.day = d /\ cron.count \in Counts
      /\ UNCHANGED <<clock, early, applied>>
      /\ posted \in [Days -> Counts] /\ early[d] \in Counts
  BY DaysAreNat DEF FlushPost, Types, ClockType, CronType, HistType
<1>2. /\ missed \subseteq missed'
      /\ \A x \in Days : x # d => posted'[x] = posted[x]
  BY <1>1 DEF FlushPost, FlushFailed
<1>3. cron'.pc # "post"
  <2>1. CASE PostFailed
    BY <2>1, CronWaitType DEF PostFailed, OnPostError, Types, ClockType
  <2>2. CASE ~PostFailed
    BY <2>2 DEF FlushPost, Types, CronType
  <2>3. QED BY <2>1, <2>2
<1>4. CASE FlushFailed /\ UNCHANGED posted
  <2>1. d \notin LongDays => d \in missed'
    BY <1>1, <1>4 DEF PostInv, Punctual, FlushFailed, NextFire
  <2>2. QED BY <1>1, <1>2, <1>3, <2>1, EarlyFlush
<1>5. CASE ~(FlushFailed /\ UNCHANGED posted)
  <2>1. posted' = [posted EXCEPT ![d] = Plus(posted[d], cron.count)]
    BY <1>1, <1>5 DEF FlushPost
  <2>2. ASSUME d \notin LongDays, NEW k \in EventKeys
        PROVE  posted'[d][k] >= early[d][k]
    <3>1. cron.count[k] >= early[d][k]
      BY <1>1, <2>2 DEF EarlyInv
    <3>2. posted'[d][k] = posted[d][k] + cron.count[k] /\ posted[d][k] \in Nat
      BY <1>1, <2>1, CountLess
    <3>3. cron.count[k] \in Nat /\ early[d][k] \in Nat
      BY <1>1, CountLess
    <3>4. QED BY <3>1, <3>2, <3>3
  <2>3. QED BY <1>1, <1>2, <1>3, <2>2, EarlyFlush
<1>6. QED BY <1>4, <1>5

LEMMA EarlyFlushDelete ==
  ASSUME Types, PostInv, EarlyInv, FlushDelete
  PROVE  EarlyInv'
<1> DEFINE d == clock.day
<1>1. /\ d \in Days /\ cron.pc = "delete" /\ cron' = CronWait(clock)
      /\ UNCHANGED <<clock, early, applied, posted, missed>>
  BY DEF FlushDelete, Types, ClockType
<1>2. cron'.pc = "wait"
  BY <1>1, CronWaitType DEF Types, ClockType
<1>3. ASSUME d \notin LongDays, d \notin missed, NEW k \in EventKeys
      PROVE  posted[d][k] >= early[d][k]
  BY <1>1, <1>3 DEF PostInv, Punctual, Flushed, EarlyInv
<1>4. QED BY <1>1, <1>2, <1>3, EarlyFlush

LEMMA EarlyTick ==
  ASSUME Types, PostInv, EarlyInv, Tick
  PROVE  EarlyInv'
<1>1. /\ clock.day \in Nat /\ cron.pc = "wait" /\ UNCHANGED <<cron, hist>>
      /\ cron.due \in {clock.day, clock.day + 1} /\ ~TimerIsOver
      /\ ~clock.late => cron.due = clock.day
  BY DaysAreNat DEF Tick, Types, ClockType, PostInv, Timer
<1>2. \/ clock.late /\ clock'.day = clock.day + 1 /\ ~clock'.late
      \/ ~clock.late /\ clock'.day = clock.day /\ clock'.late
  BY DEF Tick, Types, ClockType
<1>3. \A d \in Days : Flushed(d)' => Flushed(d)
  BY <1>1, <1>2, DaysAreNat DEF Flushed, TimerIsOver
<1>4. \A d \in Days : d > clock'.day => d > clock.day
  BY <1>1, <1>2, DaysAreNat
<1>5. QED BY <1>1, <1>3, <1>4 DEF EarlyInv, hist

LEMMA EarlyCrash ==
  ASSUME Types, PostInv, EarlyInv, Crash
  PROVE  EarlyInv'
<1>1. /\ cron'.pc = "wait" /\ \A d \in Days : d > clock'.day => d > clock.day
      /\ UNCHANGED <<early, applied, posted>>
  BY Restart, TimerSet, TypesStep, DaysAreNat DEF Types, Next
<1>2. ASSUME NEW d \in Days \ (LongDays \union missed'), Flushed(d)'
      PROVE  Flushed(d) /\ d \notin missed
  <2>1. PICK x \in clock.day..LastDay, late \in BOOLEAN :
          /\ clock' = [day |-> x, late |-> late]
          /\ missed' = missed \union
               (IF clock.late /\ ~TimerIsOver /\ cron.pc # "post"
                THEN (clock.day..(IF late THEN x ELSE x - 1)) \ {clock.day}
                ELSE clock.day..(IF late THEN x ELSE x - 1))
    BY DEF Crash
  <2>2. /\ d \in Nat /\ clock.day \in Nat /\ x \in Nat /\ x >= clock.day
        /\ clock'.day = x /\ clock'.late = late
    <3>1. d \in Nat /\ clock.day \in Nat /\ LastDay \in Nat
      BY DaysAreNat DEF Types, ClockType
    <3>2. x \in Nat /\ x >= clock.day
      BY <3>1
    <3>3. QED BY <2>1, <3>1, <3>2
  <2>3. d < x \/ (d = x /\ late)
    BY <1>2, <2>2 DEF Flushed
  <2>4. d \notin missed
    BY <1>2, <2>1
  <2>5. CASE d < clock.day
    BY <2>4, <2>5 DEF Flushed
  <2>6. CASE d >= clock.day
    <3>1. d \in clock.day..(IF late THEN x ELSE x - 1)
      BY <2>2, <2>3, <2>6
    <3>2. d = clock.day /\ clock.late /\ ~TimerIsOver /\ cron.pc # "post"
      BY <1>2, <2>1, <3>1
    <3>3. cron.pc = "delete" \/ (cron.pc = "wait" /\ cron.due # d)
      BY <3>2 DEF TimerIsOver, Types, CronType
    <3>4. QED BY <2>4, <3>2, <3>3 DEF Flushed
  <2>7. QED BY <2>2, <2>5, <2>6
<1>3. QED BY <1>1, <1>2 DEF EarlyInv

LEMMA EarlyStep ==
  ASSUME Types, BufferInv, PostInv, DeleteInv, EarlyInv, [Next]_vars
  PROVE  EarlyInv'
<1>1. ASSUME NEW w \in Writers, Begin(w) \/ Get(w) PROVE EarlyInv'
  BY <1>1, EarlyKept DEF Begin, Get, hist
<1>2. CASE UNCHANGED vars
  BY <1>2, EarlyKept DEF vars, hist
<1>3. QED BY <1>1, <1>2, EarlyPut, EarlyFlushGet, EarlyFlushPost, EarlyFlushDelete,
             EarlyTick, EarlyCrash DEF Next

\* An occurrence recorded on its day before the digest time is in that day's
\* post unless that flush failed or was slept through: whatever else failed,
\* and however often the gateway restarted (cron.go:29-34, 52-70).
THEOREM EarlyIsPosted == Spec => []EarlyEntriesArePosted
<1> DEFINE IInv == Types /\ BufferInv /\ PostInv /\ DeleteInv /\ EarlyInv
<1>1. Init => IInv
  BY TypesInit, BufferInit, PostInit, EarlyInit
<1>2. IInv /\ [Next]_vars => IInv'
  BY TypesStep, BufferStep, PostStep, DeleteStep, EarlyStep
<1>3. IInv => EarlyEntriesArePosted
  BY DEF EarlyInv, EarlyEntriesArePosted, Flushed
<1>4. QED BY <1>1, <1>2, <1>3, PTL DEF Spec
-----------------------------------------------------------------------------
(* Types, with the bounds that the code sets.                              *)

Bounds ==
  /\ \A w \in Writers : writer[w].attempt < MaxAttempts
  /\ started \in 0..MaxUpserts
  /\ cron.pc # "wait" => cron.due = clock.day

LEMMA BoundsInit == Init => Bounds
<1> SUFFICES ASSUME Init PROVE Bounds
  OBVIOUS
<1>1. \A w \in Writers : writer[w].attempt < MaxAttempts
  <2>1. 0 < MaxAttempts
    BY DigestAssumption
  <2>2. QED BY <2>1 DEF Init, WriterIdle
<1>2. started \in 0..MaxUpserts
  BY DigestAssumption DEF Init
<1>3. cron.pc = "wait"
  BY DaysAreNat, CronWaitType DEF Init
<1>4. QED BY <1>1, <1>2, <1>3 DEF Bounds

\* A writer retries only while attempts are left.
LEMMA Attempts ==
  ASSUME Types, Bounds, [Next]_vars, NEW w \in Writers
  PROVE  writer'[w].attempt < MaxAttempts
<1>1. writer[w].attempt < MaxAttempts /\ 0 < MaxAttempts /\ writer[w].attempt \in Nat
  <2>1. writer[w].attempt \in Nat
    BY DEF Types, WriterType
  <2>2. MaxAttempts \in Nat /\ 0 < MaxAttempts
    BY DigestAssumption
  <2>3. QED BY <2>1, <2>2 DEF Bounds
<1>2. ASSUME NEW v \in Writers, Begin(v) \/ Get(v) \/ Return(v)
      PROVE  writer'[w].attempt < MaxAttempts
  <2>1. CASE Begin(v)
    <3>1. PICK d \in Days, k \in EventKeys :
            writer' = [writer EXCEPT ![v] = [WriterIdle EXCEPT
                         !.pc = "get", !.day = d, !.key = k]]
      BY <2>1 DEF Begin
    <3>2. writer'[w].attempt = writer[w].attempt \/ writer'[w].attempt = 0
      BY <3>1 DEF WriterIdle, Types, WriterType
    <3>3. QED BY <1>1, <3>2
  <2>2. CASE Return(v)
    BY <1>1, <2>2 DEF Return, WriterIdle, Types, WriterType
  <2>3. CASE Get(v) /\ ~Return(v)
    <3>1. writer'[w].attempt = writer[w].attempt
      <4> DEFINE d == doc[writer[v].day]
                 r == IF d.live THEN d.rev ELSE 0
                 c == IF d.live THEN d.count ELSE Zero
      <4>1. writer' = [writer EXCEPT ![v].pc = "put", ![v].rev = r, ![v].count = c]
        BY <2>3 DEF Get
      <4> HIDE DEF r, c
      <4>2. QED BY <4>1 DEF Types, WriterType
    <3>2. QED BY <1>1, <3>1
  <2>4. QED BY <1>2, <2>1, <2>2, <2>3
<1>3. ASSUME NEW v \in Writers, Put(v), ~Return(v)
      PROVE  writer'[w].attempt < MaxAttempts
  <2>1. /\ ~GiveUp(writer[v].attempt + 1)
        /\ writer' = [writer EXCEPT ![v].pc = "get", ![v].attempt = @ + 1]
    BY <1>3 DEF Put
  <2>2. /\ writer[v].attempt < MaxAttempts /\ writer[v].attempt \in Nat
        /\ writer[v].attempt + 1 # MaxAttempts /\ MaxAttempts \in Nat
    BY <2>1, DigestAssumption DEF GiveUp, Bounds, Types, WriterType
  <2>3. writer[v].attempt + 1 < MaxAttempts
    BY <2>2
  <2>4. \/ w = v /\ writer'[w].attempt = writer[v].attempt + 1
        \/ writer'[w].attempt = writer[w].attempt
    BY <2>1 DEF Types, WriterType
  <2>5. QED BY <1>1, <2>3, <2>4
<1>4. CASE Crash
  BY <1>1, <1>4 DEF Crash, WriterIdle
<1>5. CASE UNCHANGED writer
  BY <1>1, <1>5
<1>6. FlushGet \/ FlushPost \/ FlushDelete \/ Tick \/ UNCHANGED vars => UNCHANGED writer
  BY DEF FlushGet, FlushPost, FlushDelete, Tick, vars
<1>7. QED BY <1>2, <1>3, <1>4, <1>5, <1>6 DEF Next

LEMMA BoundsStep ==
  ASSUME Types, Types', Bounds, [Next]_vars
  PROVE  Bounds'
<1>1. started' \in 0..MaxUpserts
  <2>1. ASSUME NEW w \in Writers, Begin(w) PROVE started' \in 0..MaxUpserts
    BY <2>1, DigestAssumption DEF Bounds, Begin
  <2>2. CASE UNCHANGED started
    BY <2>2 DEF Bounds
  <2>3. QED
    BY <2>1, <2>2 DEF Next, Get, Put, FlushGet, FlushPost, FlushDelete, Tick, Crash, vars
<1>2. cron'.pc # "wait" => cron'.due = clock'.day
  <2>1. CASE UNCHANGED <<cron, clock>>
    BY <2>1 DEF Bounds
  <2>2. CASE cron' = CronWait(clock')
    BY <2>2, CronWaitType DEF Types, ClockType
  <2>3. CASE Tick
    BY <2>3 DEF Tick
  <2>4. CASE FlushGet /\ cron' # CronWait(clock)
    <3>1. cron' = [cron EXCEPT !.pc = "post", !.day = FlushDate(clock),
                               !.count = doc[FlushDate(clock)].count]
      BY <2>4 DEF FlushGet
    <3>2. cron.due = clock.day /\ clock' = clock
      BY <2>4 DEF FlushGet, TimerIsOver
    <3>3. QED BY <3>1, <3>2 DEF Types, CronType
  <2>5. CASE FlushPost /\ cron' # CronWait(clock)
    <3>1. cron' = [cron EXCEPT !.pc = "delete"] /\ clock' = clock /\ cron.pc = "post"
      BY <2>5 DEF FlushPost, PostFailed, OnPostError
    <3>2. QED BY <3>1 DEF Types, CronType, Bounds
  <2>6. FlushDelete \/ Crash => cron' = CronWait(clock')
    BY Restart DEF FlushDelete
  <2>7. FlushGet \/ FlushPost => clock' = clock
    BY DEF FlushGet, FlushPost
  <2>8. QED
    BY <2>1, <2>2, <2>3, <2>4, <2>5, <2>6, <2>7 DEF Next, Begin, Get, Put, vars
<1>3. QED BY <1>1, <1>2, Attempts DEF Bounds

\* The variables stay in their domains, and no writer tries more often than
\* maxDigestWriteAttempts (digest.go:79).
THEOREM TypeCorrect == Spec => []TypeOK
<1> DEFINE IInv == Types /\ BufferInv /\ PostInv /\ Bounds
<1>1. Init => IInv
  BY TypesInit, BufferInit, PostInit, BoundsInit
<1>2. IInv /\ [Next]_vars => IInv'
  BY TypesStep, BufferStep, PostStep, BoundsStep
<1>3. IInv => TypeOK
  <2> SUFFICES ASSUME IInv PROVE TypeOK
    OBVIOUS
  <2>1. \A d \in Days :
          /\ doc[d].rev \in Nat /\ doc[d].live \in BOOLEAN
          /\ doc[d].count \in [EventKeys -> Nat]
          /\ ~doc[d].live => doc[d].count = Zero
    BY DEF Types, DocType, Counts, BufferInv, Document
  <2>2. ASSUME NEW w \in Writers
        PROVE  writer[w].attempt \in 0..(MaxAttempts - 1)
    <3>1. writer[w].attempt \in Nat /\ writer[w].attempt < MaxAttempts
      BY DEF Types, WriterType, Bounds
    <3>2. MaxAttempts \in Nat
      BY DigestAssumption
    <3>3. QED BY <3>1, <3>2
  <2>3. cron.due \in clock.day..(clock.day + 1)
    <3>1. clock.day \in Nat
      BY DaysAreNat DEF Types, ClockType
    <3>2. cron.due \in {clock.day, clock.day + 1}
      BY DEF Bounds, PostInv, Timer
    <3>3. QED BY <3>1, <3>2
  <2>4. QED
    BY <2>1, <2>2, <2>3 DEF TypeOK, Types, WriterType, CronType, ClockType, HistType, Bounds
<1>4. QED BY <1>1, <1>2, <1>3, PTL DEF Spec
-----------------------------------------------------------------------------
(* The buffer implements Digest.                                           *)

Entries == [d \in Days |-> doc[d].count]
Page == [state |-> Stage[cron.pc], day |-> cron.day, count |-> cron.count]

LEMMA DigestVars ==
  /\ DG!vars = <<Entries, Page, posted, posts>>
  /\ DG!Blank = Zero
  /\ DG!NoPage = [state |-> "none", day |-> 0, count |-> Zero]
BY DEF DG!vars, Entries, Page, DG!Blank, DG!NoPage, Zero

\* Between two flushes there is no page.
LEMMA Waiting ==
  ASSUME NEW now \in [day : Days, late : BOOLEAN], cron' = CronWait(now)
  PROVE  Page' = DG!NoPage
BY DEF CronWait, Page, Stage, DG!NoPage, DG!Blank, Zero

LEMMA DigestInit == Init => DG!Init
<1> SUFFICES ASSUME Init PROVE DG!Init
  OBVIOUS
<1>1. clock \in [day : Days, late : BOOLEAN] /\ cron = CronWait(clock)
  BY DaysAreNat DEF Init
<1>2. Page = DG!NoPage
  BY <1>1 DEF CronWait, Page, Stage, DG!NoPage, DG!Blank, Zero
<1>3. Entries = [d \in Days |-> DG!Blank]
  BY DigestVars DEF Init, Entries
<1>4. QED
  BY <1>2, <1>3, DigestVars DEF Init, DG!Init, Page, Entries

\* A step that writes no document and leaves the flush alone is a stutter.
LEMMA DigestStutter ==
  ASSUME UNCHANGED <<doc, cron, posted, posts>>
  PROVE  UNCHANGED DG!vars
BY DigestVars DEF Entries, Page, DG!vars

\* A flush that ends without a delete, and a crash: the page is dropped.
LEMMA DigestGiveUp ==
  ASSUME UNCHANGED <<doc, posted, posts>>, Page' = DG!NoPage
  PROVE  DG!GiveUp
BY DEF DG!GiveUp, DG!NoPage, DG!Blank, Page

\* A write that goes through is one atomic count.
LEMMA DigestPut ==
  ASSUME Types, BufferInv, NEW w \in Writers, Put(w)
  PROVE  [DG!Next]_(DG!vars)
<1> DEFINE me == writer[w]
           d == me.day
           k == me.key
<1>1. d \in Days /\ k \in EventKeys /\ me.pc = "put" /\ UNCHANGED cron
  BY DEF Put, Types, WriterType
<1>2. CASE UNCHANGED <<doc, hist>>
  BY <1>1, <1>2, DigestStutter DEF hist
<1>3. CASE ~UNCHANGED <<doc, hist>>
  <2>1. /\ NoConflict(doc[d], me.rev)
        /\ doc' = [doc EXCEPT ![d] =
                     [rev |-> doc[d].rev + 1, live |-> TRUE,
                      count |-> Plus(me.count, One(k))]]
        /\ UNCHANGED <<posted, posts>>
    BY <1>3 DEF Put, Store
  <2>2. me.count = doc[d].count
    BY <1>1, <2>1, PutReadAll
  <2>3. \A x \in Days :
          doc'[x].count = IF x = d THEN Plus(doc[d].count, One(k)) ELSE doc[x].count
    BY <1>1, <2>1, <2>2 DEF Types, DocType
  <2>4. Plus(doc[d].count, One(k)) = [doc[d].count EXCEPT ![k] = @ + 1]
    BY <1>1 DEF Plus, One, Zero, Types, DocType, Counts
  <2>5. Entries' = [Entries EXCEPT ![d] = [Entries[d] EXCEPT ![k] = @ + 1]]
    BY <1>1, <2>3, <2>4 DEF Entries
  <2>6. DG!Add(d, k)
    BY <1>1, <2>1, <2>5 DEF DG!Add, Entries
  <2>7. QED BY <1>1, <2>6 DEF DG!Next, DG!Add
<1>4. QED BY <1>2, <1>3

\* The flush reads the day's counts, or there are none to be read.
LEMMA DigestFlushGet ==
  ASSUME Types, FlushGet, Page = DG!NoPage
  PROVE  [DG!Next]_(DG!vars)
<1> DEFINE d == clock.day
<1>1. /\ d \in Days /\ clock \in [day : Days, late : BOOLEAN]
      /\ UNCHANGED <<doc, posted, posts>>
  BY DEF FlushGet, Types, ClockType
<1>2. CASE cron' = CronWait(clock)
  BY <1>1, <1>2, Waiting, DigestGiveUp DEF DG!Next
<1>3. CASE cron' # CronWait(clock)
  <2>1. cron' = [cron EXCEPT !.pc = "post", !.day = d, !.count = doc[d].count]
    BY <1>3 DEF FlushGet, FlushDate
  <2>2. Page' = [state |-> "read", day |-> d, count |-> doc[d].count]
    BY <2>1 DEF Page, Stage, Types, CronType
  <2>3. DG!Look(d)
    BY <1>1, <2>2 DEF DG!Look, Page, Entries, DG!NoPage, DG!Blank
  <2>4. QED BY <1>1, <2>3 DEF DG!Next
<1>4. QED BY <1>2, <1>3

\* What was read is posted, while the day has a post left.
LEMMA DigestFlushPost ==
  ASSUME Types, PostInv, FlushPost
  PROVE  [DG!Next]_(DG!vars)
<1> DEFINE d == cron.day
<1>1. /\ d \in Days /\ d = clock.day /\ clock \in [day : Days, late : BOOLEAN]
      /\ cron.pc = "post" /\ UNCHANGED doc
  BY DEF FlushPost, Types, CronType, ClockType
<1>2. \/ Page' = DG!NoPage
      \/ Page' = [Page EXCEPT !.state = "posted"] /\ ~UNCHANGED <<posted, posts>>
  <2>1. CASE PostFailed
    BY <1>1, <2>1, Waiting DEF PostFailed, OnPostError
  <2>2. CASE ~PostFailed
    <3>1. cron' = [cron EXCEPT !.pc = "delete"] /\ posts' = [posts EXCEPT ![d] = posts[d] + 1]
      BY <2>2 DEF FlushPost
    <3>2. Page' = [Page EXCEPT !.state = "posted"]
      BY <3>1 DEF Page, Stage, Types, CronType
    <3>3. posts' # posts
      BY <1>1, <3>1 DEF Types, HistType
    <3>4. QED BY <3>2, <3>3
  <2>3. QED BY <2>1, <2>2
<1>3. CASE UNCHANGED <<posted, posts>>
  BY <1>1, <1>2, <1>3, DigestGiveUp DEF DG!Next
<1>4. CASE ~UNCHANGED <<posted, posts>>
  <2>1. /\ posted' = [posted EXCEPT ![d] = Plus(posted[d], cron.count)]
        /\ posts' = [posts EXCEPT ![d] = posts[d] + 1]
    BY <1>4 DEF FlushPost
  <2>2. posts[d] < Most(d)
    <3>1. posts[d] + Left <= Most(d) /\ posts[d] \in Nat
      BY <1>1 DEF PostInv, Types, HistType
    <3>2. Left \in Nat /\ Left >= 1
      BY <1>1 DEF Left
    <3>3. QED BY <3>1, <3>2 DEF Most
  <2>3. DG!Post
    BY <1>1, <1>2, <2>1, <2>2
    DEF DG!Post, Page, Stage, Plus, Most, Entries
  <2>4. QED BY <2>3 DEF DG!Next
<1>5. QED BY <1>3, <1>4

\* The delete follows the post.
LEMMA DigestFlushDelete ==
  ASSUME Types, FlushDelete
  PROVE  [DG!Next]_(DG!vars)
<1> DEFINE d == cron.day
<1>1. /\ d \in Days /\ clock \in [day : Days, late : BOOLEAN] /\ cron.pc = "delete"
      /\ UNCHANGED <<posted, posts>> /\ cron' = CronWait(clock)
  BY DEF FlushDelete, Types, CronType, ClockType
<1>2. Page' = DG!NoPage
  BY <1>1, Waiting
<1>3. CASE UNCHANGED doc
  BY <1>1, <1>2, <1>3, DigestGiveUp DEF DG!Next
<1>4. CASE ~UNCHANGED doc
  <2>1. doc' = [doc EXCEPT ![d] = [rev |-> doc[d].rev + 1, live |-> FALSE, count |-> Zero]]
    BY <1>4 DEF FlushDelete
  <2>2. \A x \in Days : doc'[x].count = IF x = d THEN Zero ELSE doc[x].count
    BY <1>1, <2>1 DEF Types, DocType
  <2>3. Entries' = [Entries EXCEPT ![d] = DG!Blank]
    BY <1>1, <2>2, DigestVars DEF Entries
  <2>4. DG!Clear
    BY <1>1, <1>2, <2>3 DEF DG!Clear, Page, Stage, Entries
  <2>5. QED BY <2>4 DEF DG!Next
<1>5. QED BY <1>3, <1>4

\* While the cron waits, the page is blank.
PageInv == cron.pc = "wait" => Page = DG!NoPage

LEMMA DigestStep ==
  ASSUME Types, BufferInv, PostInv, PageInv, Types', [Next]_vars
  PROVE  [DG!Next]_(DG!vars) /\ PageInv'
<1>1. CASE UNCHANGED vars
  <2>1. UNCHANGED <<doc, cron, posted, posts>>
    BY <1>1 DEF vars, hist
  <2>2. QED BY <2>1, DigestStutter DEF PageInv, Page, DG!NoPage, DG!Blank
<1>2. ASSUME NEW w \in Writers, Begin(w) \/ Get(w)
      PROVE  [DG!Next]_(DG!vars) /\ PageInv'
  <2>1. UNCHANGED <<doc, cron, posted, posts>>
    BY <1>2 DEF Begin, Get, hist
  <2>2. QED BY <2>1, DigestStutter DEF PageInv, Page, DG!NoPage, DG!Blank
<1>3. ASSUME NEW w \in Writers, Put(w)
      PROVE  [DG!Next]_(DG!vars) /\ PageInv'
  BY <1>3, DigestPut DEF Put, PageInv, Page, DG!NoPage, DG!Blank
<1>4. CASE Tick
  <2>1. UNCHANGED <<doc, cron, posted, posts>>
    BY <1>4 DEF Tick, hist
  <2>2. QED BY <2>1, DigestStutter DEF PageInv, Page, DG!NoPage, DG!Blank
<1>5. CASE Crash
  <2>1. Page' = DG!NoPage /\ UNCHANGED <<doc, posted, posts>>
    BY <1>5, Restart, Waiting DEF Types, ClockType
  <2>2. QED
    BY <2>1, DigestGiveUp DEF DG!Next, PageInv, Page, DG!NoPage, DG!Blank
<1>6. ASSUME cron'.pc = "wait", FlushGet \/ FlushPost \/ FlushDelete PROVE PageInv'
  <2>1. cron' = CronWait(clock) /\ clock \in [day : Days, late : BOOLEAN]
    BY <1>6 DEF FlushGet, FlushPost, FlushDelete, PostFailed, OnPostError, Types, ClockType, CronType
  <2>2. QED
    BY <2>1, Waiting DEF PageInv, Page, DG!NoPage, DG!Blank
<1>7. CASE FlushGet
  <2>1. Page = DG!NoPage
    BY <1>7 DEF FlushGet, TimerIsOver, PageInv
  <2>2. QED BY <1>6, <1>7, <2>1, DigestFlushGet DEF PageInv
<1>8. CASE FlushPost \/ FlushDelete
  BY <1>6, <1>8, DigestFlushPost, DigestFlushDelete DEF PageInv
<1>9. QED
  BY <1>1, <1>2, <1>3, <1>4, <1>5, <1>7, <1>8 DEF Next

\* The buffer implements Digest: whatever the writers, retries, failures and
\* restarts, each upsert that goes through is one atomic count, a post carries
\* what was read, a day has no more posts than it may have, and only a post
\* lets its counts be deleted (digest.go:33-86, cron.go:20-82).
THEOREM DigestImplemented == Spec => ImplementsDigest
<1> DEFINE IInv == Types /\ BufferInv /\ PostInv /\ PageInv
<1>1. Init => IInv
  <2>1. Init => PageInv
    BY DigestInit DEF DG!Init, PageInv, Page
  <2>2. QED BY <2>1, TypesInit, BufferInit, PostInit
<1>2. IInv /\ [Next]_vars => IInv' /\ [DG!Next]_(DG!vars)
  BY TypesStep, BufferStep, PostStep, DigestStep
<1>3. QED
  BY <1>1, <1>2, DigestInit, PTL DEF Spec, ImplementsDigest, DG!Spec
=============================================================================
