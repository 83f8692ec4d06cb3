---------------------------- MODULE DigestBuffer ----------------------------
(***************************************************************************)
(* The day's digest buffer: one NATS KV document per date, written by      *)
(* concurrent UpsertDigestEntry calls under the entry's revision, and      *)
(* read, posted to Slack and deleted by the daily cron.                    *)
(*                                                                         *)
(* A document is the count of each event key (0: no entry).  The texts and *)
(* the order of the entries are left out.                                  *)
(***************************************************************************)
EXTENDS Naturals, FiniteSets

CONSTANTS
  EventKeys,    \* keys entries collapse under: lock keys and alert_ids
  Writers,      \* bound: concurrent UpsertDigestEntry calls
  LastDay,      \* bound: days of a behaviour
  LongDays,     \* days of 25 hours: the clocks go back before the digest time
  MaxUpserts,   \* bound: UpsertDigestEntry calls in a behaviour
  MaxAttempts,  \* maxDigestWriteAttempts
  Env           \* faults that may happen

EnvEvents == {"crash",  \* the gateway stops, and restarts now or any time later
              "kv",     \* a KV call fails (after its effect: as if it succeeded)
              "slack"}  \* the webhook does not answer 200

ASSUME DigestAssumption ==
  /\ LastDay \in Nat \ {0} /\ MaxUpserts \in Nat
  /\ MaxAttempts \in Nat \ {0}
  /\ LongDays \subseteq 2..LastDay
  /\ Env \subseteq EnvEvents

Days == 1..LastDay

VARIABLES
  doc,      \* revi.digest.{day}: revision, whether it exists, counts
  writer,   \* the UpsertDigestEntry calls
  cron,     \* the digestcron goroutine
  clock,    \* today, and whether REVI_DIGEST_TIME has passed
  started,  \* upserts begun so far
  applied,  \* history: upserts that reached the document
  early,    \* history: those that did so on their own day before 08:00
  removed,  \* history: counts deleted from the buffer
  posted,   \* history: counts posted to Slack
  posts,    \* history: posts of each day's document
  missed    \* history: days whose flush at the digest time failed or was slept through

hist == <<applied, early, removed, posted, posts, missed>>
vars == <<doc, writer, cron, clock, started, hist>>

May(e) == e \in Env
Zero == [k \in EventKeys |-> 0]
Plus(f, g) == [k \in EventKeys |-> f[k] + g[k]]
One(k) == [Zero EXCEPT ![k] = 1]

WriterIdle == [pc |-> "idle", day |-> 0, key |-> "", attempt |-> 0,
               rev |-> 0, count |-> Zero]
-----------------------------------------------------------------------------
(* UpsertDigestEntry.                                                      *)

\* Alerts and skips write to today; a report names its own date, which may
\* be the day before.
Begin(w) ==
  /\ writer[w].pc = "idle"
  /\ started < MaxUpserts
  /\ started' = started + 1
  /\ \E d \in {clock.day, clock.day - 1} \cap Days, k \in EventKeys :
       writer' = [writer EXCEPT ![w] = [WriterIdle EXCEPT
                    !.pc = "get", !.day = d, !.key = k]]
  /\ UNCHANGED <<doc, cron, clock, hist>>

Return(w) == writer' = [writer EXCEPT ![w] = WriterIdle]

\* A deleted or never written key reads as ErrKeyNotFound: revision 0.
Get(w) ==
  LET d == doc[writer[w].day] IN
  /\ writer[w].pc = "get"
  /\ \/ writer' = [writer EXCEPT ![w].pc = "put",
                     ![w].rev = IF d.live THEN d.rev ELSE 0,
                     ![w].count = IF d.live THEN d.count ELSE Zero]
     \/ May("kv") /\ Return(w)
  /\ UNCHANGED <<doc, cron, clock, started, hist>>

\* Mutant: a plain Put.
NoConflict_Put(d, rev) == d.rev >= rev

\* Create needs the key to be missing, Update the revision that was read.
NoConflict(d, rev) == IF rev = 0 THEN ~d.live ELSE d.rev = rev

Store(d, count) ==
  doc' = [doc EXCEPT ![d] = [rev |-> @.rev + 1, live |-> TRUE, count |-> count]]

\* Mutant: one attempt too many.
GiveUp_OneMore(n) == n > MaxAttempts

GiveUp(n) == n = MaxAttempts

Put(w) ==
  LET me == writer[w] IN
  /\ me.pc = "put"
  /\ \/ /\ NoConflict(doc[me.day], me.rev)
        /\ Store(me.day, Plus(me.count, One(me.key)))
        /\ applied' = [applied EXCEPT ![me.day] = Plus(@, One(me.key))]
        /\ early' = IF clock = [day |-> me.day, late |-> FALSE]
                    THEN [early EXCEPT ![me.day] = Plus(@, One(me.key))]
                    ELSE early
        /\ Return(w)
        /\ UNCHANGED <<removed, posted, posts, missed>>
     \/ /\ ~NoConflict(doc[me.day], me.rev)
        /\ IF GiveUp(me.attempt + 1)
           THEN Return(w)
           ELSE writer' = [writer EXCEPT ![w].pc = "get", ![w].attempt = @ + 1]
        /\ UNCHANGED <<doc, hist>>
     \/ May("kv") /\ Return(w) /\ UNCHANGED <<doc, hist>>
  /\ UNCHANGED <<cron, clock, started>>
-----------------------------------------------------------------------------
(* digestcron.Run and flush.                                               *)

\* Mutant: a digest time that has just passed counts as still to come.
NextFire_Again(now) == now.day

NextFire(now) == IF now.late THEN now.day + 1 ELSE now.day

\* Mutant: the date of a time zone where the next day has begun.
FlushDate_Ahead(now) == IF now.day = LastDay THEN now.day ELSE now.day + 1

FlushDate(now) == now.day

\* The next day's timer is set 24 hours ahead: before the digest time of a
\* long day.
CronWait(now) ==
  [pc |-> "wait", due |-> NextFire(now), day |-> 0, count |-> Zero,
   ahead |-> now.late /\ now.day + 1 \in LongDays]

TimerIsOver ==
  cron.pc = "wait" /\ cron.due = clock.day /\ (clock.late \/ cron.ahead)

\* History: the flush ended without a post, and no other follows today.
FlushFailed ==
  missed' = IF NextFire(clock) > clock.day THEN missed \union {clock.day} ELSE missed

\* The timer fires and flush reads the document of time.Now()'s date.
FlushGet ==
  LET d == FlushDate(clock) IN
  /\ TimerIsOver
  /\ \/ /\ doc[d].live
        /\ cron' = [cron EXCEPT !.pc = "post", !.day = d, !.count = doc[d].count]
        /\ UNCHANGED missed
     \/ ~doc[d].live /\ cron' = CronWait(clock) /\ UNCHANGED missed
     \/ May("kv") /\ cron' = CronWait(clock) /\ FlushFailed
  /\ UNCHANGED <<doc, writer, clock, started, applied, early, removed, posted, posts>>

\* Mutant: the key is deleted although the post failed.
OnPostError_Delete == "delete"

OnPostError == "wait"

PostFailed == cron' = IF OnPostError = "wait" THEN CronWait(clock)
                      ELSE [cron EXCEPT !.pc = OnPostError]

\* Slack may have taken the message although the client sees an error.
FlushPost ==
  /\ cron.pc = "post"
  /\ \/ /\ posted' = [posted EXCEPT ![cron.day] = Plus(@, cron.count)]
        /\ posts' = [posts EXCEPT ![cron.day] = @ + 1]
        /\ \/ cron' = [cron EXCEPT !.pc = "delete"]
           \/ May("slack") /\ PostFailed
        /\ UNCHANGED missed
     \/ May("slack") /\ PostFailed /\ FlushFailed /\ UNCHANGED <<posted, posts>>
  /\ UNCHANGED <<doc, writer, clock, started, applied, early, removed>>

\* Delete names no revision: it removes whatever the key holds by now.
FlushDelete ==
  LET d == cron.day IN
  /\ cron.pc = "delete"
  /\ \/ /\ doc' = [doc EXCEPT ![d] =
                     [rev |-> @.rev + 1, live |-> FALSE, count |-> Zero]]
        /\ removed' = [removed EXCEPT ![d] = Plus(@, doc[d].count)]
     \/ May("kv") /\ UNCHANGED <<doc, removed>>
  /\ cron' = CronWait(clock)
  /\ UNCHANGED <<writer, clock, started, applied, early, posted, posts, missed>>
-----------------------------------------------------------------------------
(* Time, and the process.                                                  *)

\* A running process fires its timer before the day goes on.
Tick ==
  /\ cron.pc = "wait" /\ ~TimerIsOver
  /\ clock' = IF clock.late THEN [day |-> clock.day + 1, late |-> FALSE]
              ELSE [clock EXCEPT !.late = TRUE]
  /\ clock'.day \in Days
  /\ UNCHANGED <<doc, writer, cron, started, hist>>

Crash ==
  /\ May("crash")
  /\ \E d \in clock.day..LastDay, late \in BOOLEAN :
       /\ d = clock.day /\ clock.late => late
       /\ clock' = [day |-> d, late |-> late]
       /\ cron' = CronWait(clock')
       /\ LET slept == clock.day..(IF late THEN d ELSE d - 1)
              flushed == clock.late /\ ~TimerIsOver /\ cron.pc # "post"
          IN missed' = missed \union (IF flushed THEN slept \ {clock.day} ELSE slept)
  /\ writer' = [w \in Writers |-> WriterIdle]
  /\ UNCHANGED <<doc, started, applied, early, removed, posted, posts>>

Init ==
  /\ doc = [d \in Days |-> [rev |-> 0, live |-> FALSE, count |-> Zero]]
  /\ writer = [w \in Writers |-> WriterIdle]
  /\ clock = [day |-> 1, late |-> FALSE]
  /\ cron = CronWait(clock)
  /\ started = 0
  /\ applied = [d \in Days |-> Zero]
  /\ early = [d \in Days |-> Zero]
  /\ removed = [d \in Days |-> Zero]
  /\ posted = [d \in Days |-> Zero]
  /\ posts = [d \in Days |-> 0]
  /\ missed = {}

Next ==
  \/ \E w \in Writers : Begin(w) \/ Get(w) \/ Put(w)
  \/ FlushGet \/ FlushPost \/ FlushDelete
  \/ Tick \/ Crash

Spec == Init /\ [][Next]_vars
-----------------------------------------------------------------------------
(* Properties.                                                             *)

\* The variables stay in their domains; a document that does not exist has
\* no entries, and a busy cron works on a day of the calendar.
TypeOK ==
  /\ \A d \in Days :
       /\ doc[d].rev \in Nat /\ doc[d].live \in BOOLEAN
       /\ doc[d].count \in [EventKeys -> Nat]
       /\ ~doc[d].live => doc[d].count = Zero
  /\ \A w \in Writers :
       /\ writer[w].pc \in {"idle", "get", "put"}
       /\ writer[w].attempt \in 0..(MaxAttempts - 1)
       /\ writer[w].pc # "idle" => writer[w].day \in Days /\ writer[w].key \in EventKeys
  /\ cron.pc \in {"wait", "post", "delete"}
  /\ cron.pc # "wait" => cron.day \in Days
  /\ cron.due \in clock.day..(clock.day + 1)
  /\ clock.day \in Days /\ clock.late \in BOOLEAN
  /\ started \in 0..MaxUpserts /\ missed \subseteq Days

\* No upsert is lost to a concurrent one: what was written is in the
\* document or was deleted with it by the cron (digest.go:33-36).
NoLostUpsert ==
  \A d \in Days : Plus(doc[d].count, removed[d]) = applied[d]

\* A day's document is posted at most once, restarts included: nextFire
\* never returns a digest time that has passed (cron.go:36-50).  On a day
\* of 25 hours the timer set the day before fires first (cron.go:47).
PostedOncePerDay ==
  \A d \in Days : posts[d] <= IF d \in LongDays THEN 2 ELSE 1

\* A document is deleted only when it was posted: a Slack outage alone loses
\* nothing (cron.go:52-54, 72-75).
DeletedOnlyAfterPost ==
  \A d \in Days : removed[d] # Zero => posts[d] > 0

\* Unless the day's flush itself failed or the process slept through it, an
\* occurrence recorded on its day before the digest time is in that day's
\* post, whatever else failed and however often the process restarted
\* (cron.go:29-34, 52-70).  On a long day the first flush may delete it.
EarlyEntriesArePosted ==
  \A d \in Days \ LongDays :
    clock.day > d /\ d \notin missed =>
      \A k \in EventKeys : posted[d][k] >= early[d][k]

\* How far the cron is with the page it has read.
Stage == [wait |-> "none", post |-> "read", delete |-> "posted"]

DG == INSTANCE Digest WITH
        Allowed <- [d \in Days |-> IF d \in LongDays THEN 2 ELSE 1],
        entries <- [d \in Days |-> doc[d].count],
        page <- [state |-> Stage[cron.pc], day |-> cron.day, count |-> cron.count],
        posted <- posted, posts <- posts

\* Get and Put under a revision, retries and failures included, add up to one
\* atomic count per upsert that goes through and to none for any other; a post
\* carries the document as it was read, and only a post lets it be deleted
\* (digest.go:33-86, cron.go:52-82).
ImplementsDigest == DG!Spec
-----------------------------------------------------------------------------
(* What comments and the README say, and the code does not keep.           *)

\* README.md:75-76: an entry "still appears in the next morning's digest".
NextMorning ==
  \A d \in Days, k \in EventKeys : clock.day > d + 1 => posted[d][k] >= applied[d][k]
=============================================================================
