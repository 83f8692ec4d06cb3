------------------------------- MODULE Digest -------------------------------
(***************************************************************************)
(* What the digest buffer promises: every occurrence is counted once and   *)
(* stays counted until its day's page was posted, whoever else writes.     *)
(* Nothing is said of revisions, attempts, timers or restarts.             *)
(***************************************************************************)
EXTENDS Naturals

CONSTANTS
  Days,       \* the days of the calendar
  EventKeys,  \* what the lines of a page are about
  Allowed     \* how often each day may be posted

VARIABLES
  entries,    \* the counts of each day
  page,       \* what was read of a day in order to post it
  posted,     \* the counts posted of each day
  posts       \* how often each day was posted

vars == <<entries, page, posted, posts>>

Blank == [k \in EventKeys |-> 0]
NoPage == [state |-> "none", day |-> 0, count |-> Blank]

Init ==
  /\ entries = [d \in Days |-> Blank]
  /\ page = NoPage
  /\ posted = [d \in Days |-> Blank]
  /\ posts = [d \in Days |-> 0]

\* One more occurrence, on top of all those before it.
Add(d, k) ==
  /\ entries' = [entries EXCEPT ![d][k] = @ + 1]
  /\ UNCHANGED <<page, posted, posts>>

Look(d) ==
  /\ page = NoPage
  /\ page' = [state |-> "read", day |-> d, count |-> entries[d]]
  /\ UNCHANGED <<entries, posted, posts>>

\* The page that was read goes out whole; the post may look as if it failed.
Post ==
  LET d == page.day IN
  /\ page.state = "read" /\ posts[d] < Allowed[d]
  /\ posted' = [posted EXCEPT ![d] = [k \in EventKeys |-> @[k] + page.count[k]]]
  /\ posts' = [posts EXCEPT ![d] = @ + 1]
  /\ page' \in {NoPage, [page EXCEPT !.state = "posted"]}
  /\ UNCHANGED entries

\* Only after the post, and with what was added since the page was read.
Clear ==
  /\ page.state = "posted"
  /\ entries' = [entries EXCEPT ![page.day] = Blank]
  /\ page' = NoPage
  /\ UNCHANGED <<posted, posts>>

GiveUp == page' = NoPage /\ UNCHANGED <<entries, posted, posts>>

Next ==
  \/ \E d \in Days : Look(d) \/ \E k \in EventKeys : Add(d, k)
  \/ Post \/ Clear \/ GiveUp

Spec == Init /\ [][Next]_vars
=============================================================================
