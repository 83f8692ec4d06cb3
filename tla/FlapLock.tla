------------------------------ MODULE FlapLock ------------------------------
(***************************************************************************)
(* What the flap lock promises: a repair starts only under the lock of its *)
(* (service, error), once for each time the lock was taken, and the lock   *)
(* stays with it until the repair has ended.  Nothing is said of buckets,  *)
(* messages, markers or reports.                                           *)
(***************************************************************************)
CONSTANTS
  Keys,      \* what is locked: a (service, error) each
  Claims,    \* the times a lock is taken
  NoClaim    \* not a claim

VARIABLES
  holder,    \* the claim that has each key's lock, or NoClaim
  used,      \* claims taken so far
  started,   \* claims a repair was started under
  repairing  \* claims whose repair has not ended

vars == <<holder, used, started, repairing>>

Init ==
  /\ holder = [k \in Keys |-> NoClaim]
  /\ used = {} /\ started = {} /\ repairing = {}

Acquire(k, c) ==
  /\ holder[k] = NoClaim /\ c \notin used
  /\ holder' = [holder EXCEPT ![k] = c]
  /\ used' = used \union {c}
  /\ UNCHANGED <<started, repairing>>

Start(k) ==
  /\ holder[k] \in Claims \ started
  /\ started' = started \union {holder[k]}
  /\ repairing' = repairing \union {holder[k]}
  /\ UNCHANGED <<holder, used>>

Finish(c) ==
  /\ c \in repairing
  /\ repairing' = repairing \ {c}
  /\ UNCHANGED <<holder, used, started>>

\* By a report, or by the TTL: never under a repair at work.
Release(k) ==
  /\ holder[k] \in Claims \ repairing
  /\ holder' = [holder EXCEPT ![k] = NoClaim]
  /\ UNCHANGED <<used, started, repairing>>

Next ==
  \/ \E k \in Keys : Start(k) \/ Release(k) \/ \E c \in Claims : Acquire(k, c)
  \/ \E c \in Claims : Finish(c)

Spec == Init /\ [][Next]_vars
=============================================================================
