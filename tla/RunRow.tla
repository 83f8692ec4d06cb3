------------------------------- MODULE RunRow -------------------------------
(***************************************************************************)
(* What the row of a run promises to its readers: it is written when the   *)
(* alert is, a report fills it in at one stroke, and as long as reports    *)
(* come in order the first is the only one.  Nothing is said of statements,*)
(* columns to be added, failures or restarts.                              *)
(***************************************************************************)
CONSTANTS
  Modes,     \* a gateway's modes
  Calls,     \* the times of receipt
  Reports,   \* what a report may say
  None       \* SQL NULL

VARIABLES
  row,       \* the row
  said,      \* the report a poller was told of
  orderly    \* no two reports overlapped, and none was blind

vars == <<row, said, orderly>>

Missing == [present |-> FALSE, mode |-> None, received |-> None,
            validated |-> None, merged |-> None, outcome |-> None, by |-> None]

Init == row = Missing /\ said = None /\ orderly = TRUE

Insert(c, m) ==
  /\ ~row.present
  /\ row' = [Missing EXCEPT !.present = TRUE, !.received = c, !.mode = m]
  /\ UNCHANGED <<said, orderly>>

\* The stamps a report may set: it is the row's mode that allows a merge, and
\* a report that came before the row does not know it.
Merges(c, r) == {None} \union {m \in {c} : r.merged /\ row.mode = "AUTONOMOUS"}
Validations(c, r) == IF r.validated THEN c ELSE None

Over(new, old) == IF new = None THEN old ELSE new

Record(c, r) ==
  /\ row.present
  /\ orderly => row.outcome = None
  /\ \E m \in Merges(c, r) :
       row' = [row EXCEPT !.validated = Over(Validations(c, r), @),
                          !.merged = Over(m, @), !.outcome = r.outcome, !.by = c]
  /\ UNCHANGED <<said, orderly>>

Answer ==
  /\ row.outcome # None /\ said = None
  /\ said' = row.by
  /\ UNCHANGED <<row, orderly>>

Disorder == orderly' = FALSE /\ UNCHANGED <<row, said>>

Next ==
  \/ \E c \in Calls : \/ \E m \in Modes : Insert(c, m)
                      \/ \E r \in Reports : Record(c, r)
  \/ Answer \/ Disorder

Spec == Init /\ [][Next]_vars
=============================================================================
