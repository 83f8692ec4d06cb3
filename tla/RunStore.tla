------------------------------ MODULE RunStore ------------------------------
(***************************************************************************)
(* The SQLite file: store.Open brings its table up to date, InsertRun      *)
(* writes a run's row when the alert is published, RecordOutcome fills it  *)
(* in with a SELECT and a later UPDATE, and GET /v1/runs reads it.  The    *)
(* database has one connection, so each statement is atomic, and neither   *)
(* the two of RecordOutcome nor the ALTERs of migrateColumns are one.      *)
(*                                                                         *)
(* Rows are independent: the module follows the row of one alert_id.       *)
(***************************************************************************)
EXTENDS Naturals, Sequences, FiniteSets

CONSTANTS
  RawModes,   \* REVI_MODE values of the environment over time
  Columns,    \* additiveColumns, oldest first
  Outcomes,   \* outcome strings
  Inserters,  \* bound: concurrent InsertRun calls
  Recorders,  \* bound: concurrent RecordOutcome calls
  None,       \* SQL NULL
  MaxCalls,   \* bound: InsertRun and RecordOutcome calls in a behaviour
  Env         \* faults that may happen

\* config.normalizeMode: what is not AUTONOMOUS is PR_REVIEW.
Modes == {"AUTONOMOUS", "PR_REVIEW"}
normalizeMode(m) == IF m = "AUTONOMOUS" THEN m ELSE "PR_REVIEW"

ASSUME RunStoreAssumption ==
  /\ IsFiniteSet(RawModes)
  /\ \A i, j \in 1..Len(Columns) : Columns[i] = Columns[j] => i = j
  /\ Columns \in Seq(STRING)
  /\ None \notin Outcomes \union Modes \union Nat
  /\ MaxCalls \in Nat
  /\ Env \subseteq {"crash", "sql"}

\* Calls are numbered; the number stands for the call's time of receipt.
Calls == 1..MaxCalls
Stamp == Calls \union {None}

RunOutcome == [validated : BOOLEAN, merged : BOOLEAN, outcome : Outcomes]

VARIABLES
  db,        \* the file's additive columns, and how far Open has come
  row,       \* the row: columns, each time stamp named by its call
  ins,       \* InsertRun calls: the call's number and mode
  rec,       \* RecordOutcome calls
  mode,      \* the running gateway's REVI_MODE
  calls,     \* calls begun so far
  said,      \* the report whose outcome a poller of GET /v1/runs was given
  clean      \* history: no two reports overlapped, and no SELECT failed

vars == <<db, row, ins, rec, mode, calls, said, clean>>

May(e) == e \in Env

Absent == [present |-> FALSE, mode |-> None, received |-> None,
           validated |-> None, merged |-> None, outcome |-> None, by |-> None]
InsIdle == [call |-> 0, mode |-> None]
RecIdle == [pc |-> "idle", call |-> 0, report |-> None, mode |-> None]
-----------------------------------------------------------------------------
(* store.Open and migrateColumns.                                          *)

AllColumns == {Columns[i] : i \in 1..Len(Columns)}

\* Mutant: a table that has one of the columns is taken to have them all.
Missing_AnyIsAll(cols) == IF cols = {} THEN AllColumns ELSE {}

\* additiveColumns that PRAGMA table_info does not list.
Missing(cols) == AllColumns \ cols

\* The process starts: REVI_MODE is read, and the file's columns.  CREATE
\* TABLE made all of them in a new file and none in an old one.
Open ==
  /\ db.pc = "closed"
  /\ db' = [db EXCEPT !.pc = "migrate", !.todo = Missing(db.cols)]
  /\ \E m \in RawModes : mode' = normalizeMode(m)
  /\ UNCHANGED <<row, ins, rec, calls, said, clean>>

\* One ALTER TABLE, of the oldest column that is missing; an error ends the
\* process.
AddColumn ==
  /\ db.pc = "migrate" /\ db.todo # {}
  /\ \/ \E i \in 1..Len(Columns) :
          /\ Columns[i] \in db.todo
          /\ \A j \in 1..(i - 1) : Columns[j] \notin db.todo
          /\ db' = [db EXCEPT !.cols = @ \union {Columns[i]}, !.todo = @ \ {Columns[i]}]
     \/ May("sql") /\ db' = [db EXCEPT !.pc = "closed", !.todo = {}]
  /\ UNCHANGED <<row, ins, rec, mode, calls, said, clean>>

Serve ==
  /\ db.pc = "migrate" /\ db.todo = {}
  /\ db' = [db EXCEPT !.pc = "up"]
  /\ UNCHANGED <<row, ins, rec, mode, calls, said, clean>>
-----------------------------------------------------------------------------
BeginInsert(i) ==
  /\ db.pc = "up"
  /\ ins[i] = InsIdle /\ calls < MaxCalls
  /\ calls' = calls + 1
  /\ ins' = [ins EXCEPT ![i] = [call |-> calls + 1, mode |-> mode]]
  /\ UNCHANGED <<db, row, rec, mode, said, clean>>

\* Mutant: INSERT OR REPLACE.
OnConflict_Replace(old, new) == new

\* ON CONFLICT(alert_id) DO NOTHING.
OnConflict(old, new) == old

InsertRun(i) ==
  LET new == [Absent EXCEPT !.present = TRUE, !.mode = ins[i].mode,
                            !.received = ins[i].call] IN
  /\ ins[i] # InsIdle
  /\ \/ row' = IF row.present THEN OnConflict(row, new) ELSE new
     \/ May("sql") /\ UNCHANGED row
  /\ ins' = [ins EXCEPT ![i] = InsIdle]
  /\ UNCHANGED <<db, rec, mode, calls, said, clean>>
-----------------------------------------------------------------------------
BeginRecord(p) ==
  /\ db.pc = "up"
  /\ rec[p].pc = "idle" /\ calls < MaxCalls
  /\ calls' = calls + 1
  /\ \E o \in RunOutcome :
       rec' = [rec EXCEPT ![p] = [pc |-> "select", call |-> calls + 1,
                                  report |-> o, mode |-> None]]
  /\ clean' = (clean /\ \A q \in Recorders : rec[q].pc = "idle")
  /\ UNCHANGED <<db, row, ins, mode, said>>

\* Mutant: a recorded outcome does not end the call.
Recorded_Ignored == row.outcome # row.outcome

Recorded == row.outcome # None

\* ErrNoRows and a failed SELECT both go on, with no mode and no outcome.
Select(p) ==
  /\ rec[p].pc = "select"
  /\ rec' = [rec EXCEPT ![p] =
       IF Recorded THEN RecIdle ELSE [@ EXCEPT !.pc = "update", !.mode = row.mode]]
  /\ UNCHANGED <<db, row, ins, mode, calls, said, clean>>

SelectFails(p) ==
  /\ May("sql")
  /\ rec[p].pc = "select"
  /\ rec' = [rec EXCEPT ![p].pc = "update"]
  /\ clean' = FALSE
  /\ UNCHANGED <<db, row, ins, mode, calls, said>>

Coalesce(new, old) == IF new = None THEN old ELSE new

\* Mutant: the payload's Merged is believed.
MergedAt_Unchecked(r) == IF r.report.merged THEN r.call ELSE None

MergedAt(r) ==
  IF r.report.merged /\ r.mode = "AUTONOMOUS" THEN r.call ELSE None

\* Mutant: an outcome without a row is written all the same.
RowFound_Upsert == row.present \in BOOLEAN

\* WHERE alert_id = ?: a report for an unknown alert_id changes nothing.
RowFound == row.present

Update(p) ==
  LET r == rec[p] IN
  /\ r.pc = "update"
  /\ \/ /\ RowFound
        /\ row' = [row EXCEPT
             !.validated = Coalesce(IF r.report.validated THEN r.call ELSE None, @),
             !.merged = Coalesce(MergedAt(r), @),
             !.outcome = r.report.outcome,
             !.by = r.call]
     \/ ~RowFound /\ UNCHANGED row
     \/ May("sql") /\ UNCHANGED row
  /\ rec' = [rec EXCEPT ![p] = RecIdle]
  /\ UNCHANGED <<db, ins, mode, calls, said, clean>>
-----------------------------------------------------------------------------
\* GET /v1/runs/{alert_id}: 404 without a row, a null outcome until one is
\* recorded; a poller stops at the first outcome it is given.
Poll ==
  /\ db.pc = "up"
  /\ row.present /\ row.outcome # None
  /\ said = None
  /\ said' = row.by
  /\ UNCHANGED <<db, row, ins, rec, mode, calls, clean>>

\* The gateway stops anywhere, Open included; the file stays.
Crash ==
  /\ May("crash")
  /\ db' = [db EXCEPT !.pc = "closed", !.todo = {}]
  /\ ins' = [i \in Inserters |-> InsIdle]
  /\ rec' = [p \in Recorders |-> RecIdle]
  /\ UNCHANGED <<row, mode, calls, said, clean>>

\* The file is new, or an older binary made it with the first n columns.
Init ==
  /\ \E n \in 0..Len(Columns) :
       db = [pc |-> "closed", cols |-> {Columns[i] : i \in 1..n}, todo |-> {}]
  /\ row = Absent
  /\ ins = [i \in Inserters |-> InsIdle]
  /\ rec = [p \in Recorders |-> RecIdle]
  /\ mode = "PR_REVIEW"
  /\ calls = 0
  /\ said = None
  /\ clean = TRUE

Next ==
  \/ Open \/ AddColumn \/ Serve
  \/ \E i \in Inserters : BeginInsert(i) \/ InsertRun(i)
  \/ \E p \in Recorders :
       BeginRecord(p) \/ Select(p) \/ SelectFails(p) \/ Update(p)
  \/ Poll \/ Crash

Spec == Init /\ [][Next]_vars
-----------------------------------------------------------------------------
(* Properties.                                                             *)

\* The columns stay in their domains, and an absent row has none set.
TypeOK ==
  /\ db.pc \in {"closed", "migrate", "up"} /\ db.cols \subseteq AllColumns
  /\ db.todo \subseteq AllColumns
  /\ row \in [present : BOOLEAN, mode : Modes \union {None}, received : Stamp,
              validated : Stamp, merged : Stamp,
              outcome : Outcomes \union {None}, by : Stamp]
  /\ ~row.present => row = Absent
  /\ row.outcome = None <=> row.by = None
  /\ \A i \in Inserters : ins[i] = InsIdle \/ ins[i] \in [call : Calls, mode : Modes]
  /\ \A p \in Recorders :
       \/ rec[p] = RecIdle
       \/ rec[p] \in [pc : {"select", "update"}, call : Calls,
                      report : RunOutcome, mode : Modes \union {None}]
  /\ mode \in Modes
  /\ calls \in 0..MaxCalls
  /\ said \in Stamp /\ clean \in BOOLEAN

\* Whatever fails or interleaves: a row keeps its received_at and mode, a
\* recorded outcome never becomes NULL again, and no time stamp is taken back
\* (store.go:191-194, 320-336).
RowKept ==
  [][row.present =>
       /\ row'.present
       /\ row'.received = row.received /\ row'.mode = row.mode
       /\ row.outcome # None => row'.outcome # None
       /\ row.validated # None => row'.validated # None
       /\ row.merged # None => row'.merged # None]_vars

\* merged_at is stamped only on a row whose own revi_mode is AUTONOMOUS,
\* though mode and report are read apart and the gateway's mode may change
\* (store.go:253-261, 294-296).
MergedOnlyAutonomous ==
  row.merged # None => row.mode = "AUTONOMOUS"

\* A serving gateway finds every column its statements name, whatever the
\* binary that made the file and wherever an earlier migration stopped; and
\* no column is added twice, which would keep the process from starting
\* (store.go:64-76, 121-156).
MigrationCompletes ==
  /\ db.pc = "up" => db.cols = AllColumns
  /\ db.pc = "migrate" => db.todo = AllColumns \ db.cols

\* Unless reports overlapped or a SELECT failed: validated_at, merged_at and
\* outcome of a row are those of one report, restarts included.
RowIsOneReport ==
  clean => row.validated \in {None, row.by} /\ row.merged \in {None, row.by}

\* Unless reports overlapped or a SELECT failed: what a poller of GET
\* /v1/runs was told stays what the row says, so the first outcome wins; the
\* benchmark stops polling at it (store.go:274-288, trial.go:103-120).
AnswerStaysTrue ==
  clean /\ said # None => said = row.by

RR == INSTANCE RunRow WITH Reports <- RunOutcome, orderly <- clean

\* The two statements of RecordOutcome act as one: what the SELECT found is
\* still so when the UPDATE writes, unless reports overlapped or a SELECT
\* failed, and the mode it found is so in any case (store.go:262-352).
ImplementsRunRow == RR!Spec
-----------------------------------------------------------------------------
(* What a comment says, and the code does not keep.                        *)

\* store.go:281: "the first recorded outcome wins".
FirstOutcomeWins ==
  [][row.outcome # None => row'.by = row.by]_vars
=============================================================================
