--------------------------- MODULE RunStore_proofs ---------------------------
(***************************************************************************)
(* Proofs about RunStore, for any number of concurrent inserts and         *)
(* reports, any outcomes, columns and modes, and every fault: what a row   *)
(* once holds is kept, merged_at is stamped on AUTONOMOUS rows only, one   *)
(* report fills a row unless reports overlap, and a gateway that serves    *)
(* has every column.                                                       *)
(***************************************************************************)
EXTENDS RunStore, TLAPS

RowTyped ==
  row \in [present : BOOLEAN, mode : Modes \union {None}, received : Stamp,
           validated : Stamp, merged : Stamp,
           outcome : Outcomes \union {None}, by : Stamp]

InsTyped ==
  ins \in [Inserters -> [call : Nat, mode : Modes \union {None}]]

RecTyped ==
  rec \in [Recorders -> [pc : {"idle", "select", "update"}, call : Nat,
                         report : RunOutcome \union {None},
                         mode : Modes \union {None}]]

CallsTyped ==
  /\ calls \in 0..MaxCalls
  /\ \A i \in Inserters : ins[i] # InsIdle => ins[i].call \in Calls
  /\ \A p \in Recorders :
       rec[p].pc # "idle" => rec[p].call \in Calls /\ rec[p].report \in RunOutcome

\* What a report read of its row is still the row's: a row's mode is written
\* once, and rows are never deleted.
ModeIsRows ==
  \A p \in Recorders :
    rec[p].mode # None => row.present /\ rec[p].mode = row.mode

RowInv ==
  /\ RowTyped /\ InsTyped /\ RecTyped /\ CallsTyped /\ mode \in Modes
  /\ (~row.present => row = Absent)
  /\ ModeIsRows
  /\ MergedOnlyAutonomous

Statics == <<row, ins, rec, calls>>

\* The invariant says nothing of the file's columns, the poller or clean.
LEMMA RowInvStutter ==
  ASSUME RowInv, UNCHANGED Statics, mode' \in Modes
  PROVE  RowInv'
BY DEF RowInv, Statics, RowTyped, InsTyped, RecTyped, CallsTyped, ModeIsRows,
       MergedOnlyAutonomous, Stamp, Calls, Absent, InsIdle, RecIdle

LEMMA RowInvInit == Init => RowInv
<1> SUFFICES ASSUME Init PROVE RowInv
  OBVIOUS
<1> USE RunStoreAssumption DEF Init
<1>1. RowTyped /\ (~row.present => row = Absent) /\ MergedOnlyAutonomous
  BY DEF RowTyped, Absent, Stamp, MergedOnlyAutonomous
<1>2. InsTyped
  BY DEF InsTyped, InsIdle
<1>3. RecTyped
  BY DEF RecTyped, RecIdle
<1>4. CallsTyped /\ mode \in Modes
  BY DEF CallsTyped, InsIdle, RecIdle, Modes
<1>5. ModeIsRows
  BY DEF ModeIsRows, RecIdle
<1> QED
  BY <1>1, <1>2, <1>3, <1>4, <1>5 DEF RowInv

\* BeginInsert: the call takes a new number and the gateway's mode.
LEMMA BeginInsertInv ==
  ASSUME RowInv, NEW i \in Inserters, BeginInsert(i)
  PROVE  RowInv'
<1> USE DEF RowInv, BeginInsert
<1>1. calls + 1 \in Calls /\ calls' \in 0..MaxCalls
  BY RunStoreAssumption DEF CallsTyped, Calls
<1>2. InsTyped'
  BY <1>1 DEF InsTyped, Calls
<1>3. CallsTyped'
  BY <1>1 DEF CallsTyped, InsTyped, InsIdle
<1>4. (RowTyped /\ RecTyped /\ ModeIsRows /\ MergedOnlyAutonomous)'
  BY DEF RowTyped, RecTyped, ModeIsRows, MergedOnlyAutonomous
<1> QED
  BY <1>2, <1>3, <1>4

\* InsertRun: a present row stays, so no mode a report has read goes stale.
LEMMA InsertRunInv ==
  ASSUME RowInv, NEW i \in Inserters, InsertRun(i)
  PROVE  RowInv'
<1> USE DEF RowInv, InsertRun
<1>1. ins[i].call \in Calls /\ ins[i].mode \in Modes \union {None}
  BY DEF InsTyped, CallsTyped
<1>2. \/ row' = row
      \/ /\ ~row.present
         /\ row' = [Absent EXCEPT !.present = TRUE, !.mode = ins[i].mode,
                                  !.received = ins[i].call]
  BY DEF OnConflict
<1>3. RowTyped' /\ (~row.present => row = Absent)'
  BY <1>1, <1>2 DEF RowTyped, Absent, Stamp
<1>4. ModeIsRows' /\ MergedOnlyAutonomous'
  BY <1>2 DEF ModeIsRows, MergedOnlyAutonomous, Absent
<1>5. InsTyped' /\ CallsTyped'
  BY DEF InsTyped, CallsTyped, InsIdle
<1>6. RecTyped' /\ mode' \in Modes
  BY DEF RecTyped
<1> QED
  BY <1>3, <1>4, <1>5, <1>6

\* BeginRecord: the report has read nothing of the row yet.
LEMMA BeginRecordInv ==
  ASSUME RowInv, NEW p \in Recorders, BeginRecord(p)
  PROVE  RowInv'
<1> USE DEF RowInv, BeginRecord
<1>1. calls + 1 \in Calls /\ calls' \in 0..MaxCalls
  BY RunStoreAssumption DEF CallsTyped, Calls
<1>2. PICK o \in RunOutcome :
        rec' = [rec EXCEPT ![p] = [pc |-> "select", call |-> calls + 1,
                                   report |-> o, mode |-> None]]
  OBVIOUS
<1>3. RecTyped'
  BY <1>1, <1>2 DEF RecTyped, Calls
<1>4. CallsTyped'
  BY <1>1, <1>2 DEF CallsTyped, RecTyped
<1>5. ModeIsRows'
  BY <1>2 DEF ModeIsRows, RecTyped
<1>6. (RowTyped /\ InsTyped /\ MergedOnlyAutonomous)'
  BY DEF RowTyped, InsTyped, MergedOnlyAutonomous
<1> QED
  BY <1>3, <1>4, <1>5, <1>6

\* Both SELECTs: a mode that was read is that of a row that is there.
LEMMA SelectInv ==
  ASSUME RowInv, NEW p \in Recorders, Select(p) \/ SelectFails(p)
  PROVE  RowInv'
<1> USE DEF RowInv, Select, SelectFails
<1>1. row.mode \in Modes \union {None} /\ (row.mode # None => row.present)
  BY DEF RowTyped, Absent
<1>2. \/ rec' = [rec EXCEPT ![p] = RecIdle]
      \/ rec' = [rec EXCEPT ![p].pc = "update", ![p].mode = row.mode]
      \/ rec' = [rec EXCEPT ![p].pc = "update"]
  BY DEF RecTyped
<1>3. RecTyped'
  BY <1>1, <1>2 DEF RecTyped, RecIdle
<1>4. rec[p].pc # "idle" /\ UNCHANGED <<row, ins, mode, calls>>
  OBVIOUS
<1>5. CallsTyped'
  BY <1>2, <1>4 DEF CallsTyped, RecTyped, RecIdle
<1>6. ModeIsRows'
  BY <1>1, <1>2, <1>4 DEF ModeIsRows, RecTyped, RecIdle
<1>7. (RowTyped /\ InsTyped /\ MergedOnlyAutonomous)'
  BY <1>4 DEF RowTyped, InsTyped, MergedOnlyAutonomous
<1> QED
  BY <1>3, <1>4, <1>5, <1>6, <1>7

\* What the UPDATE writes, when it writes.
LEMMA UpdateWrites ==
  ASSUME RowInv, NEW p \in Recorders, Update(p), row' # row
  PROVE  /\ row.present /\ row'.present
         /\ row'.mode = row.mode /\ row'.received = row.received
         /\ row'.validated \in Stamp
         /\ row.validated # None => row'.validated # None
         /\ row'.merged \in Stamp
         /\ row.merged # None => row'.merged # None
         /\ row'.merged # None => row.merged # None \/ rec[p].mode = "AUTONOMOUS"
         /\ row'.outcome \in Outcomes /\ row'.by \in Stamp
         /\ RowTyped'
<1> DEFINE r == rec[p]
           stamp == IF r.report.validated THEN r.call ELSE None
<1>1. r.call \in Calls /\ r.report \in RunOutcome /\ None \notin Outcomes
  BY RunStoreAssumption DEF RowInv, CallsTyped, Update
<1>2. stamp \in Stamp /\ MergedAt(r) \in Stamp
  BY <1>1 DEF Stamp, MergedAt
<1>3. MergedAt(r) # None => r.mode = "AUTONOMOUS"
  BY DEF MergedAt
<1>4. /\ row.present
      /\ row' = [row EXCEPT !.validated = Coalesce(stamp, @),
                            !.merged = Coalesce(MergedAt(r), @),
                            !.outcome = r.report.outcome, !.by = r.call]
  BY DEF Update, RowFound
<1>5. RowTyped
  BY DEF RowInv
<1>6. Coalesce(stamp, row.validated) \in Stamp
      /\ (row.validated # None => Coalesce(stamp, row.validated) # None)
  BY <1>2, <1>5 DEF Coalesce, RowTyped
<1>7. /\ Coalesce(MergedAt(r), row.merged) \in Stamp
      /\ row.merged # None => Coalesce(MergedAt(r), row.merged) # None
      /\ Coalesce(MergedAt(r), row.merged) # None
           => row.merged # None \/ r.mode = "AUTONOMOUS"
  BY <1>2, <1>3, <1>5 DEF Coalesce, RowTyped
<1>8. r.report.outcome \in Outcomes /\ r.call \in Stamp
  BY <1>1 DEF RunOutcome, Stamp
<1> HIDE DEF stamp, r
<1> QED
  BY <1>4, <1>5, <1>6, <1>7, <1>8 DEF RowTyped, r

LEMMA UpdateInv ==
  ASSUME RowInv, NEW p \in Recorders, Update(p)
  PROVE  RowInv'
<1>1. /\ rec' = [rec EXCEPT ![p] = RecIdle]
      /\ UNCHANGED <<ins, mode, calls>>
  BY DEF Update
<1>2. RecTyped' /\ InsTyped' /\ CallsTyped' /\ mode' \in Modes
  BY <1>1 DEF RowInv, RecTyped, InsTyped, CallsTyped, RecIdle
<1>3. CASE row' = row
  BY <1>1, <1>2, <1>3
  DEF RowInv, RowTyped, ModeIsRows, MergedOnlyAutonomous, RecTyped, RecIdle
<1>4. CASE row' # row
  <2>1. RowTyped' /\ row'.present /\ row'.mode = row.mode /\ row.present
    BY <1>4, UpdateWrites
  <2>2. ModeIsRows'
    BY <1>1, <2>1 DEF RowInv, ModeIsRows, RecTyped, RecIdle
  <2>3. MergedOnlyAutonomous'
    <3>1. SUFFICES ASSUME row'.merged # None
                   PROVE  row'.mode = "AUTONOMOUS"
      BY DEF MergedOnlyAutonomous
    <3>2. row.merged # None \/ rec[p].mode = "AUTONOMOUS"
      BY <1>4, <3>1, UpdateWrites
    <3>3. "AUTONOMOUS" # None
      BY RunStoreAssumption DEF Modes
    <3> QED
      BY <2>1, <3>2, <3>3 DEF RowInv, ModeIsRows, MergedOnlyAutonomous
  <2> QED
    BY <1>2, <2>1, <2>2, <2>3 DEF RowInv
<1> QED
  BY <1>3, <1>4

\* A crash forgets the calls and what they had read.
LEMMA CrashInv ==
  ASSUME RowInv, Crash
  PROVE  RowInv'
BY DEF RowInv, Crash, RowTyped, InsTyped, RecTyped, CallsTyped, ModeIsRows,
       MergedOnlyAutonomous, InsIdle, RecIdle

LEMMA RowInvNext ==
  ASSUME RowInv, [Next]_vars
  PROVE  RowInv'
<1>1. CASE Open
  <2>1. mode' \in Modes
    BY <1>1 DEF Open, normalizeMode, Modes
  <2> QED
    BY <1>1, <2>1, RowInvStutter DEF Open, Statics
<1>2. CASE AddColumn \/ Serve \/ Poll \/ UNCHANGED vars
  BY <1>2, RowInvStutter DEF AddColumn, Serve, Poll, vars, Statics, RowInv
<1>3. CASE Crash
  BY <1>3, CrashInv
<1>4. ASSUME NEW i \in Inserters, BeginInsert(i) \/ InsertRun(i)
      PROVE  RowInv'
  BY <1>4, BeginInsertInv, InsertRunInv
<1>5. ASSUME NEW p \in Recorders,
             BeginRecord(p) \/ Select(p) \/ SelectFails(p) \/ Update(p)
      PROVE  RowInv'
  BY <1>5, BeginRecordInv, SelectInv, UpdateInv
<1> QED
  BY <1>1, <1>2, <1>3, <1>4, <1>5 DEF Next

\* For all constants: merged_at is set only on rows of AUTONOMOUS runs,
\* whatever the payload says and the gateway's mode has become
\* (RecordOutcome, store.go:253-261, 294-296).
THEOREM MergedAtIsAutonomous == Spec => []MergedOnlyAutonomous
<1>1. RowInv => MergedOnlyAutonomous
  BY DEF RowInv
<1> QED
  BY <1>1, RowInvInit, RowInvNext, PTL DEF Spec

\* What a row once holds: the step of RowKept.
KeptStep ==
  row.present =>
    /\ row'.present
    /\ row'.received = row.received /\ row'.mode = row.mode
    /\ row.outcome # None => row'.outcome # None
    /\ row.validated # None => row'.validated # None
    /\ row.merged # None => row'.merged # None

LEMMA RowInvKept ==
  ASSUME RowInv, [Next]_vars
  PROVE  KeptStep
<1>1. CASE row' = row
  BY <1>1 DEF KeptStep
<1>2. CASE row' # row
  <2>1. \/ \E i \in Inserters : InsertRun(i)
        \/ \E p \in Recorders : Update(p)
    BY <1>2 DEF Next, vars, Open, AddColumn, Serve, BeginInsert, BeginRecord,
                Select, SelectFails, Poll, Crash
  <2>2. ASSUME NEW i \in Inserters, InsertRun(i)
        PROVE  KeptStep
    BY <1>2, <2>2 DEF InsertRun, OnConflict, KeptStep
  <2>3. ASSUME NEW p \in Recorders, Update(p)
        PROVE  KeptStep
    <3>1. row'.outcome # None
      BY <1>2, <2>3, UpdateWrites, RunStoreAssumption
    <3> QED
      BY <1>2, <2>3, <3>1, UpdateWrites DEF KeptStep
  <2> QED
    BY <2>1, <2>2, <2>3
<1> QED
  BY <1>1, <1>2

\* For all constants: whatever statements interleave or fail and wherever
\* the process stops, a row stays, its received_at and mode are written
\* once, and no outcome or time stamp is taken back (InsertRun,
\* RecordOutcome, store.go:191-194, 320-336).
THEOREM RowIsKept == Spec => RowKept
<1>1. RowInv /\ [Next]_vars => [KeptStep]_vars
  BY RowInvKept
<1> QED
  BY <1>1, RowInvInit, RowInvNext, PTL DEF Spec, RowKept, KeptStep
-----------------------------------------------------------------------------
(* The migration.                                                          *)

FileInv ==
  /\ db.pc \in {"closed", "migrate", "up"}
  /\ db.cols \subseteq AllColumns /\ db.todo \subseteq AllColumns
  /\ db \in [pc : {"closed", "migrate", "up"}, cols : SUBSET AllColumns,
             todo : SUBSET AllColumns]
  /\ MigrationCompletes

LEMMA FileInvInit == Init => FileInv
<1> SUFFICES ASSUME Init PROVE FileInv
  OBVIOUS
<1>1. PICK n \in 0..Len(Columns) :
        db = [pc |-> "closed", cols |-> {Columns[i] : i \in 1..n}, todo |-> {}]
  BY DEF Init
<1>2. {Columns[i] : i \in 1..n} \subseteq AllColumns
  <2>1. Len(Columns) \in Nat
    BY RunStoreAssumption
  <2>2. 1..n \subseteq 1..Len(Columns)
    BY <2>1
  <2>3. QED BY <2>2 DEF AllColumns
<1>3. QED BY <1>1, <1>2 DEF FileInv, MigrationCompletes

LEMMA FileInvNext ==
  ASSUME FileInv, [Next]_vars
  PROVE  FileInv'
<1>1. CASE UNCHANGED db
  BY <1>1 DEF FileInv, MigrationCompletes
<1>2. CASE Open
  BY <1>2 DEF Open, Missing, FileInv, MigrationCompletes
<1>3. CASE AddColumn
  <2>1. CASE db' = [db EXCEPT !.pc = "closed", !.todo = {}]
    BY <2>1 DEF FileInv, MigrationCompletes
  <2>2. CASE db' # [db EXCEPT !.pc = "closed", !.todo = {}]
    <3>1. PICK i \in 1..Len(Columns) :
            /\ Columns[i] \in db.todo
            /\ db' = [db EXCEPT !.cols = @ \union {Columns[i]}, !.todo = @ \ {Columns[i]}]
      BY <1>3, <2>2 DEF AddColumn
    <3>2. db.todo = AllColumns \ db.cols /\ db.pc = "migrate"
      BY <1>3 DEF AddColumn, FileInv, MigrationCompletes
    <3>3. QED BY <3>1, <3>2 DEF FileInv, MigrationCompletes
  <2>3. QED BY <2>1, <2>2
<1>4. CASE Serve
  BY <1>4 DEF Serve, FileInv, MigrationCompletes
<1>5. CASE Crash
  BY <1>5 DEF Crash, FileInv, MigrationCompletes
<1>6. QED
  BY <1>1, <1>2, <1>3, <1>4, <1>5
  DEF Next, vars, BeginInsert, InsertRun, BeginRecord, Select, SelectFails, Update, Poll

\* A gateway that serves finds every column its statements name, whichever
\* binary made the file and wherever an earlier migration stopped, and no
\* column is added twice (migrateColumns, store.go:126-156).
THEOREM ColumnsAreThere == Spec => []MigrationCompletes
<1>1. FileInv => MigrationCompletes
  BY DEF FileInv
<1>2. QED BY <1>1, FileInvInit, FileInvNext, PTL DEF Spec
-----------------------------------------------------------------------------
(* One report per row.                                                     *)

\* As long as no two reports have overlapped and no SELECT has failed, the
\* report that is about to be written finds no outcome.
OneReport ==
  clean =>
    /\ \A p, q \in Recorders : rec[p].pc # "idle" /\ rec[q].pc # "idle" => p = q
    /\ \A p \in Recorders : rec[p].pc = "update" => row.outcome = None

\* A row without an outcome holds nothing of a report.
NoneReported ==
  /\ row.outcome = None <=> row.by = None
  /\ row.outcome = None => row.validated = None /\ row.merged = None

ReportInv ==
  /\ OneReport /\ NoneReported
  /\ RowIsOneReport /\ AnswerStaysTrue
  /\ said \in Stamp /\ clean \in BOOLEAN

LEMMA ReportInvInit == Init => ReportInv
BY DEF Init, Absent, RecIdle, ReportInv, OneReport, NoneReported, RowIsOneReport,
   AnswerStaysTrue, Stamp

\* The steps of calls that do not write the row.
LEMMA ReportMoves ==
  ASSUME ReportInv, UNCHANGED <<row, said>>, clean' \in BOOLEAN,
         clean' => clean, OneReport'
  PROVE  ReportInv'
BY DEF ReportInv, NoneReported, RowIsOneReport, AnswerStaysTrue

LEMMA ReportInsert ==
  ASSUME RowInv, ReportInv, NEW i \in Inserters, InsertRun(i)
  PROVE  ReportInv'
<1>1. UNCHANGED <<rec, said, clean>>
  BY DEF InsertRun
<1>2. CASE row' = row
  BY <1>1, <1>2 DEF ReportInv, OneReport, NoneReported, RowIsOneReport, AnswerStaysTrue
<1>3. CASE row' # row
  <2>1. /\ row = Absent
        /\ row' = [Absent EXCEPT !.present = TRUE, !.mode = ins[i].mode,
                                 !.received = ins[i].call]
    BY <1>3 DEF InsertRun, OnConflict, RowInv
  <2>2. /\ row'.outcome = None /\ row'.by = None /\ row'.validated = None
        /\ row'.merged = None /\ row.outcome = None /\ row.by = None
    BY <2>1 DEF Absent
  <2>3. QED
    BY <1>1, <2>2 DEF ReportInv, OneReport, NoneReported, RowIsOneReport, AnswerStaysTrue
<1>4. QED BY <1>2, <1>3

LEMMA ReportBegin ==
  ASSUME RowInv, ReportInv, NEW p \in Recorders, BeginRecord(p)
  PROVE  ReportInv'
<1>1. PICK o \in RunOutcome :
        rec' = [rec EXCEPT ![p] = [pc |-> "select", call |-> calls + 1,
                                   report |-> o, mode |-> None]]
  BY DEF BeginRecord
<1>2. /\ rec'[p].pc = "select" /\ \A q \in Recorders : q # p => rec'[q] = rec[q]
  BY <1>1 DEF RowInv, RecTyped
<1>3. /\ clean' = (clean /\ \A q \in Recorders : rec[q].pc = "idle")
      /\ UNCHANGED <<row, said>>
  BY DEF BeginRecord
<1>4. OneReport'
  BY <1>2, <1>3 DEF OneReport
<1>5. QED BY <1>3, <1>4, ReportMoves

LEMMA ReportSelect ==
  ASSUME RowInv, ReportInv, NEW p \in Recorders, Select(p) \/ SelectFails(p)
  PROVE  ReportInv'
<1>1. CASE SelectFails(p)
  <2>1. ~clean' /\ UNCHANGED <<row, said>>
    BY <1>1 DEF SelectFails
  <2>2. clean' \in BOOLEAN
    BY <1>1 DEF SelectFails
  <2>3. QED BY <2>1, <2>2, ReportMoves DEF OneReport
<1>2. CASE Select(p)
  <2>1. /\ rec[p].pc = "select" /\ UNCHANGED <<row, said, clean>>
        /\ \A q \in Recorders : q # p => rec'[q] = rec[q]
    BY <1>2 DEF Select, RowInv, RecTyped
  <2>2. rec'[p].pc = "idle" \/ (rec'[p].pc = "update" /\ row.outcome = None)
    <3>1. CASE Recorded
      BY <1>2, <3>1 DEF Select, RowInv, RecTyped, RecIdle
    <3>2. CASE ~Recorded
      BY <1>2, <3>2 DEF Select, Recorded, RowInv, RecTyped
    <3>3. QED BY <3>1, <3>2
  <2>3. OneReport'
    BY <2>1, <2>2 DEF ReportInv, OneReport
  <2>4. QED BY <2>1, <2>3, ReportMoves DEF ReportInv
<1>3. QED BY <1>1, <1>2

LEMMA ReportUpdate ==
  ASSUME RowInv, ReportInv, NEW p \in Recorders, Update(p)
  PROVE  ReportInv'
<1> DEFINE r == rec[p]
<1>1. /\ r.pc = "update" /\ UNCHANGED <<said, clean>>
      /\ rec'[p].pc = "idle" /\ \A q \in Recorders : q # p => rec'[q] = rec[q]
  BY DEF Update, RowInv, RecTyped, RecIdle
<1>2. CASE row' = row
  <2>1. OneReport'
    BY <1>1, <1>2 DEF ReportInv, OneReport
  <2>2. QED BY <1>1, <1>2, <2>1, ReportMoves DEF ReportInv
<1>3. CASE row' # row
  <2>1. /\ row'.outcome \in Outcomes /\ row'.outcome # None
    BY <1>3, UpdateWrites, RunStoreAssumption
  <2>2. /\ r.call \in Calls /\ r.call # None
    BY RunStoreAssumption DEF RowInv, CallsTyped, Update, Calls
  <2>3. row' = [row EXCEPT
             !.validated = Coalesce(IF r.report.validated THEN r.call ELSE None, @),
             !.merged = Coalesce(MergedAt(r), @),
             !.outcome = r.report.outcome,
             !.by = r.call]
    BY <1>3 DEF Update
  <2>4. /\ row'.by = r.call
        /\ row'.validated \in {r.call, row.validated}
        /\ row'.merged \in {r.call, row.merged}
    BY <2>3 DEF RowInv, RowTyped, Coalesce, MergedAt
  <2>5. clean => row.outcome = None /\ row.by = None /\ row.validated = None /\ row.merged = None
    BY <1>1 DEF ReportInv, OneReport, NoneReported
  <2>6. OneReport'
    BY <1>1 DEF ReportInv, OneReport
  <2>7. NoneReported' /\ RowIsOneReport'
    BY <1>1, <2>1, <2>2, <2>4, <2>5 DEF NoneReported, RowIsOneReport
  <2>8. AnswerStaysTrue'
    BY <1>1, <2>5 DEF ReportInv, AnswerStaysTrue
  <2>9. QED BY <1>1, <2>6, <2>7, <2>8 DEF ReportInv
<1>4. QED BY <1>2, <1>3

LEMMA ReportInvNext ==
  ASSUME RowInv, ReportInv, [Next]_vars
  PROVE  ReportInv'
<1>1. CASE UNCHANGED <<row, rec, said, clean>>
  BY <1>1 DEF ReportInv, OneReport, NoneReported, RowIsOneReport, AnswerStaysTrue
<1>2. CASE Poll
  BY <1>2
  DEF Poll, ReportInv, OneReport, NoneReported, RowIsOneReport, AnswerStaysTrue,
      RowInv, RowTyped
<1>3. CASE Crash
  BY <1>3
  DEF Crash, ReportInv, OneReport, NoneReported, RowIsOneReport, AnswerStaysTrue, RecIdle
<1>4. QED
  BY <1>1, <1>2, <1>3, ReportInsert, ReportBegin, ReportSelect, ReportUpdate
  DEF Next, vars, Open, AddColumn, Serve, BeginInsert

LEMMA ReportInvAlways == Spec => [](RowInv /\ ReportInv)
<1>1. Init => RowInv /\ ReportInv
  BY RowInvInit, ReportInvInit
<1>2. RowInv /\ ReportInv /\ [Next]_vars => (RowInv /\ ReportInv)'
  BY RowInvNext, ReportInvNext
<1>3. QED BY <1>1, <1>2, PTL DEF Spec

\* Unless reports overlapped or a SELECT failed, what a row says of a report
\* comes from one report: the SELECT that finds an outcome ends the call
\* (store.go:274-288), restarts included.
THEOREM OneReportARow == Spec => []RowIsOneReport
<1>1. RowInv /\ ReportInv => RowIsOneReport
  BY DEF ReportInv
<1>2. QED BY <1>1, ReportInvAlways, PTL

\* Unless reports overlapped or a SELECT failed, the outcome that a poller of
\* GET /v1/runs was given stays the row's (store.go:274-288).
THEOREM PolledOutcomeStays == Spec => []AnswerStaysTrue
<1>1. RowInv /\ ReportInv => AnswerStaysTrue
  BY DEF ReportInv
<1>2. QED BY <1>1, ReportInvAlways, PTL


\* A call that has ended keeps nothing, and one that runs is whole.
CallInv ==
  /\ \A i \in Inserters : ins[i] = InsIdle \/ ins[i] \in [call : Calls, mode : Modes]
  /\ \A p \in Recorders : rec[p].pc = "idle" => rec[p] = RecIdle

LEMMA CallInvInit == Init => CallInv
BY DEF Init, CallInv

LEMMA CallInvNext ==
  ASSUME RowInv, CallInv, [Next]_vars
  PROVE  CallInv'
<1>1. ASSUME NEW i \in Inserters, BeginInsert(i)
      PROVE  CallInv'
  <2>1. calls + 1 \in Calls /\ mode \in Modes
    BY <1>1, RunStoreAssumption DEF BeginInsert, RowInv, CallsTyped, Calls
  <2>2. /\ ins'[i] = [call |-> calls + 1, mode |-> mode]
        /\ \A j \in Inserters : j # i => ins'[j] = ins[j]
    BY <1>1 DEF BeginInsert, RowInv, InsTyped
  <2>3. QED BY <1>1, <2>1, <2>2 DEF BeginInsert, CallInv
<1>2. ASSUME NEW i \in Inserters, InsertRun(i)
      PROVE  CallInv'
  BY <1>2 DEF InsertRun, CallInv, RowInv, InsTyped
<1>3. ASSUME NEW p \in Recorders,
             BeginRecord(p) \/ Select(p) \/ SelectFails(p) \/ Update(p)
      PROVE  CallInv'
  <2>1. /\ \A q \in Recorders : q # p => rec'[q] = rec[q]
        /\ rec'[p].pc = "idle" => rec'[p] = RecIdle
        /\ ins' = ins
    <3>1. CASE BeginRecord(p)
      BY <3>1 DEF BeginRecord, RowInv, RecTyped
    <3>2. CASE Select(p)
      BY <3>2 DEF Select, RowInv, RecTyped
    <3>3. CASE SelectFails(p)
      BY <3>3 DEF SelectFails, RowInv, RecTyped
    <3>4. CASE Update(p)
      BY <3>4 DEF Update, RowInv, RecTyped
    <3>5. QED BY <1>3, <3>1, <3>2, <3>3, <3>4
  <2>2. QED BY <2>1 DEF CallInv
<1>4. CASE Crash
  BY <1>4 DEF Crash, CallInv
<1>5. CASE UNCHANGED <<ins, rec>>
  BY <1>5 DEF CallInv
<1>6. QED
  BY <1>1, <1>2, <1>3, <1>4, <1>5 DEF Next, vars, Open, AddColumn, Serve, Poll

\* The columns stay in their domains, and an absent row has none set.
THEOREM TypeCorrect == Spec => []TypeOK
<1>1. RowInv /\ ReportInv /\ FileInv /\ CallInv => TypeOK
  <2> SUFFICES ASSUME RowInv, ReportInv, FileInv, CallInv PROVE TypeOK
    OBVIOUS
  <2>1. ASSUME NEW p \in Recorders
        PROVE  \/ rec[p] = RecIdle
               \/ rec[p] \in [pc : {"select", "update"}, call : Calls,
                              report : RunOutcome, mode : Modes \union {None}]
    <3>1. CASE rec[p].pc = "idle"
      BY <3>1 DEF CallInv
    <3>2. CASE rec[p].pc # "idle"
      BY <3>2 DEF RowInv, RecTyped, CallsTyped
    <3>3. QED BY <3>1, <3>2
  <2>2. QED
    BY <2>1 DEF TypeOK, RowInv, RowTyped, CallsTyped, ReportInv, NoneReported, FileInv, CallInv
<1>2. Init => FileInv /\ CallInv
  BY FileInvInit, CallInvInit
<1>3. RowInv /\ FileInv /\ CallInv /\ [Next]_vars => (FileInv /\ CallInv)'
  BY FileInvNext, CallInvNext
<1>4. QED BY <1>1, <1>2, <1>3, ReportInvAlways, PTL DEF Spec
-----------------------------------------------------------------------------
(* The two statements of RecordOutcome act as one.                         *)

LEMMA RowStarts == Init => RR!Init
BY DEF Init, Absent, RR!Init, RR!Missing

\* An INSERT that writes is the row's, and the others leave no trace.
LEMMA RowInsert ==
  ASSUME RowInv, CallInv, NEW i \in Inserters, InsertRun(i)
  PROVE  RR!Next \/ UNCHANGED RR!vars
<1>1. ins[i].call \in Calls /\ ins[i].mode \in Modes
  BY DEF InsertRun, CallInv
<1>2. UNCHANGED <<said, clean>>
  BY DEF InsertRun
<1>3. CASE row' = row
  BY <1>2, <1>3 DEF RR!vars
<1>4. CASE row' # row
  <2>1. /\ ~row.present
        /\ row' = [Absent EXCEPT !.present = TRUE, !.mode = ins[i].mode,
                                 !.received = ins[i].call]
    BY <1>4 DEF InsertRun, OnConflict
  <2>2. row' = [RR!Missing EXCEPT !.present = TRUE, !.received = ins[i].call,
                                  !.mode = ins[i].mode]
    BY <2>1 DEF Absent, RR!Missing
  <2>3. RR!Insert(ins[i].call, ins[i].mode)
    BY <1>2, <2>1, <2>2 DEF RR!Insert
  <2>4. QED BY <1>1, <2>3 DEF RR!Next
<1>5. QED BY <1>3, <1>4

\* The UPDATE that writes is the report's, as if it had read the row itself:
\* no outcome has come in between, and the mode the SELECT found is the row's.
LEMMA RowRecord ==
  ASSUME RowInv, ReportInv, NEW p \in Recorders, Update(p)
  PROVE  RR!Next \/ UNCHANGED RR!vars
<1> DEFINE r == rec[p]
<1>1. r.call \in Calls /\ r.report \in RunOutcome /\ r.pc = "update"
  BY DEF RowInv, CallsTyped, Update
<1>2. UNCHANGED <<said, clean>>
  BY DEF Update
<1>3. CASE row' = row
  BY <1>2, <1>3 DEF RR!vars
<1>4. CASE row' # row
  <2>1. row.present /\ (clean => row.outcome = None)
    BY <1>1, <1>4, UpdateWrites DEF ReportInv, OneReport
  <2>2. MergedAt(r) \in RR!Merges(r.call, r.report)
    <3>1. CASE r.report.merged /\ r.mode = "AUTONOMOUS"
      <4>1. row.mode = "AUTONOMOUS"
        BY <3>1, RunStoreAssumption DEF RowInv, ModeIsRows, Modes
      <4>2. QED BY <3>1, <4>1 DEF MergedAt, RR!Merges
    <3>2. CASE ~(r.report.merged /\ r.mode = "AUTONOMOUS")
      BY <3>2 DEF MergedAt, RR!Merges
    <3>3. QED BY <3>1, <3>2
  <2>3. row' = [row EXCEPT
             !.validated = RR!Over(RR!Validations(r.call, r.report), @),
             !.merged = RR!Over(MergedAt(r), @),
             !.outcome = r.report.outcome, !.by = r.call]
    BY <1>4 DEF Update, Coalesce, RR!Over, RR!Validations
  <2>4. RR!Record(r.call, r.report)
    BY <1>2, <2>1, <2>2, <2>3 DEF RR!Record
  <2>5. QED BY <1>1, <2>4 DEF RR!Next
<1>5. QED BY <1>3, <1>4

\* Every other step of a report leaves the row, and at most ends its order.
LEMMA RowQuiet ==
  ASSUME UNCHANGED <<row, said>>, clean' = clean \/ clean' = FALSE
  PROVE  RR!Next \/ UNCHANGED RR!vars
<1>1. CASE clean' = clean
  BY <1>1 DEF RR!vars
<1>2. CASE clean' = FALSE
  BY <1>2 DEF RR!Next, RR!Disorder
<1>3. QED BY <1>1, <1>2

LEMMA RowStep ==
  ASSUME RowInv, ReportInv, CallInv, [Next]_vars
  PROVE  [RR!Next]_RR!vars
<1>1. CASE Open \/ AddColumn \/ Serve \/ Crash \/ UNCHANGED vars
  BY <1>1, RowQuiet DEF Open, AddColumn, Serve, Crash, vars
<1>2. ASSUME NEW i \in Inserters, BeginInsert(i) \/ InsertRun(i)
      PROVE  RR!Next \/ UNCHANGED RR!vars
  BY <1>2, RowQuiet, RowInsert DEF BeginInsert
<1>3. ASSUME NEW p \in Recorders, BeginRecord(p) \/ Select(p) \/ SelectFails(p)
      PROVE  RR!Next \/ UNCHANGED RR!vars
  <2>1. clean' = clean \/ clean' = FALSE
    BY <1>3 DEF BeginRecord, Select, SelectFails, ReportInv
  <2>2. QED BY <1>3, <2>1, RowQuiet DEF BeginRecord, Select, SelectFails
<1>4. ASSUME NEW p \in Recorders, Update(p)
      PROVE  RR!Next \/ UNCHANGED RR!vars
  BY <1>4, RowRecord
<1>5. CASE Poll
  BY <1>5 DEF Poll, RR!Next, RR!Answer
<1>6. QED
  BY <1>1, <1>2, <1>3, <1>4, <1>5 DEF Next

\* The two statements of RecordOutcome act as one: what the SELECT found is
\* still so when the UPDATE writes, unless reports overlapped or a SELECT
\* failed, and the mode it found is so in any case, whatever restarts in
\* between (store.go:262-352).
THEOREM RowImplemented == Spec => ImplementsRunRow
<1>1. Init => CallInv
  BY CallInvInit
<1>2. RowInv /\ CallInv /\ [Next]_vars => CallInv'
  BY CallInvNext
<1>3. RowInv /\ ReportInv /\ CallInv /\ [Next]_vars => [RR!Next]_RR!vars
  BY RowStep
<1>4. QED
  BY <1>1, <1>2, <1>3, RowStarts, ReportInvAlways, PTL
  DEF Spec, ImplementsRunRow, RR!Spec
=============================================================================
