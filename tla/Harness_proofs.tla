--------------------------- MODULE Harness_proofs ---------------------------
(***************************************************************************)
(* Proofs about Harness, for any number of faults, trials, polls, retries  *)
(* and mishaps: a trial is judged by its own fix and meets no lock but one *)
(* of a run that was given up on or that its report left to the TTL,       *)
(* records are kept, and stage 2 rests on a clean stage 1.                 *)
(***************************************************************************)
EXTENDS Harness, SequenceTheorems, TLAPS

Pcs == {"idle", "reset", "dispatch", "poll", "judge", "append"}
Nums == 1..TrialsPerFault

Jobs == [pc : Pcs, num : Nat, last : Nat, polls : Nat, fixes : SUBSET Owners,
         judged : BOOLEAN, error : BOOLEAN]
\* Only a run that has ended reports, and only a report leaves a lock.
Shape(r) ==
  /\ r.todo # <<>> => r.state = "ended"
  /\ r.kept => r.state = "ended" /\ ~Contains(r.todo, "release")

RunRecords == [owner : Owners, state : {"none", "running", "ended"}, merged : BOOLEAN,
               todo : {<<>>, <<"release", "outcome">>, <<"outcome">>}, kept : BOOLEAN]
Runs == {r \in RunRecords : Shape(r)}

Types ==
  /\ cmd \in {"none", "stage1", "stage2", "trial"}
  /\ job \in [Faults -> Jobs]
  /\ mem \in Seq(Records) /\ file \in Seq(Records)
  /\ branch \in [Faults -> SUBSET Owners]
  /\ run \in [Faults -> Runs]
  /\ verdict \in {"none", "passed", "failed"} /\ unsaved \in BOOLEAN
  /\ mishaps \in 0..MaxMishaps

\* A goroutine at work is on a trial of the experiment.
Span(j) ==
  /\ j.polls < MaxPolls /\ j.num <= j.last /\ j.last <= TrialsPerFault
  /\ j.pc # "idle" => j.num \in Nums

Spans ==
  /\ \A f \in Faults : Span(job[f])
  /\ cmd = "none" => job = [f \in Faults |-> JobIdle]

LEMMA Consts ==
  /\ TrialsPerFault \in Nat /\ 1 \in Nums /\ 2 \in Nums /\ TrialsPerFault \in Nums
  /\ MaxPolls \in Nat /\ 0 < MaxPolls /\ MaxMishaps \in Nat
  /\ Retried \subseteq Nums
BY HarnessAssumption DEF Nums

\* The steps of a report.
LEMMA ReportSteps ==
  /\ ReportOrder = <<"release", "outcome">>
  /\ Tail(<<"release", "outcome">>) = <<"outcome">> /\ Tail(<<"outcome">>) = <<>>
  /\ Contains(<<"release", "outcome">>, "release") /\ Contains(<<"release", "outcome">>, "outcome")
  /\ Contains(<<"outcome">>, "outcome") /\ ~Contains(<<"outcome">>, "release")
  /\ ~Contains(<<>>, "release") /\ ~Contains(<<>>, "outcome")
BY DEF ReportOrder, Contains

LEMMA Idle ==
  /\ JobIdle \in Jobs /\ Span(JobIdle) /\ NoRun \in Runs
BY Consts DEF JobIdle, Jobs, Span, Pcs, Owners, NoRun, Runs, RunRecords, Shape
-----------------------------------------------------------------------------
(* Types.                                                                  *)

\* One goroutine moves.
Moves(f, j) ==
  /\ j \in Jobs /\ Span(j)
  /\ job' = [job EXCEPT ![f] = j]

LEMMA MovesAre ==
  ASSUME Types, NEW f \in Faults, NEW j, Moves(f, j)
  PROVE  /\ job' \in [Faults -> Jobs] /\ job'[f] = j
         /\ \A g \in Faults : g # f => job'[g] = job[g]
BY DEF Types, Moves

\* Where the steps of runTrial that are not its last lead.
LEMMA StepMoves ==
  ASSUME Types, Spans, NEW f \in Faults, job[f].pc # "idle",
         NEW pc \in Pcs \ {"idle"}
  PROVE  /\ Goto(f, pc) => Moves(f, [job[f] EXCEPT !.pc = pc])
         /\ Fail(f) => Moves(f, [job[f] EXCEPT !.pc = "append", !.error = TRUE])
<1>1. job[f] \in Jobs /\ Span(job[f]) /\ job \in [Faults -> Jobs]
  BY DEF Types, Spans
<1>2. ASSUME Goto(f, pc) PROVE Moves(f, [job[f] EXCEPT !.pc = pc])
  <2>1. [job[f] EXCEPT !.pc = pc] \in Jobs /\ Span([job[f] EXCEPT !.pc = pc])
    BY <1>1 DEF Jobs, Span
  <2>2. job' = [job EXCEPT ![f] = [job[f] EXCEPT !.pc = pc]]
    BY <1>1, <1>2 DEF Goto
  <2>3. QED BY <2>1, <2>2 DEF Moves
<1>3. ASSUME Fail(f) PROVE Moves(f, [job[f] EXCEPT !.pc = "append", !.error = TRUE])
  <2>1. /\ [job[f] EXCEPT !.pc = "append", !.error = TRUE] \in Jobs
        /\ Span([job[f] EXCEPT !.pc = "append", !.error = TRUE])
    BY <1>1 DEF Jobs, Span, Pcs
  <2>2. job' = [job EXCEPT ![f] = [job[f] EXCEPT !.pc = "append", !.error = TRUE]]
    BY <1>1, <1>3 DEF Fail
  <2>3. QED BY <2>1, <2>2 DEF Moves
<1>4. QED BY <1>2, <1>3

LEMMA PollMoves ==
  ASSUME Types, Spans, NEW f \in Faults, pollUntilOutcome(f)
  PROVE  \/ Moves(f, [job[f] EXCEPT !.pc = "judge"]) /\ Visible(f) /\ run[f].merged
         \/ Moves(f, [job[f] EXCEPT !.pc = "append"])
         \/ Moves(f, [job[f] EXCEPT !.pc = "append", !.error = TRUE])
         \/ \E n \in Nat : Moves(f, [job[f] EXCEPT !.polls = n])
<1> DEFINE n == IF job[f].polls + 1 < MaxPolls THEN job[f].polls + 1 ELSE job[f].polls
<1>1. /\ job[f] \in Jobs /\ Span(job[f]) /\ job \in [Faults -> Jobs]
      /\ job[f].pc = "poll" /\ job[f].polls \in Nat
  BY DEF Types, Spans, pollUntilOutcome, Jobs
<1>2. n \in Nat /\ n < MaxPolls
  BY <1>1, Consts DEF Span
<1>3. CASE Fail(f)
  BY <1>1, <1>3, StepMoves DEF Pcs
<1>4. CASE Visible(f) /\ Goto(f, IF run[f].merged THEN "judge" ELSE "append")
  <2>1. CASE run[f].merged
    BY <1>1, <1>4, <2>1, StepMoves DEF Pcs
  <2>2. CASE ~run[f].merged
    BY <1>1, <1>4, <2>2, StepMoves DEF Pcs
  <2>3. QED BY <2>1, <2>2
<1>5. CASE job' = [job EXCEPT ![f].polls = n]
  <2> HIDE DEF n
  <2>1. [job[f] EXCEPT !.polls = n] \in Jobs /\ Span([job[f] EXCEPT !.polls = n])
    BY <1>1, <1>2 DEF Jobs, Span
  <2>2. job' = [job EXCEPT ![f] = [job[f] EXCEPT !.polls = n]]
    BY <1>1, <1>5
  <2>3. QED BY <1>2, <2>1, <2>2 DEF Moves
<1>6. QED BY <1>3, <1>4, <1>5 DEF pollUntilOutcome

LEMMA JudgeMoves ==
  ASSUME Types, Spans, NEW f \in Faults, Judge(f)
  PROVE  \/ Moves(f, [job[f] EXCEPT !.pc = "append", !.judged = TRUE, !.fixes = branch[f]])
         \/ Moves(f, [job[f] EXCEPT !.pc = "append", !.error = TRUE])
<1> DEFINE j == [job[f] EXCEPT !.pc = "append", !.judged = TRUE, !.fixes = branch[f]]
<1>1. /\ job[f] \in Jobs /\ Span(job[f]) /\ job \in [Faults -> Jobs]
      /\ job[f].pc = "judge" /\ branch[f] \in SUBSET Owners
  BY DEF Types, Spans, Judge
<1>2. CASE Fail(f)
  BY <1>1, <1>2, StepMoves DEF Pcs
<1>3. CASE ~Fail(f)
  <2>1. job' = [job EXCEPT ![f].pc = "append", ![f].judged = TRUE, ![f].fixes = branch[f]]
    BY <1>3 DEF Judge
  <2>2. job' = [job EXCEPT ![f] = j]
    BY <1>1, <2>1
  <2>3. j \in Jobs /\ Span(j)
    BY <1>1 DEF Jobs, Span, Pcs
  <2>4. QED BY <2>2, <2>3 DEF Moves
<1>4. QED BY <1>2, <1>3

LEMMA AppendMoves ==
  ASSUME Types, Spans, NEW f \in Faults, AppendRecord(f)
  PROVE  /\ Moves(f, NextTrial(job[f]))
         /\ TrialRecord(f) \in Records
         /\ NextTrial(job[f]).pc \in {"idle", "reset"} /\ ~NextTrial(job[f]).judged
<1> DEFINE j == NextTrial(job[f])
<1>1. /\ job[f] \in Jobs /\ Span(job[f]) /\ job[f].num \in Nums
      /\ job[f].pc = "append" /\ job[f].num \in Nat /\ job[f].last \in Nat
      /\ job[f].error \in BOOLEAN /\ JobIdle \in Jobs
  BY Idle DEF Types, Spans, Span, AppendRecord, Jobs
<1>2. TrialRecord(f) \in Records
  BY <1>1 DEF TrialRecord, Records, Nums
<1>3. CASE job[f].num = job[f].last
  <2>1. j = [JobIdle EXCEPT !.error = job[f].error]
    BY <1>3 DEF NextTrial
  <2>2. j \in Jobs /\ Span(j) /\ j.pc = "idle" /\ ~j.judged
    <3> HIDE DEF j
    <3>1. j = [pc |-> "idle", num |-> 0, last |-> 0, polls |-> 0, fixes |-> {},
               judged |-> FALSE, error |-> job[f].error]
      BY <2>1 DEF JobIdle
    <3>2. j \in Jobs
      BY <1>1, <3>1 DEF Jobs, Pcs
    <3>3. QED BY <3>1, <3>2, Consts DEF Span
  <2>3. QED BY <1>2, <2>2 DEF AppendRecord, Moves
<1>4. CASE job[f].num # job[f].last
  <2> DEFINE num == job[f].num + 1
             last == job[f].last
  <2>1. num \in Nat /\ last \in Nat /\ num <= last /\ last <= TrialsPerFault /\ num \in Nums
    BY <1>1, <1>4, Consts DEF Span, Nums
  <2>2. j = [JobIdle EXCEPT !.pc = "reset", !.num = num, !.last = last]
    BY <1>4 DEF NextTrial
  <2> HIDE DEF num, last
  <2>3. j \in Jobs /\ Span(j) /\ j.pc = "reset" /\ ~j.judged
    BY <1>1, <2>1, <2>2, Consts DEF JobIdle, Jobs, Span, Pcs
  <2>4. QED BY <1>2, <2>3 DEF AppendRecord, Moves
<1>5. QED BY <1>3, <1>4

\* The run and the branch a trial leaves behind.
LEMMA PastTypes ==
  ASSUME Types, NEW f \in Faults
  PROVE  PastRun(f) \in Runs /\ PastBranch(f) \in SUBSET Owners
<1>1. run[f] \in Runs /\ branch[f] \in SUBSET Owners /\ NoRun \in Runs
  BY Idle DEF Types
<1>2. PastOwner(f) \in Owners
  BY DEF PastOwner, Owners
<1>3. PastRun(f) \in Runs
  BY <1>1, <1>2 DEF PastRun, Runs, RunRecords, Shape
<1>4. PastBranch(f) \in SUBSET Owners
  BY <1>1, <1>2 DEF PastBranch
<1>5. QED BY <1>3, <1>4

LEMMA TypesInit == Init => Types /\ Spans
<1> SUFFICES ASSUME Init PROVE Types /\ Spans
  OBVIOUS
<1>1. job \in [Faults -> Jobs] /\ Spans /\ run \in [Faults -> Runs]
  BY Idle DEF Init, Spans
<1>2. <<>> \in Seq(Records)
  OBVIOUS
<1>3. mishaps \in 0..MaxMishaps
  BY Consts DEF Init
<1>4. branch \in [Faults -> SUBSET Owners]
  BY DEF Init
<1>5. QED BY <1>1, <1>2, <1>3, <1>4 DEF Init, Types

\* The goroutines of a command, each on its first trial.
LEMMA Begun ==
  ASSUME NEW c, NEW fs \in SUBSET Faults, NEW first \in Nums, NEW last \in Nums,
         first <= last, Begin(c, fs, first, last)
  PROVE  /\ job' \in [Faults -> Jobs] /\ \A f \in Faults : Span(job'[f])
         /\ \A f \in Faults : ~job'[f].judged /\ job'[f].pc \in {"idle", "reset"}
         /\ \A f \in Faults : job'[f].pc # "idle" => f \in fs /\ job'[f].num = first
         /\ \A f \in fs : job'[f].pc = "reset"
<1> DEFINE j == [JobIdle EXCEPT !.pc = "reset", !.num = first, !.last = last]
<1>1. first \in Nat /\ last \in Nat /\ last <= TrialsPerFault
  BY Consts DEF Nums
<1>2. job' = [f \in Faults |-> IF f \in fs THEN j ELSE JobIdle]
  BY DEF Begin
<1>3. j \in Jobs /\ Span(j) /\ ~j.judged /\ j.pc = "reset" /\ j.num = first
  <2>1. j = [JobIdle EXCEPT !.pc = "reset", !.num = first, !.last = last]
    OBVIOUS
  <2> HIDE DEF j
  <2>2. j = [pc |-> "reset", num |-> first, last |-> last, polls |-> 0, fixes |-> {},
             judged |-> FALSE, error |-> FALSE]
    BY <2>1 DEF JobIdle
  <2>3. j \in Jobs
    BY <1>1, <2>2 DEF Jobs, Pcs
  <2>4. QED BY <1>1, <2>2, <2>3, Consts DEF Span
<1> HIDE DEF j
<1>4. JobIdle.pc = "idle" /\ ~JobIdle.judged
  BY DEF JobIdle
<1>5. QED BY <1>2, <1>3, <1>4, Idle

LEMMA TypesBegin ==
  ASSUME Types, Spans, NEW c \in {"stage1", "stage2", "trial"}, NEW fs \in SUBSET Faults,
         NEW first \in Nums, NEW last \in Nums, first <= last, Begin(c, fs, first, last)
  PROVE  Types' /\ Spans'
<1>1. /\ cmd' = c /\ mem' = file /\ verdict' \in {"none", "passed", "failed"}
      /\ UNCHANGED <<file, unsaved, branch, run, mishaps>>
  BY DEF Begin, Opened, gateway, Types
<1>2. QED BY <1>1, Begun DEF Types, Spans

LEMMA TypesStop ==
  ASSUME Types, Spans, Finish \/ Crash
  PROVE  Types' /\ Spans'
<1>1. /\ cmd' = "none" /\ mem' = <<>> /\ job' = [f \in Faults |-> JobIdle]
      /\ file' = file
  BY DEF Finish, Crash
<1>2. CASE Finish
  <2>1. /\ verdict' \in {"none", "passed", "failed"} /\ unsaved' \in BOOLEAN
        /\ UNCHANGED <<branch, run, mishaps>>
    BY <1>2 DEF Finish, gateway, Types
  <2>2. QED BY <1>1, <2>1, Idle DEF Types, Spans
<1>3. CASE Crash
  <2>1. mishaps' \in 0..MaxMishaps
    BY <1>3, Consts DEF Crash, Mishap, Types
  <2>2. run' \in [Faults -> Runs] /\ branch' \in [Faults -> SUBSET Owners]
    BY <1>3, PastTypes DEF Crash
  <2>3. QED BY <1>1, <1>3, <2>1, <2>2, Idle DEF Crash, Types, Spans
<1>4. QED BY <1>2, <1>3

\* What a step of runTrial leaves alone, by its position.
LEMMA StepKeeps ==
  ASSUME Types, Spans, NEW f \in Faults, JobStep(f)
  PROVE  /\ cmd' = cmd /\ cmd # "none" /\ UNCHANGED <<verdict, unsaved>>
         /\ mishaps' \in 0..MaxMishaps
         /\ ~AppendRecord(f) => UNCHANGED <<mem, file>>
<1>1. job[f].pc # "idle"
  BY DEF JobStep, resetMergeTargetBranch, dispatchAlert, pollUntilOutcome, Judge, AppendRecord
<1>2. cmd # "none"
  BY <1>1 DEF Spans, JobIdle
<1>3. cmd' = cmd /\ UNCHANGED <<verdict, unsaved>> /\ (~AppendRecord(f) => UNCHANGED <<mem, file>>)
  BY DEF JobStep, resetMergeTargetBranch, dispatchAlert, pollUntilOutcome, Judge, AppendRecord
<1>4. Fine \/ Mishap
  BY DEF JobStep, resetMergeTargetBranch, dispatchAlert, pollUntilOutcome, Judge, AppendRecord
<1>5. mishaps' \in 0..MaxMishaps
  BY <1>4, Consts DEF Types, Fine, Mishap
<1>6. QED BY <1>2, <1>3, <1>5

\* The run an alert has started.
Started == [NoRun EXCEPT !.state = "running"]

LEMMA StartedIs == Started \in Runs /\ Started.owner = "own" /\ Started.state = "running"
<1>1. NoRun \in Runs /\ NoRun.owner = "own"
  BY Idle DEF NoRun
<1>2. QED BY <1>1 DEF Started, Runs, RunRecords, Shape, NoRun

\* A step of runTrial that is not its last moves its goroutine to another
\* place of the same trial.
Within(f, j) ==
  /\ Moves(f, j) /\ j.pc # "idle" /\ job[f].pc # "idle"
  /\ j.num = job[f].num /\ j.last = job[f].last

LEMMA WithinIs ==
  ASSUME Types, NEW f \in Faults, job[f].pc # "idle", NEW pc \in Pcs \ {"idle"}
  PROVE  /\ Moves(f, [job[f] EXCEPT !.pc = pc]) => Within(f, [job[f] EXCEPT !.pc = pc])
         /\ Moves(f, [job[f] EXCEPT !.pc = "append", !.error = TRUE])
              => Within(f, [job[f] EXCEPT !.pc = "append", !.error = TRUE])
BY DEF Types, Within, Jobs

LEMMA GoesWithin ==
  ASSUME Types, Spans, NEW f \in Faults, job[f].pc # "idle", NEW pc \in Pcs \ {"idle"},
         Goto(f, pc) \/ Fail(f)
  PROVE  \E j : Within(f, j)
BY StepMoves, WithinIs

LEMMA StepWithin ==
  ASSUME Types, Spans, NEW f \in Faults, JobStep(f), ~AppendRecord(f)
  PROVE  \E j : Within(f, j)
<1>1. job[f] \in Jobs
  BY DEF Types
<1>2. CASE resetMergeTargetBranch(f) \/ dispatchAlert(f)
  <2>1. job[f].pc \in {"reset", "dispatch"}
    BY <1>2 DEF resetMergeTargetBranch, dispatchAlert
  <2>2. Goto(f, "dispatch") \/ Goto(f, "poll") \/ Fail(f)
    BY <1>2 DEF resetMergeTargetBranch, dispatchAlert
  <2>3. QED BY <2>1, <2>2, GoesWithin DEF Pcs
<1>3. CASE pollUntilOutcome(f)
  <2>1. job[f].pc = "poll"
    BY <1>3 DEF pollUntilOutcome
  <2>2. ASSUME NEW n \in Nat, Moves(f, [job[f] EXCEPT !.polls = n])
        PROVE  Within(f, [job[f] EXCEPT !.polls = n])
    BY <1>1, <2>1, <2>2 DEF Within, Jobs
  <2>3. CASE \E n \in Nat : Moves(f, [job[f] EXCEPT !.polls = n])
    BY <2>2, <2>3
  <2>4. CASE \/ Moves(f, [job[f] EXCEPT !.pc = "judge"])
             \/ Moves(f, [job[f] EXCEPT !.pc = "append"])
             \/ Moves(f, [job[f] EXCEPT !.pc = "append", !.error = TRUE])
    BY <2>1, <2>4, WithinIs DEF Pcs
  <2>5. QED BY <1>3, <2>3, <2>4, PollMoves
<1>4. CASE Judge(f)
  <2> DEFINE j == [job[f] EXCEPT !.pc = "append", !.judged = TRUE, !.fixes = branch[f]]
  <2>1. job[f].pc = "judge"
    BY <1>4 DEF Judge
  <2>2. Moves(f, j) => Within(f, j)
    BY <1>1, <2>1 DEF Within, Jobs
  <2>3. CASE Moves(f, j)
    BY <2>2, <2>3
  <2>4. CASE Moves(f, [job[f] EXCEPT !.pc = "append", !.error = TRUE])
    BY <2>1, <2>4, WithinIs DEF Pcs
  <2>5. QED BY <1>4, <2>3, <2>4, JudgeMoves
<1>5. QED BY <1>2, <1>3, <1>4 DEF JobStep

\* A fault's step is nobody else's business.
Apart(f) ==
  \A g \in Faults : g # f =>
    job'[g] = job[g] /\ run'[g] = run[g] /\ branch'[g] = branch[g]

LEMMA TypesJobStep ==
  ASSUME Types, Spans, NEW f \in Faults, JobStep(f)
  PROVE  Types' /\ Spans' /\ Apart(f)
<1>1. /\ cmd' = cmd /\ cmd # "none" /\ UNCHANGED <<verdict, unsaved>>
      /\ mishaps' \in 0..MaxMishaps
      /\ ~AppendRecord(f) => UNCHANGED <<mem, file>>
  BY StepKeeps
<1>2. PICK j : Moves(f, j)
  BY StepWithin, AppendMoves DEF Within
<1>3. /\ job' \in [Faults -> Jobs] /\ \A g \in Faults : Span(job'[g])
      /\ \A g \in Faults : g # f => job'[g] = job[g]
  BY <1>2, MovesAre DEF Spans, Moves
<1>4. run \in [Faults -> Runs] /\ branch \in [Faults -> SUBSET Owners]
  BY DEF Types
<1>5. /\ run' = run \/ run' = [run EXCEPT ![f] = Started]
           \/ run' = [run EXCEPT ![f] = PastRun(f)]
      /\ branch' = branch \/ branch' = [branch EXCEPT ![f] = Baseline(f)]
           \/ branch' = [branch EXCEPT ![f] = PastBranch(f)]
  BY DEF JobStep, resetMergeTargetBranch, dispatchAlert, pollUntilOutcome, Judge,
         AppendRecord, gateway, Started
<1>6. Baseline(f) \in SUBSET Owners
  BY DEF Baseline
<1>7. /\ run' \in [Faults -> Runs] /\ branch' \in [Faults -> SUBSET Owners]
      /\ \A g \in Faults : g # f => run'[g] = run[g] /\ branch'[g] = branch[g]
  BY <1>4, <1>5, <1>6, PastTypes, StartedIs
<1>8. mem' \in Seq(Records) /\ file' \in Seq(Records)
  <2>1. CASE AppendRecord(f)
    <3>1. Append(mem, TrialRecord(f)) \in Seq(Records)
      BY <2>1, AppendMoves, AppendProperties DEF Types
    <3>2. QED BY <2>1, <3>1 DEF AppendRecord, Types
  <2>2. CASE ~AppendRecord(f)
    BY <1>1, <2>2 DEF Types
  <2>3. QED BY <2>1, <2>2
<1>9. Types'
  BY <1>1, <1>3, <1>7, <1>8 DEF Types
<1>10. QED BY <1>1, <1>3, <1>7, <1>9 DEF Spans, Apart

\* A step of the run's report, or the end of its lock: nobody keeps a run that
\* is no trial's own and holds no lock.
LEMMA BecomesIs ==
  ASSUME Types, NEW f \in Faults, NEW e \in Runs, RunBecomes(f, e)
  PROVE  /\ run' \in [Faults -> Runs] /\ \A g \in Faults : g # f => run'[g] = run[g]
         /\ run'[f] = NoRun \/ run'[f] = e
         /\ run'[f].owner = "own" \/ (run'[f] = e /\ Holds(e))
<1>1. run \in [Faults -> Runs] /\ NoRun \in Runs /\ NoRun.owner = "own"
  BY Idle DEF Types, NoRun
<1>2. QED BY <1>1 DEF RunBecomes

LEMMA ReportMoves ==
  ASSUME Types, NEW f \in Faults, Report(f) \/ LockExpires(f)
  PROVE  \E e \in Runs :
           /\ RunBecomes(f, e) /\ run[f].state = "ended"
           /\ e.owner = run[f].owner /\ e.state = run[f].state /\ e.merged = run[f].merged
           /\ run[f].kept => e.kept \/ ~Holds(e)
<1> DEFINE r == run[f]
<1>1. r \in RunRecords /\ Shape(r)
  BY DEF Types, Runs
<1>2. CASE Report(f)
  <2>1. r.todo # <<>> /\ r.state = "ended"
    BY <1>1, <1>2 DEF Report, Shape
  <2>2. r.todo \in {<<"release", "outcome">>, <<"outcome">>}
    BY <1>1, <2>1 DEF RunRecords
  <2>3. Tail(r.todo) \in {<<>>, <<"outcome">>} /\ ~Contains(Tail(r.todo), "release")
    BY <2>2, ReportSteps
  <2> DEFINE e == [r EXCEPT !.todo = Tail(@)]
             k == [r EXCEPT !.todo = Tail(@), !.kept = TRUE]
  <2>4. /\ e \in RunRecords /\ k \in RunRecords
        /\ e.owner = r.owner /\ e.state = r.state /\ e.merged = r.merged
        /\ k.owner = r.owner /\ k.state = r.state /\ k.merged = r.merged
        /\ e.todo = Tail(r.todo) /\ k.todo = Tail(r.todo) /\ e.kept = r.kept /\ k.kept
    BY <1>1, <2>3 DEF RunRecords
  <2>5. RunBecomes(f, e) \/ RunBecomes(f, k)
    BY <1>2 DEF Report
  <2> HIDE DEF e, k
  <2>6. e \in Runs /\ k \in Runs
    BY <2>1, <2>3, <2>4 DEF Runs, Shape
  <2>7. QED BY <2>1, <2>4, <2>5, <2>6
<1>3. CASE LockExpires(f)
  <2> DEFINE e == [r EXCEPT !.kept = FALSE]
  <2>1. r.kept /\ RunBecomes(f, e)
    BY <1>3 DEF LockExpires
  <2>2. /\ e \in RunRecords /\ e.owner = r.owner /\ e.state = r.state
        /\ e.merged = r.merged /\ e.todo = r.todo /\ ~e.kept
    BY <1>1 DEF RunRecords
  <2> HIDE DEF e
  <2>3. r.state = "ended" /\ ~Contains(r.todo, "release")
    BY <1>1, <2>1 DEF Shape
  <2>4. e \in Runs /\ ~Holds(e)
    BY <1>1, <2>2, <2>3 DEF Runs, Shape, Holds
  <2>5. QED BY <2>1, <2>2, <2>3, <2>4
<1>4. QED BY <1>2, <1>3

\* What the gateway and the repair runs do to a fault's run and branch.
LEMMA RunMoves ==
  ASSUME Types, NEW f \in Faults, RunStep(f)
  PROVE  /\ run' \in [Faults -> Runs] /\ branch' \in [Faults -> SUBSET Owners]
         /\ UNCHANGED <<cmd, job, mem, file, verdict, unsaved>>
         /\ mishaps' \in 0..MaxMishaps /\ Apart(f)
         /\ run'[f].owner \in {"own", run[f].owner}
         /\ run'[f].state # "none" => run[f].state # "none" /\ run'[f].owner = run[f].owner
         /\ branch[f] \subseteq branch'[f]
         /\ branch'[f] \subseteq branch[f] \union {run[f].owner}
         /\ run'[f].state = "ended" /\ run'[f].merged =>
              run[f].owner \in branch'[f] \/ (run[f].state = "ended" /\ run[f].merged)
         /\ run[f].state # "running" => branch'[f] = branch[f]
         /\ run[f].kept => run'[f].kept \/ run'[f].owner = "own"
<1> DEFINE r == run[f]
<1>1. r \in Runs /\ run \in [Faults -> Runs] /\ branch \in [Faults -> SUBSET Owners]
  BY DEF Types
<1>2. CASE EndRun(f)
  <2>1. PICK merged \in BOOLEAN :
          /\ run' = [run EXCEPT ![f].state = "ended", ![f].merged = merged,
                                ![f].todo = ReportOrder]
          /\ branch' = [branch EXCEPT ![f] = IF merged THEN @ \union {run[f].owner} ELSE @]
    BY <1>2 DEF EndRun
  <2> DEFINE e == [r EXCEPT !.state = "ended", !.merged = merged, !.todo = ReportOrder]
  <2>2. run' = [run EXCEPT ![f] = e]
    BY <1>1, <2>1
  <2>3. ~r.kept
    BY <1>1, <1>2 DEF EndRun, Runs, Shape
  <2>4. /\ e \in Runs /\ e.owner = r.owner /\ e.merged = merged /\ e.state = "ended"
    BY <1>1, ReportSteps, <2>3 DEF Runs, RunRecords, Shape
  <2> HIDE DEF e
  <2>5. run' \in [Faults -> Runs] /\ run'[f] = e /\ \A g \in Faults : g # f => run'[g] = run[g]
    BY <1>1, <2>2, <2>4
  <2>6. /\ branch' \in [Faults -> SUBSET Owners]
        /\ branch'[f] = IF merged THEN branch[f] \union {r.owner} ELSE branch[f]
        /\ \A g \in Faults : g # f => branch'[g] = branch[g]
    BY <1>1, <2>1 DEF Runs, RunRecords
  <2>7. /\ UNCHANGED <<cmd, job, mem, file, verdict, unsaved, mishaps>>
        /\ r.state = "running"
    BY <1>2 DEF EndRun, harness
  <2>8. Apart(f) /\ mishaps' \in 0..MaxMishaps
    BY <2>5, <2>6, <2>7 DEF Apart, Types
  <2>9. /\ run'[f].owner = r.owner /\ r.state # "none"
        /\ run'[f].merged => r.owner \in branch'[f]
    BY <2>4, <2>5, <2>6, <2>7
  <2>10. branch[f] \subseteq branch'[f] /\ branch'[f] \subseteq branch[f] \union {r.owner}
    BY <2>6
  <2>11. QED BY <2>5, <2>6, <2>7, <2>8, <2>9, <2>10, <2>3
<1>3. CASE Report(f) \/ LockExpires(f)
  <2>1. PICK e \in Runs :
          /\ RunBecomes(f, e) /\ r.state = "ended"
          /\ e.owner = r.owner /\ e.state = r.state /\ e.merged = r.merged
          /\ r.kept => e.kept \/ ~Holds(e)
    BY <1>3, ReportMoves
  <2>2. /\ UNCHANGED <<cmd, job, mem, file, verdict, unsaved, branch>>
        /\ mishaps' \in 0..MaxMishaps
    BY <1>3, Consts DEF Report, LockExpires, Fine, Mishap, harness, Types
  <2>3. /\ run' \in [Faults -> Runs] /\ \A g \in Faults : g # f => run'[g] = run[g]
        /\ run'[f] = NoRun \/ run'[f] = e
        /\ run'[f].owner = "own" \/ (run'[f] = e /\ Holds(e))
    BY <2>1, BecomesIs
  <2>4. NoRun.owner = "own" /\ NoRun.state = "none" /\ ~NoRun.merged
    BY DEF NoRun
  <2>5. branch' \in [Faults -> SUBSET Owners] /\ Apart(f)
    BY <1>1, <2>2, <2>3 DEF Apart
  <2>6. QED BY <2>1, <2>2, <2>3, <2>4, <2>5
<1>4. CASE RunDies(f)
  <2>1. run' = [run EXCEPT ![f] = NoRun] /\ UNCHANGED <<cmd, job, mem, file, verdict, unsaved, branch>>
    BY <1>4 DEF RunDies, harness
  <2>2. mishaps' \in 0..MaxMishaps
    BY <1>4, Consts DEF RunDies, Mishap, Types
  <2>3. run'[f] = NoRun /\ run' \in [Faults -> Runs]
    BY <1>1, <2>1, Idle
  <2>4. QED BY <1>1, <2>1, <2>2, <2>3 DEF NoRun, Apart
<1>5. QED BY <1>2, <1>3, <1>4 DEF RunStep

\* The commands, as Begin.
LEMMA Commands ==
  ASSUME Stage1 \/ Stage2 \/ Trial
  PROVE  \E c \in {"stage1", "stage2", "trial"}, fs \in SUBSET Faults,
            first \in Nums, last \in Nums : first <= last /\ Begin(c, fs, first, last)
<1>1. CASE Stage1
  BY <1>1, Consts DEF Stage1
<1>2. CASE Stage2
  <2>1. 2 <= TrialsPerFault
    BY HarnessAssumption
  <2>2. QED BY <1>2, <2>1, Consts DEF Stage2
<1>3. CASE Trial
  <2>1. PICK f \in Faults, n \in Retried : Begin("trial", {f}, n, n)
    BY <1>3 DEF Trial
  <2>2. n \in Nums /\ n <= n /\ {f} \in SUBSET Faults
    BY Consts DEF Nums
  <2>3. QED BY <2>1, <2>2
<1>4. QED BY <1>1, <1>2, <1>3

LEMMA TypesStep ==
  ASSUME Types, Spans, [Next]_vars
  PROVE  Types' /\ Spans'
<1>1. CASE Stage1 \/ Stage2 \/ Trial
  BY <1>1, Commands, TypesBegin
<1>2. CASE Finish \/ Crash
  BY <1>2, TypesStop
<1>3. ASSUME NEW f \in Faults, JobStep(f) PROVE Types' /\ Spans'
  BY <1>3, TypesJobStep
<1>4. ASSUME NEW f \in Faults, RunStep(f) PROVE Types' /\ Spans'
  <2>1. Types'
    BY <1>4, RunMoves DEF Types
  <2>2. Spans'
    BY <1>4, RunMoves DEF Spans
  <2>3. QED BY <2>1, <2>2
<1>5. CASE UNCHANGED vars
  BY <1>5 DEF vars, harness, gateway, Types, Spans
<1>6. QED BY <1>1, <1>2, <1>3, <1>4, <1>5 DEF Next

LEMMA TypesHold == Spec => [](Types /\ Spans)
<1>1. Init => Types /\ Spans
  BY TypesInit
<1>2. Types /\ Spans /\ [Next]_vars => (Types /\ Spans)'
  BY TypesStep
<1>3. QED BY <1>1, <1>2, PTL DEF Spec

\* The variables stay in their domains: a goroutine never polls beyond its
\* limit nor runs a trial beyond its last, and none outlives its command.
THEOREM TypeCorrect == Spec => []TypeOK
<1>1. Types /\ Spans => TypeOK
  <2> SUFFICES ASSUME Types, Spans PROVE TypeOK
    OBVIOUS
  <2>1. ASSUME NEW f \in Faults
        PROVE  /\ job[f].pc \in {"idle", "reset", "dispatch", "poll", "judge", "append"}
               /\ job[f].polls \in 0..(MaxPolls - 1)
               /\ job[f].num <= job[f].last /\ job[f].last <= TrialsPerFault
               /\ cmd = "none" => job[f] = JobIdle
    BY Consts DEF Types, Spans, Span, Jobs, Pcs
  <2>2. run \in [Faults -> [owner : Owners, state : {"none", "running", "ended"},
                            merged : BOOLEAN,
                            todo : {<<>>, ReportOrder, Tail(ReportOrder)},
                            kept : BOOLEAN]]
    BY ReportSteps DEF Types, Runs, RunRecords
  <2>3. QED BY <2>1, <2>2 DEF Types, TypeOK
<1>2. QED BY <1>1, TypesHold, PTL
-----------------------------------------------------------------------------
(* A trial, its run and its branch.                                        *)

\* A run whose outcome was seen is in a later trial's way only if its report
\* has left the lock (it has ended, and merges nothing any more); a trial that
\* has not posted its alert has no run of its own; what is on the branch after the reset is this trial's fix or one of a run that was given up on.
TrialOf(f) ==
  /\ run[f].owner = "earlier" => run[f].kept
  /\ job[f].pc \in {"idle", "reset", "dispatch"} /\ run[f].owner = "own"
       => run[f].state = "none"
  /\ run[f].owner = "own" /\ run[f].state = "ended" /\ run[f].merged => "own" \in branch[f]
  /\ job[f].pc \in {"dispatch", "poll", "judge"} => "earlier" \notin branch[f]
  /\ job[f].pc = "judge" => "own" \in branch[f]
  /\ job[f].judged => "own" \in job[f].fixes /\ "earlier" \notin job[f].fixes

TrialInv == \A f \in Faults : TrialOf(f)

\* A run outlives its trial only when nobody has seen its outcome, or when its
\* report has left the lock.
LEMMA PastIs ==
  ASSUME Types, NEW f \in Faults, TrialOf(f)
  PROVE  /\ PastRun(f).owner = "earlier" => PastRun(f).kept
         /\ PastRun(f).owner = "own" => PastRun(f).state = "none"
<1>1. run[f] \in Runs
  BY DEF Types
<1>2. CASE ~Holds(run[f])
  BY <1>2 DEF PastRun, NoRun
<1>3. CASE Holds(run[f]) /\ run[f].owner # "own"
  BY <1>3 DEF PastRun, TrialOf
<1>4. CASE Holds(run[f]) /\ run[f].owner = "own"
  <2> DEFINE p == [run[f] EXCEPT !.owner = PastOwner(f), !.merged = FALSE]
  <2>1. Visible(f) => run[f].kept
    <3> SUFFICES ASSUME Visible(f), ~run[f].kept PROVE FALSE
      OBVIOUS
    <3>1. run[f].todo = <<"release", "outcome">>
      BY <1>1, <1>4, ReportSteps DEF Visible, Holds, Runs, RunRecords
    <3>2. QED BY <3>1, ReportSteps DEF Visible
  <2>2. PastRun(f) = p
    BY <1>4 DEF PastRun
  <2>3. p.owner = PastOwner(f) /\ p.kept = run[f].kept
    BY <1>1 DEF Runs, RunRecords
  <2> HIDE DEF p
  <2>4. QED BY <2>1, <2>2, <2>3 DEF PastOwner
<1>5. QED BY <1>2, <1>3, <1>4

LEMMA TrialBegin ==
  ASSUME Types, Spans, TrialInv, Stage1 \/ Stage2 \/ Trial
  PROVE  TrialInv'
<1>1. PICK c \in {"stage1", "stage2", "trial"}, fs \in SUBSET Faults,
           first \in Nums, last \in Nums : first <= last /\ Begin(c, fs, first, last)
  BY Commands
<1>2. cmd = "none" /\ run' = run /\ branch' = branch
  BY <1>1 DEF Begin, gateway
<1>3. \A f \in Faults : job[f].pc = "idle"
  BY <1>2 DEF Spans, JobIdle
<1>4. \A f \in Faults : ~job'[f].judged /\ job'[f].pc \in {"idle", "reset"}
  BY <1>1, Begun
<1>5. QED BY <1>2, <1>3, <1>4 DEF TrialInv, TrialOf

LEMMA TrialStop ==
  ASSUME Types, Spans, TrialInv, Finish \/ Crash
  PROVE  TrialInv'
<1>1. \A f \in Faults : ~job'[f].judged /\ job'[f].pc = "idle"
  BY DEF Finish, Crash, JobIdle
<1>2. CASE Finish
  <2>1. run' = run /\ branch' = branch /\ \A f \in Faults : job[f].pc = "idle"
    BY <1>2 DEF Finish, gateway
  <2>2. QED BY <1>1, <2>1 DEF TrialInv, TrialOf
<1>3. CASE Crash
  <2>1. \A f \in Faults : run'[f] = PastRun(f)
    BY <1>3 DEF Crash
  <2>2. ASSUME NEW f \in Faults PROVE TrialOf(f)'
    <3>1. /\ run'[f].owner = "earlier" => run'[f].kept
          /\ run'[f].owner = "own" => run'[f].state = "none"
      BY <2>1, PastIs DEF TrialInv
    <3>2. QED BY <1>1, <3>1 DEF TrialOf
  <2>3. QED BY <2>2 DEF TrialInv
<1>4. QED BY <1>2, <1>3

LEMMA TrialRun ==
  ASSUME Types, TrialInv, NEW f \in Faults, RunStep(f)
  PROVE  TrialInv'
<1>1. TrialOf(f)
  BY DEF TrialInv
<1>2. TrialOf(f)'
  <2>1. run[f].owner = "earlier" => run[f].state = "ended"
    BY <1>1 DEF TrialOf, Types, Runs, Shape
  <2>2. QED BY <1>1, <2>1, RunMoves DEF TrialOf
<1>3. ASSUME NEW g \in Faults, g # f PROVE TrialOf(g)'
  <2>1. job'[g] = job[g] /\ run'[g] = run[g] /\ branch'[g] = branch[g]
    BY <1>3, RunMoves DEF Apart
  <2>2. QED BY <2>1 DEF TrialInv, TrialOf
<1>4. QED BY <1>2, <1>3 DEF TrialInv

\* Where a step of runTrial leaves the fields of its goroutine.
LEMMA GotoIs ==
  ASSUME Types, Spans, NEW f \in Faults, job[f].pc # "idle",
         NEW pc \in Pcs \ {"idle"}, Goto(f, pc)
  PROVE  /\ job'[f].pc = pc /\ job'[f].judged = job[f].judged
         /\ job'[f].fixes = job[f].fixes
<1>1. job'[f] = [job[f] EXCEPT !.pc = pc]
  BY StepMoves, MovesAre
<1>2. QED BY <1>1 DEF Types, Jobs

LEMMA FailIs ==
  ASSUME Types, Spans, NEW f \in Faults, job[f].pc # "idle", Fail(f)
  PROVE  /\ job'[f].pc = "append" /\ job'[f].judged = job[f].judged
         /\ job'[f].fixes = job[f].fixes
<1>1. Moves(f, [job[f] EXCEPT !.pc = "append", !.error = TRUE])
  <2>1. "append" \in Pcs \ {"idle"}
    BY DEF Pcs
  <2>2. QED BY <2>1, StepMoves
<1>2. job'[f] = [job[f] EXCEPT !.pc = "append", !.error = TRUE]
  BY <1>1, MovesAre
<1>3. QED BY <1>2 DEF Types, Jobs

LEMMA TrialReset ==
  ASSUME Types, Spans, NEW f \in Faults, TrialOf(f), resetMergeTargetBranch(f)
  PROVE  TrialOf(f)'
<1>1. job[f].pc = "reset" /\ run' = run /\ "dispatch" \in Pcs \ {"idle"}
  BY DEF resetMergeTargetBranch, Pcs
<1>2. run[f].owner = "own" => run[f].state = "none"
  BY <1>1 DEF TrialOf
<1>3. CASE Goto(f, "dispatch") /\ branch' = [branch EXCEPT ![f] = Baseline(f)]
  <2>1. /\ job'[f].pc = "dispatch" /\ job'[f].judged = job[f].judged
        /\ job'[f].fixes = job[f].fixes
    BY <1>1, <1>3, GotoIs
  <2>2. branch'[f] = {}
    BY <1>3 DEF Types, Baseline
  <2>3. QED BY <1>1, <1>2, <2>1, <2>2 DEF TrialOf
<1>4. CASE Fail(f)
  <2>1. /\ job'[f].pc = "append" /\ job'[f].judged = job[f].judged
        /\ job'[f].fixes = job[f].fixes
    BY <1>1, <1>4, FailIs
  <2>2. QED BY <1>1, <1>2, <2>1 DEF TrialOf
<1>5. QED BY <1>3, <1>4 DEF resetMergeTargetBranch

LEMMA TrialDispatch ==
  ASSUME Types, Spans, NEW f \in Faults, TrialOf(f), dispatchAlert(f)
  PROVE  TrialOf(f)'
<1>1. job[f].pc = "dispatch" /\ branch' = branch /\ "poll" \in Pcs \ {"idle"}
  BY DEF dispatchAlert, Pcs
<1>2. run[f].owner = "own" => run[f].state = "none"
  BY <1>1 DEF TrialOf
<1>3. Goto(f, "poll") \/ Fail(f)
  BY DEF dispatchAlert
<1>4. /\ job'[f].pc \in {"poll", "append"} /\ job'[f].judged = job[f].judged
      /\ job'[f].fixes = job[f].fixes
  BY <1>1, <1>3, GotoIs, FailIs
<1>5. run'[f] = run[f] \/ run'[f] = Started
  BY DEF dispatchAlert, Types, Started
<1>6. QED BY <1>1, <1>2, <1>4, <1>5, StartedIs DEF TrialOf

LEMMA TrialPoll ==
  ASSUME Types, Spans, NEW f \in Faults, TrialOf(f), pollUntilOutcome(f)
  PROVE  TrialOf(f)'
<1>1. job[f].pc = "poll" /\ branch' = branch /\ run' = run /\ job[f] \in Jobs
  BY DEF pollUntilOutcome, gateway, Types
<1>2. /\ job'[f].pc \in {"poll", "judge", "append"} /\ job'[f].judged = job[f].judged
      /\ job'[f].fixes = job[f].fixes
      /\ job'[f].pc = "judge" => Visible(f) /\ run[f].merged
  <2>1. CASE Moves(f, [job[f] EXCEPT !.pc = "judge"]) /\ Visible(f) /\ run[f].merged
    <3>1. job'[f] = [job[f] EXCEPT !.pc = "judge"]
      BY <2>1, MovesAre
    <3>2. QED BY <1>1, <2>1, <3>1 DEF Jobs
  <2>2. CASE Moves(f, [job[f] EXCEPT !.pc = "append"])
    <3>1. job'[f] = [job[f] EXCEPT !.pc = "append"]
      BY <2>2, MovesAre
    <3>2. QED BY <1>1, <3>1 DEF Jobs
  <2>3. CASE Moves(f, [job[f] EXCEPT !.pc = "append", !.error = TRUE])
    <3>1. job'[f] = [job[f] EXCEPT !.pc = "append", !.error = TRUE]
      BY <2>3, MovesAre
    <3>2. QED BY <1>1, <3>1 DEF Jobs
  <2>4. CASE \E n \in Nat : Moves(f, [job[f] EXCEPT !.polls = n])
    <3>1. PICK n \in Nat : Moves(f, [job[f] EXCEPT !.polls = n])
      BY <2>4
    <3>2. job'[f] = [job[f] EXCEPT !.polls = n]
      BY <3>1, MovesAre
    <3>3. QED BY <1>1, <3>2 DEF Jobs
  <2>5. QED BY <2>1, <2>2, <2>3, <2>4, PollMoves
<1>3. QED BY <1>1, <1>2 DEF TrialOf, Visible

LEMMA TrialJudge ==
  ASSUME Types, Spans, NEW f \in Faults, TrialOf(f), Judge(f)
  PROVE  TrialOf(f)'
<1>1. job[f].pc = "judge" /\ branch' = branch /\ run' = run /\ job[f] \in Jobs
  BY DEF Judge, gateway, Types
<1>2. CASE Moves(f, [job[f] EXCEPT !.pc = "append", !.judged = TRUE, !.fixes = branch[f]])
  <2>1. job'[f] = [job[f] EXCEPT !.pc = "append", !.judged = TRUE, !.fixes = branch[f]]
    BY <1>2, MovesAre
  <2>2. job'[f].pc = "append" /\ job'[f].fixes = branch[f]
    BY <1>1, <2>1 DEF Jobs
  <2>3. QED BY <1>1, <2>2 DEF TrialOf
<1>3. CASE Moves(f, [job[f] EXCEPT !.pc = "append", !.error = TRUE])
  <2>1. job'[f] = [job[f] EXCEPT !.pc = "append", !.error = TRUE]
    BY <1>3, MovesAre
  <2>2. /\ job'[f].pc = "append" /\ job'[f].judged = job[f].judged
        /\ job'[f].fixes = job[f].fixes
    BY <1>1, <2>1 DEF Jobs
  <2>3. QED BY <1>1, <2>2 DEF TrialOf
<1>4. QED BY <1>2, <1>3, JudgeMoves

LEMMA TrialAppend ==
  ASSUME Types, Spans, NEW f \in Faults, TrialOf(f), AppendRecord(f)
  PROVE  TrialOf(f)'
<1>1. job'[f] = NextTrial(job[f])
  BY AppendMoves, MovesAre
<1>2. job'[f].pc \in {"idle", "reset"} /\ ~job'[f].judged
  BY <1>1, AppendMoves
<1>3. run'[f] = PastRun(f)
  BY DEF AppendRecord, Types
<1>4. QED BY <1>2, <1>3, PastIs DEF TrialOf

LEMMA TrialJobStep ==
  ASSUME Types, Spans, TrialInv, NEW f \in Faults, JobStep(f)
  PROVE  TrialInv'
<1>1. TrialOf(f)'
  BY TrialReset, TrialDispatch, TrialPoll, TrialJudge, TrialAppend DEF JobStep, TrialInv
<1>2. ASSUME NEW g \in Faults, g # f PROVE TrialOf(g)'
  <2>1. job'[g] = job[g] /\ run'[g] = run[g] /\ branch'[g] = branch[g]
    BY <1>2, TypesJobStep DEF Apart
  <2>2. QED BY <2>1 DEF TrialInv, TrialOf
<1>3. QED BY <1>1, <1>2 DEF TrialInv

LEMMA TrialsHold == Spec => []TrialInv
<1>1. Init => TrialInv
  BY DEF Init, TrialInv, TrialOf, NoRun, JobIdle
<1>2. ASSUME Types, Spans, TrialInv, [Next]_vars PROVE TrialInv'
  <2>1. CASE UNCHANGED vars
    BY <1>2, <2>1 DEF vars, harness, gateway, TrialInv, TrialOf
  <2>2. CASE Next
    BY <1>2, <2>2, TrialBegin, TrialStop, TrialJobStep, TrialRun DEF Next
  <2>3. QED BY <1>2, <2>1, <2>2
<1>3. QED BY <1>1, <1>2, TypesHold, PTL DEF Spec

\* The commit a trial is judged by holds its own fix, and nobody else's but
\* that of a run the harness gave up on (runTrial, resetMergeTargetBranch).
THEOREM JudgedByOwnFix == Spec => []JudgedOwnFix
<1>1. TrialInv => JudgedOwnFix
  BY DEF TrialInv, TrialOf, JudgedOwnFix
<1>2. QED BY <1>1, TrialsHold, PTL

\* No trial waits for a run that never started because an earlier trial's
\* run, whose outcome was seen, still held the fault's lock, unless the report
\* of that run left the lock to its TTL (a failed delete, or no lock named).
THEOREM NoTrialHalted == Spec => []NoHaltedTrial
<1>1. TrialInv => NoHaltedTrial
  BY DEF TrialInv, TrialOf, NoHaltedTrial
<1>2. QED BY <1>1, TrialsHold, PTL
-----------------------------------------------------------------------------
(* The results file.                                                       *)

Prefix(s, t) == Len(s) <= Len(t) /\ \A i \in 1..Len(s) : s[i] = t[i]

\* A command's records are those of the file and then its own: a save never
\* writes less than it found.
MemInv == cmd # "none" => Prefix(file, mem)

LEMMA PrefixIs ==
  ASSUME NEW s \in Seq(Records), NEW t \in Seq(Records), Prefix(s, t)
  PROVE  IsPrefix(s, t)
<1> DEFINE n == Len(s)
           u == SubSeq(s, 1, n)
           v == SubSeq(t, 1, n)
<1>1. /\ n \in Nat /\ Len(t) \in Nat /\ n <= Len(t) /\ 1 \in Int /\ n \in Int
      /\ \A i \in 1..n : s[i] \in Records /\ t[i] \in Records /\ s[i] = t[i]
  BY ElementOfSeq DEF Prefix
<1>2. u \in Seq(Records) /\ Len(u) = n /\ \A i \in 1..n : u[i] = s[i]
  <2>1. /\ u \in Seq(Records) /\ Len(u) = IF 1 <= n THEN n - 1 + 1 ELSE 0
        /\ \A i \in 1..(n - 1 + 1) : u[i] = s[1 + i - 1]
    BY <1>1, SubSeqProperties
  <2> HIDE DEF u
  <2>2. QED BY <1>1, <2>1
<1>3. v \in Seq(Records) /\ Len(v) = n /\ \A i \in 1..n : v[i] = t[i]
  <2>1. /\ v \in Seq(Records) /\ Len(v) = IF 1 <= n THEN n - 1 + 1 ELSE 0
        /\ \A i \in 1..(n - 1 + 1) : v[i] = t[1 + i - 1]
    BY <1>1, SubSeqProperties
  <2> HIDE DEF v
  <2>2. QED BY <1>1, <2>1
<1>4. u = v
  <2> HIDE DEF u, v
  <2>1. QED BY <1>1, <1>2, <1>3, SeqEqual
<1>5. QED BY <1>1, <1>4 DEF IsPrefix

\* A record more is a longer file.
LEMMA PrefixAppend ==
  ASSUME NEW s \in Seq(Records), NEW t \in Seq(Records), NEW r \in Records, Prefix(s, t)
  PROVE  Prefix(s, Append(t, r)) /\ Prefix(Append(t, r), Append(t, r))
<1>1. /\ Len(s) \in Nat /\ Len(t) \in Nat /\ Len(Append(t, r)) = Len(t) + 1
      /\ \A i \in 1..Len(t) : Append(t, r)[i] = t[i]
  BY AppendProperties
<1>2. QED BY <1>1 DEF Prefix

LEMMA FileJobStep ==
  ASSUME Types, Spans, MemInv, NEW f \in Faults, JobStep(f)
  PROVE  MemInv' /\ Prefix(file, file')
<1>1. cmd # "none" /\ Prefix(file, mem) /\ Prefix(file, file)
  BY StepKeeps DEF MemInv, Types, Prefix
<1>2. CASE AppendRecord(f)
  <2>1. TrialRecord(f) \in Records /\ mem' = Append(mem, TrialRecord(f))
        /\ (file' = mem' \/ file' = file)
    BY <1>2, AppendMoves DEF AppendRecord
  <2>2. Prefix(file, mem') /\ Prefix(mem', mem')
    BY <1>1, <2>1, PrefixAppend DEF Types
  <2>3. QED BY <1>1, <2>1, <2>2 DEF MemInv
<1>3. CASE ~AppendRecord(f)
  BY <1>1, <1>3, StepKeeps DEF MemInv
<1>4. QED BY <1>2, <1>3

LEMMA FileStep ==
  ASSUME Types, Spans, MemInv, [Next]_vars
  PROVE  MemInv' /\ Prefix(file, file')
<1>1. Prefix(file, file)
  BY DEF Types, Prefix
<1>2. CASE Stage1 \/ Stage2 \/ Trial
  <2>1. mem' = file /\ file' = file
    BY <1>2 DEF Stage1, Stage2, Trial, Begin, Opened
  <2>2. QED BY <1>1, <2>1 DEF MemInv
<1>3. CASE Finish \/ Crash
  <2>1. cmd' = "none" /\ file' = file
    BY <1>3 DEF Finish, Crash
  <2>2. QED BY <1>1, <2>1 DEF MemInv
<1>4. ASSUME NEW f \in Faults, JobStep(f) PROVE MemInv' /\ Prefix(file, file')
  BY <1>4, FileJobStep
<1>5. ASSUME NEW f \in Faults, RunStep(f)
      PROVE  MemInv' /\ Prefix(file, file')
  <2>1. UNCHANGED <<cmd, mem, file>>
    BY <1>5 DEF RunStep, EndRun, Report, LockExpires, RunDies, harness
  <2>2. QED BY <1>1, <2>1 DEF MemInv
<1>6. CASE UNCHANGED vars
  BY <1>1, <1>6 DEF vars, harness, MemInv
<1>7. QED BY <1>2, <1>3, <1>4, <1>5, <1>6 DEF Next

\* Records are never lost or changed, whatever command runs next and
\* whatever save fails (openStore, Append, save).
THEOREM RecordsAreKept == Spec => FileOnlyGrows
<1>1. Init => MemInv
  BY DEF Init, MemInv
<1>2. Types /\ Spans /\ MemInv /\ [Next]_vars => MemInv'
  BY FileStep
<1>3. Types /\ Spans /\ Types' /\ MemInv /\ [Next]_vars => [IsPrefix(file, file')]_vars
  <2> SUFFICES ASSUME Types, Spans, Types', MemInv, [Next]_vars PROVE IsPrefix(file, file')
    OBVIOUS
  <2>1. Prefix(file, file')
    BY FileStep
  <2>2. QED BY <2>1, PrefixIs DEF Types
<1>4. QED BY <1>1, <1>2, <1>3, TypesHold, PTL DEF Spec, FileOnlyGrows
-----------------------------------------------------------------------------
(* The gate of stage 1.                                                    *)

\* What stage 1 has on record of the faults it is done with; and that no
\* command run while its verdict stands runs a trial 1 again.
VerdictInv ==
  /\ cmd = "stage1" =>
       /\ verdict = "none"
       /\ \A f \in Faults :
            IF job[f].pc # "idle" THEN job[f].num = 1 /\ job[f].last = 1
            ELSE job[f].error \/ (Recorded(mem, f, 1) /\ ~Failed(mem, f))
  /\ cmd = "stage2" \/ (cmd # "none" /\ verdict # "none") =>
       \A f \in Faults : job[f].pc # "idle" => job[f].num >= 2
  /\ cmd = "stage2" => stage1Gate(mem)
  /\ verdict = "passed" /\ ~unsaved =>
       stage1Gate(file) /\ (cmd # "none" => stage1Gate(mem))

\* Only a record of trial 1 of a fault changes what the gate reads of it.
LEMMA AppendGate ==
  ASSUME NEW recs \in Seq(Records), NEW r \in Records, NEW f
  PROVE  /\ IsOf(r, f, 1) =>
              Recorded(Append(recs, r), f, 1) /\ (Failed(Append(recs, r), f) <=> r.error)
         /\ ~IsOf(r, f, 1) =>
              /\ Recorded(Append(recs, r), f, 1) <=> Recorded(recs, f, 1)
              /\ Failed(Append(recs, r), f) <=> Failed(recs, f)
<1> DEFINE s == Append(recs, r)
           n == Len(recs)
<1>1. /\ n \in Nat /\ Len(s) = n + 1 /\ s[n + 1] = r
      /\ \A i \in 1..n : s[i] = recs[i]
  BY AppendProperties
<1> HIDE DEF s, n
<1>2. ASSUME IsOf(r, f, 1) PROVE Recorded(s, f, 1) /\ (Failed(s, f) <=> r.error)
  <2>1. n + 1 \in 1..Len(s) /\ IsOf(s[n + 1], f, 1)
    BY <1>1, <1>2
  <2>2. \A i \in 1..Len(s) : i # n + 1 => n + 1 \in (i + 1)..Len(s)
    BY <1>1
  <2>3. Latest(s, f, 1) = {n + 1}
    BY <1>1, <2>1, <2>2 DEF Latest
  <2>4. QED BY <1>1, <2>1, <2>3 DEF Recorded, Failed
<1>3. ASSUME ~IsOf(r, f, 1)
      PROVE  /\ Recorded(s, f, 1) <=> Recorded(recs, f, 1)
             /\ Failed(s, f) <=> Failed(recs, f)
  <2>1. \A i \in 1..Len(s) : IF i \in 1..n THEN s[i] = recs[i] ELSE ~IsOf(s[i], f, 1)
    BY <1>1, <1>3
  <2>2. 1..n \subseteq 1..Len(s)
    BY <1>1
  <2>3. Recorded(s, f, 1) <=> Recorded(recs, f, 1)
    BY <2>1, <2>2 DEF Recorded, n
  <2>4. Latest(s, f, 1) = Latest(recs, f, 1)
    <3>1. \A i \in 1..n : \A j \in (i + 1)..Len(s) :
            IF j \in (i + 1)..n THEN s[j] = recs[j] ELSE ~IsOf(s[j], f, 1)
      BY <1>1, <1>3
    <3>2. \A i \in 1..n : (i + 1)..n \subseteq (i + 1)..Len(s)
      BY <1>1
    <3>3. QED BY <2>1, <2>2, <3>1, <3>2 DEF Latest, n
  <2>5. \A i \in Latest(recs, f, 1) : s[i] = recs[i]
    BY <1>1 DEF Latest, n
  <2>6. QED BY <2>3, <2>4, <2>5 DEF Failed
<1>4. QED BY <1>2, <1>3 DEF s

\* A record that is not of a trial 1 leaves the gate as it is.
LEMMA GateKept ==
  ASSUME NEW recs \in Seq(Records), NEW r \in Records, r.num # 1, stage1Gate(recs)
  PROVE  stage1Gate(Append(recs, r))
<1>1. \A f \in Faults : ~IsOf(r, f, 1)
  BY DEF IsOf
<1>2. QED BY <1>1, AppendGate DEF stage1Gate, Missing

LEMMA VerdictBegin ==
  ASSUME Types, Spans, VerdictInv, Stage1 \/ Stage2 \/ Trial
  PROVE  VerdictInv'
<1>1. PICK c \in {"stage1", "stage2", "trial"}, fs \in SUBSET Faults,
           first \in Nums, last \in Nums :
        /\ first <= last /\ Begin(c, fs, first, last)
        /\ c = "stage1" => fs = Faults /\ first = 1 /\ last = 1
        /\ c = "stage2" => first = 2 /\ stage1Gate(file)
  <2>1. CASE Stage1
    BY <2>1, Consts DEF Stage1
  <2>2. CASE Stage2
    <3>1. 2 <= TrialsPerFault
      BY HarnessAssumption
    <3>2. QED BY <2>2, <3>1, Consts DEF Stage2, Opened
  <2>3. CASE Trial
    <3>1. PICK f \in Faults, n \in Retried : Begin("trial", {f}, n, n)
      BY <2>3 DEF Trial
    <3>2. n \in Nums /\ n <= n /\ {f} \in SUBSET Faults
      BY Consts DEF Nums
    <3>3. QED BY <3>1, <3>2
  <2>4. QED BY <2>1, <2>2, <2>3
<1>2. /\ cmd' = c /\ mem' = file /\ file' = file /\ unsaved' = unsaved
      /\ verdict' = IF first = 1 THEN "none" ELSE verdict
  BY <1>1 DEF Begin, Opened
<1>3. /\ job' \in [Faults -> Jobs] /\ \A f \in Faults : Span(job'[f])
      /\ \A f \in Faults : ~job'[f].judged /\ job'[f].pc \in {"idle", "reset"}
      /\ \A f \in Faults : job'[f].pc # "idle" => f \in fs /\ job'[f].num = first
      /\ \A f \in fs : job'[f].pc = "reset"
  <2>1. /\ first \in Nums /\ last \in Nums /\ fs \in SUBSET Faults
        /\ first <= last /\ Begin(c, fs, first, last)
    BY <1>1
  <2>2. QED BY <2>1, Begun, Zenon
<1>4. \A f \in fs : c = "stage1" => job'[f].last = 1
  <2>1. ASSUME NEW f \in fs, c = "stage1" PROVE job'[f].last = 1
    <3>1. job'[f] = [JobIdle EXCEPT !.pc = "reset", !.num = first, !.last = last]
      BY <1>1 DEF Begin
    <3>2. QED BY <1>1, <2>1, <3>1 DEF JobIdle
  <2>2. QED BY <2>1
<1>5. first >= 1 /\ (first # 1 => first >= 2)
  BY Consts DEF Nums
<1>6. cmd' = "stage1" =>
        /\ verdict' = "none"
        /\ \A f \in Faults : job'[f].pc # "idle" /\ job'[f].num = 1 /\ job'[f].last = 1
  BY <1>1, <1>2, <1>3, <1>4
<1>7. cmd' = "stage2" \/ (cmd' # "none" /\ verdict' # "none") =>
        \A f \in Faults : job'[f].pc # "idle" => job'[f].num >= 2
  BY <1>1, <1>2, <1>3, <1>5
<1>8. verdict' = "passed" /\ ~unsaved' => stage1Gate(file)
  BY <1>2 DEF VerdictInv
<1>9. QED BY <1>1, <1>2, <1>6, <1>7, <1>8 DEF VerdictInv

LEMMA VerdictStop ==
  ASSUME Types, Spans, VerdictInv, Finish \/ Crash
  PROVE  VerdictInv'
<1>1. cmd' = "none" /\ file' = file
  BY DEF Finish, Crash
<1>2. verdict' = "passed" /\ ~unsaved' => stage1Gate(file)
  <2>1. CASE cmd = "stage1" /\ Finish
    <3>1. ASSUME verdict' = "passed", ~unsaved' PROVE stage1Gate(mem) /\ file = mem
      <4>1. file = mem /\ \A f \in Faults : ~job[f].error /\ job[f].pc = "idle"
        BY <2>1, <3>1 DEF Finish
      <4>2. QED BY <2>1, <4>1 DEF VerdictInv, stage1Gate, Missing
    <3>2. QED BY <3>1
  <2>2. CASE ~(cmd = "stage1" /\ Finish)
    <3>1. verdict' = verdict /\ unsaved' = unsaved
      BY <2>2 DEF Finish, Crash
    <3>2. QED BY <3>1 DEF VerdictInv
  <2>3. QED BY <2>1, <2>2
<1>3. QED BY <1>1, <1>2 DEF VerdictInv

\* A step within a trial appends nothing.
LEMMA VerdictWithin ==
  ASSUME Types, Spans, VerdictInv, NEW f \in Faults, JobStep(f), ~AppendRecord(f)
  PROVE  VerdictInv'
<1>1. UNCHANGED <<cmd, verdict, unsaved, mem, file>>
  BY StepKeeps
<1>2. PICK j : Within(f, j)
  BY StepWithin
<1>3. /\ job'[f].pc # "idle" /\ job[f].pc # "idle"
      /\ job'[f].num = job[f].num /\ job'[f].last = job[f].last
      /\ \A g \in Faults : g # f => job'[g] = job[g]
  BY <1>2, MovesAre DEF Within
<1>4. QED BY <1>1, <1>3 DEF VerdictInv

\* Where the end of a trial leaves its goroutine.
LEMMA NextTrialIs ==
  ASSUME Types, Spans, NEW f \in Faults, AppendRecord(f)
  PROVE  /\ job'[f] = NextTrial(job[f])
         /\ job[f].num = job[f].last => job'[f].pc = "idle" /\ job'[f].error = job[f].error
         /\ job[f].num # job[f].last => job'[f].pc = "reset" /\ job'[f].num = job[f].num + 1
         /\ TrialRecord(f) \in Records /\ job[f].num \in Nat /\ job[f].pc # "idle"
         /\ \A g \in Faults : g # f => job'[g] = job[g]
<1>1. /\ job'[f] = NextTrial(job[f]) /\ TrialRecord(f) \in Records
      /\ \A g \in Faults : g # f => job'[g] = job[g]
  BY AppendMoves, MovesAre
<1>2. job[f].num \in Nat /\ job[f].pc # "idle"
  BY DEF Types, Jobs, AppendRecord
<1>3. job[f].num = job[f].last => job'[f].pc = "idle" /\ job'[f].error = job[f].error
  BY <1>1 DEF NextTrial, JobIdle
<1>4. job[f].num # job[f].last => job'[f].pc = "reset" /\ job'[f].num = job[f].num + 1
  BY <1>1 DEF NextTrial, JobIdle
<1>5. QED BY <1>1, <1>2, <1>3, <1>4

LEMMA VerdictAppend ==
  ASSUME Types, Spans, VerdictInv, NEW f \in Faults, AppendRecord(f)
  PROVE  VerdictInv'
<1> DEFINE r == TrialRecord(f)
<1>1. /\ UNCHANGED <<cmd, verdict, unsaved>> /\ cmd # "none"
      /\ mem' = Append(mem, r) /\ (file' = mem' \/ file' = file)
  BY StepKeeps DEF AppendRecord, JobStep
<1>2. r.fault = f /\ r.num = job[f].num /\ r.error = job[f].error
  BY DEF TrialRecord
<1>3. /\ r \in Records /\ mem \in Seq(Records) /\ job[f].num \in Nat /\ job[f].pc # "idle"
      /\ \A g \in Faults : g # f => job'[g] = job[g]
      /\ job[f].num = job[f].last => job'[f].pc = "idle" /\ job'[f].error = job[f].error
      /\ job[f].num # job[f].last => job'[f].pc = "reset" /\ job'[f].num = job[f].num + 1
  <2>1. mem \in Seq(Records)
    BY DEF Types
  <2> HIDE DEF r
  <2>2. r \in Records
    BY NextTrialIs DEF r
  <2>3. QED BY <2>1, <2>2, NextTrialIs
<1> HIDE DEF r
<1>4. ASSUME cmd = "stage1"
      PROVE  /\ verdict' = "none"
             /\ \A g \in Faults :
                  IF job'[g].pc # "idle" THEN job'[g].num = 1 /\ job'[g].last = 1
                  ELSE job'[g].error \/ (Recorded(mem', g, 1) /\ ~Failed(mem', g))
  <2>1. verdict' = "none"
    BY <1>1, <1>4 DEF VerdictInv
  <2>2. job[f].num = 1 /\ job[f].last = 1
    BY <1>3, <1>4 DEF VerdictInv
  <2>3. job'[f].pc = "idle" /\ (job'[f].error \/ (Recorded(mem', f, 1) /\ ~Failed(mem', f)))
    <3>1. IsOf(r, f, 1)
      BY <1>2, <2>2 DEF IsOf
    <3>2. Recorded(mem', f, 1) /\ (Failed(mem', f) <=> r.error)
      BY <1>1, <1>3, <3>1, AppendGate
    <3>3. QED BY <1>2, <1>3, <2>2, <3>2
  <2>4. ASSUME NEW g \in Faults, g # f
        PROVE  IF job'[g].pc # "idle" THEN job'[g].num = 1 /\ job'[g].last = 1
               ELSE job'[g].error \/ (Recorded(mem', g, 1) /\ ~Failed(mem', g))
    <3>1. ~IsOf(r, g, 1)
      BY <1>2, <2>4 DEF IsOf
    <3>2. /\ Recorded(mem', g, 1) <=> Recorded(mem, g, 1)
          /\ Failed(mem', g) <=> Failed(mem, g)
      BY <1>1, <1>3, <3>1, AppendGate
    <3>3. job'[g] = job[g]
      BY <1>3, <2>4
    <3>4. QED BY <1>4, <3>2, <3>3 DEF VerdictInv
  <2>5. QED BY <2>1, <2>3, <2>4
<1>5. ASSUME cmd = "stage2" \/ verdict # "none"
      PROVE  \A g \in Faults : job'[g].pc # "idle" => job'[g].num >= 2
  <2>1. \A g \in Faults : job[g].pc # "idle" => job[g].num >= 2
    BY <1>1, <1>5 DEF VerdictInv
  <2>2. QED BY <1>3, <2>1
<1>6. ASSUME cmd = "stage2" \/ verdict # "none", stage1Gate(mem) PROVE stage1Gate(mem')
  <2>1. job[f].num >= 2
    BY <1>1, <1>3, <1>6 DEF VerdictInv
  <2>2. r.num # 1
    BY <1>2, <1>3, <2>1
  <2>3. QED BY <1>1, <1>3, <1>6, <2>2, GateKept
<1>7. ASSUME cmd = "stage2" PROVE stage1Gate(mem')
  BY <1>6, <1>7 DEF VerdictInv
<1>8. ASSUME verdict = "passed", ~unsaved PROVE stage1Gate(mem') /\ stage1Gate(file')
  BY <1>1, <1>6, <1>8 DEF VerdictInv
<1>9. QED BY <1>1, <1>4, <1>5, <1>7, <1>8 DEF VerdictInv

LEMMA VerdictStep ==
  ASSUME Types, Spans, VerdictInv, [Next]_vars
  PROVE  VerdictInv'
<1>1. ASSUME NEW f \in Faults, JobStep(f) PROVE VerdictInv'
  BY <1>1, VerdictAppend, VerdictWithin
<1>2. ASSUME NEW f \in Faults, RunStep(f) PROVE VerdictInv'
  <2>1. UNCHANGED <<cmd, job, mem, file, verdict, unsaved>>
    BY <1>2 DEF RunStep, EndRun, Report, LockExpires, RunDies, harness
  <2>2. QED BY <2>1 DEF VerdictInv
<1>3. CASE UNCHANGED vars
  BY <1>3 DEF vars, harness, VerdictInv
<1>4. QED BY <1>1, <1>2, <1>3, VerdictBegin, VerdictStop DEF Next

LEMMA VerdictsHold == Spec => []VerdictInv
<1>1. Init => VerdictInv
  BY DEF Init, VerdictInv
<1>2. Types /\ Spans /\ VerdictInv /\ [Next]_vars => VerdictInv'
  BY VerdictStep
<1>3. QED BY <1>1, <1>2, TypesHold, PTL DEF Spec

\* While stage 2 runs, the report shows a clean trial 1 of every fault
\* (stage1Gate, dedupeLatestPerTrial).
THEOREM Stage2IsClean == Spec => []Stage2OnCleanReport
<1>1. VerdictInv => Stage2OnCleanReport
  BY DEF VerdictInv, stage1Gate, Missing, Stage2OnCleanReport
<1>2. QED BY <1>1, VerdictsHold, PTL

\* A stage 1 that printed PASSED and was saved admits stage 2, although that
\* is decided later, by another process, from the file (runStage1, runStage2).
THEOREM VerdictKept == Spec => []VerdictStands
<1>1. VerdictInv => VerdictStands
  BY DEF VerdictInv, VerdictStands
<1>2. QED BY <1>1, VerdictsHold, PTL
=============================================================================
