------------------------------- MODULE Harness -------------------------------
(***************************************************************************)
(* The benchmark harness: operator commands (stage1, stage2, trial) that   *)
(* run trials of faults through a gateway.  A trial resets its fault's     *)
(* branch, posts an alert, polls for the outcome, judges the merged commit *)
(* and appends a record to the results file.  Faults run in parallel, the  *)
(* trials of one fault one after the other; one command runs at a time.    *)
(*                                                                         *)
(* The gateway and the repair runs are abstract: one flap lock per fault,  *)
(* so one repair run at a time, and a report that frees the lock, if it    *)
(* frees it at all, before it makes the outcome visible (as Pipeline does, *)
(* see OutcomeAfterRelease there).  Runs, and the fixes they merge, are    *)
(* told apart by whose they are: the current trial's own, one the harness  *)
(* gave up on (left), or one of an earlier trial that saw its outcome.     *)
(***************************************************************************)
EXTENDS Naturals, Sequences, FiniteSets, SequencesExt

CONSTANTS
  Faults,          \* fault_ids of the fixtures
  TrialsPerFault,  \* 3: one in stage 1, the others in stage 2
  MaxPolls,        \* REVI_HARNESS_MAX_POLLS
  Retried,         \* bound: trial numbers the operator repeats by hand
  MaxTrials,       \* bound: records of trials before the last stage 2
  MaxMishaps       \* bound: failing calls, crashes, dying runs and kept locks

ASSUME HarnessAssumption ==
  /\ IsFiniteSet(Faults) /\ Faults # {}
  /\ TrialsPerFault \in Nat \ {0, 1} /\ MaxPolls \in Nat \ {0}
  /\ Retried \subseteq 1..TrialsPerFault
  /\ MaxTrials \in Nat /\ MaxMishaps \in Nat

Owners == {"own", "left", "earlier"}

VARIABLES
  cmd,       \* the command the harness process runs, or "none"
  job,       \* each fault's goroutine: where its runTrial is
  mem,       \* Store.recs of the process
  file,      \* the experiment's results file
  branch,    \* benchmark/<fault_id>: whose fixes it holds over base_ref
  run,       \* the fault's repair run and the steps its report has to do
  verdict,   \* what stage1 last printed of its gate, until trial 1 is run again
  unsaved,   \* history: that stage1 could not save all its records
  mishaps    \* mishaps so far

harness == <<cmd, job, mem, file, verdict, unsaved>>
gateway == <<branch, run>>
vars == <<harness, gateway, mishaps>>

JobIdle == [pc |-> "idle", num |-> 0, last |-> 0, polls |-> 0,
            fixes |-> {}, judged |-> FALSE, error |-> FALSE]
NoRun == [owner |-> "own", state |-> "none", merged |-> FALSE, todo |-> <<>>,
          kept |-> FALSE]

Mishap == mishaps < MaxMishaps /\ mishaps' = mishaps + 1
Fine == UNCHANGED mishaps

\* The flap lock of a run: held until its report releases it, or until the
\* TTL when the report has left it (kept).
Holds(r) == r.state = "running" \/ Contains(r.todo, "release") \/ r.kept

\* What the endpoint answers to the current trial: an outcome, or nothing.
Visible(f) ==
  run[f].owner = "own" /\ run[f].state = "ended" /\ ~Contains(run[f].todo, "outcome")

\* When a trial is over, its run and its fix are nobody's own; a run that
\* no longer holds the lock is of no interest to any later trial.
PastOwner(f) == IF Visible(f) THEN "earlier" ELSE "left"
PastRun(f) ==
  IF ~Holds(run[f]) THEN NoRun
  ELSE IF run[f].owner = "own" THEN [run[f] EXCEPT !.owner = PastOwner(f), !.merged = FALSE]
  ELSE run[f]
PastBranch(f) == {IF o = "own" THEN PastOwner(f) ELSE o : o \in branch[f]}
-----------------------------------------------------------------------------
(* The results file.                                                       *)

\* Mutant: an existing file is not read.
Opened_Empty(recs) == SubSeq(recs, 1, 0)

\* openStore reads what earlier commands recorded.
Opened(recs) == recs

IsOf(r, f, n) == r.fault = f /\ r.num = n
Recorded(recs, f, n) == \E i \in 1..Len(recs) : IsOf(recs[i], f, n)

\* Mutant: the first record of a trial counts.
Latest_First(recs, f, n) ==
  {i \in 1..Len(recs) : IsOf(recs[i], f, n) /\ \A j \in 1..(i - 1) : ~IsOf(recs[j], f, n)}

\* stage1Gate's map and dedupeLatestPerTrial: the last write wins.  The place
\* of that record, if there is one.
Latest(recs, f, n) ==
  {i \in 1..Len(recs) : IsOf(recs[i], f, n) /\ \A j \in (i + 1)..Len(recs) : ~IsOf(recs[j], f, n)}

\* Mutant: a fault without a record is no obstacle.
Missing_Ignored(recs, f) == Len(recs) < 0 /\ f \in Faults

Missing(recs, f) == ~Recorded(recs, f, 1)

Failed(recs, f) == \E i \in Latest(recs, f, 1) : recs[i].error

stage1Gate(recs) == \A f \in Faults : ~Missing(recs, f) /\ ~Failed(recs, f)
-----------------------------------------------------------------------------
(* Commands.                                                               *)

Begin(c, fs, first, last) ==
  /\ cmd = "none"
  /\ cmd' = c
  /\ mem' = Opened(file)
  /\ job' = [f \in Faults |->
               IF f \in fs
               THEN [JobIdle EXCEPT !.pc = "reset", !.num = first, !.last = last]
               ELSE JobIdle]
  /\ verdict' = IF first = 1 THEN "none" ELSE verdict
  /\ UNCHANGED <<file, unsaved, gateway, mishaps>>

RoomFor(n) == Len(file) + n <= MaxTrials

Stage1 == RoomFor(Cardinality(Faults)) /\ Begin("stage1", Faults, 1, 1)

\* Refused, without any effect, unless the gate holds of the file's records.
Stage2 ==
  /\ RoomFor(0)
  /\ stage1Gate(Opened(file))
  /\ Begin("stage2", Faults, 2, TrialsPerFault)

\* A retry in an experiment that has a file; without one, trial starts an
\* experiment of its own.
Trial ==
  /\ file # <<>> /\ RoomFor(1)
  /\ \E f \in Faults, n \in Retried : Begin("trial", {f}, n, n)

\* stage1 judges the records its own goroutines returned.
Finish ==
  /\ cmd # "none"
  /\ \A f \in Faults : job[f].pc = "idle"
  /\ cmd' = "none" /\ mem' = <<>>
  /\ IF cmd = "stage1"
     THEN /\ verdict' = IF \A f \in Faults : ~job[f].error THEN "passed" ELSE "failed"
          /\ unsaved' = (file # mem)
     ELSE UNCHANGED <<verdict, unsaved>>
  /\ job' = [f \in Faults |-> JobIdle]
  /\ UNCHANGED <<file, gateway, mishaps>>
-----------------------------------------------------------------------------
(* runTrial.                                                               *)

Goto(f, pc) == job' = [job EXCEPT ![f].pc = pc]

\* HarnessError is set and the trial returns; its run may go on.
Fail(f) == job' = [job EXCEPT ![f].pc = "append", ![f].error = TRUE]

\* Mutant: the branch keeps what it has.
Baseline_Kept(f) == branch[f]

Baseline(f) == {fix \in branch[f] : FALSE}

\* A failed push may have taken effect.
resetMergeTargetBranch(f) ==
  /\ job[f].pc = "reset"
  /\ \/ /\ Fine /\ Goto(f, "dispatch")
        /\ branch' = [branch EXCEPT ![f] = Baseline(f)]
     \/ /\ Mishap /\ Fail(f)
        /\ branch' \in {branch, [branch EXCEPT ![f] = Baseline(f)]}
  /\ UNCHANGED <<cmd, mem, file, verdict, unsaved, run>>

\* 202 when the alert took the lock, 200 when it met one, and both count as
\* dispatched; a lost answer does not, whatever the gateway did.
dispatchAlert(f) ==
  /\ job[f].pc = "dispatch"
  /\ \/ /\ ~Holds(run[f])
        /\ run' = [run EXCEPT ![f] = [NoRun EXCEPT !.state = "running"]]
        /\ (Fine /\ Goto(f, "poll")) \/ (Mishap /\ Fail(f))
     \/ /\ Holds(run[f]) /\ Fine /\ Goto(f, "poll")
        /\ UNCHANGED run
     \/ Mishap /\ Fail(f) /\ UNCHANGED run
  /\ UNCHANGED <<cmd, mem, file, verdict, unsaved, branch>>

\* Mutant: the polls are not counted.
GiveUp_Never(n) == n > MaxPolls

GiveUp(n) == n = MaxPolls

\* 404 and a null outcome both mean: keep waiting.
pollUntilOutcome(f) ==
  LET n == job[f].polls + 1 IN
  /\ job[f].pc = "poll"
  /\ \/ Visible(f) /\ Fine /\ Goto(f, IF run[f].merged THEN "judge" ELSE "append")
     \/ /\ ~Visible(f) /\ ~GiveUp(n) /\ Fine
        /\ job' = [job EXCEPT ![f].polls = IF n < MaxPolls THEN n ELSE job[f].polls]
     \/ ~Visible(f) /\ GiveUp(n) /\ Fine /\ Fail(f)
     \/ Mishap /\ Fail(f)
  /\ UNCHANGED <<cmd, mem, file, verdict, unsaved, gateway>>

\* The tip of the branch is taken to be the merge commit of this trial; it
\* is checked out, and every ending of its verifier is a verdict.
Judge(f) ==
  /\ job[f].pc = "judge"
  /\ \/ /\ Fine
        /\ job' = [job EXCEPT ![f].pc = "append", ![f].judged = TRUE, ![f].fixes = branch[f]]
     \/ Mishap /\ Fail(f)
  /\ UNCHANGED <<cmd, mem, file, verdict, unsaved, gateway>>

TrialRecord(f) == [fault |-> f, num |-> job[f].num, error |-> job[f].error]

\* Mutant: the loop over the trial numbers runs once too often.
NextTrial_OneMore(j) ==
  IF j.num > j.last THEN [JobIdle EXCEPT !.error = j.error]
  ELSE [JobIdle EXCEPT !.pc = "reset", !.num = j.num + 1, !.last = j.last]

NextTrial(j) ==
  IF j.num = j.last THEN [JobIdle EXCEPT !.error = j.error]
  ELSE [JobIdle EXCEPT !.pc = "reset", !.num = j.num + 1, !.last = j.last]

\* The deferred Append: a failed save is only logged, the record stays in
\* memory and goes out with the next one.  Then the next trial, if any.
AppendRecord(f) ==
  /\ job[f].pc = "append"
  /\ mem' = Append(mem, TrialRecord(f))
  /\ \/ Fine /\ file' = mem'
     \/ Mishap /\ UNCHANGED file
  /\ job' = [job EXCEPT ![f] = NextTrial(job[f])]
  /\ run' = [run EXCEPT ![f] = PastRun(f)]
  /\ branch' = [branch EXCEPT ![f] = PastBranch(f)]
  /\ UNCHANGED <<cmd, verdict, unsaved>>

JobStep(f) ==
  \/ resetMergeTargetBranch(f) \/ dispatchAlert(f) \/ pollUntilOutcome(f)
  \/ Judge(f) \/ AppendRecord(f)

\* The process is killed; os.Rename leaves the old file or the new one.
Crash ==
  /\ cmd # "none" /\ Mishap
  /\ cmd' = "none" /\ mem' = <<>>
  /\ job' = [f \in Faults |-> JobIdle]
  /\ run' = [f \in Faults |-> PastRun(f)]
  /\ branch' = [f \in Faults |-> PastBranch(f)]
  /\ UNCHANGED <<file, verdict, unsaved>>
-----------------------------------------------------------------------------
(* The gateway and the repair runs (external).                             *)

\* Mutant: the outcome is visible before the lock is free.
ReportOrder_OutcomeFirst == <<"outcome", "release">>

ReportOrder == <<"release", "outcome">>

\* The run merges its fix into the fault's branch, or escalates.
EndRun(f) ==
  /\ run[f].state = "running"
  /\ \E merged \in BOOLEAN :
       /\ run' = [run EXCEPT ![f].state = "ended", ![f].merged = merged,
                             ![f].todo = ReportOrder]
       /\ branch' = [branch EXCEPT ![f] = IF merged THEN @ \union {run[f].owner} ELSE @]
  /\ UNCHANGED <<harness, mishaps>>

RunBecomes(f, r) ==
  run' = [run EXCEPT ![f] = IF r.owner = "own" \/ Holds(r) THEN r ELSE NoRun]

\* The next step of the report.  A release that fails is only logged, and a
\* report that does not name the lock's service and error makes none: the
\* outcome becomes visible all the same.
Report(f) ==
  /\ run[f].todo # <<>>
  /\ \/ Fine /\ RunBecomes(f, [run[f] EXCEPT !.todo = Tail(@)])
     \/ /\ Head(run[f].todo) = "release" /\ Mishap
        /\ RunBecomes(f, [run[f] EXCEPT !.todo = Tail(@), !.kept = TRUE])
  /\ UNCHANGED <<harness, branch>>

\* The TTL ends a lock that a report has left.
LockExpires(f) ==
  /\ run[f].kept
  /\ RunBecomes(f, [run[f] EXCEPT !.kept = FALSE])
  /\ UNCHANGED <<harness, branch, mishaps>>

\* A run that dies never reports; only the TTL frees its lock.
RunDies(f) ==
  /\ run[f].state = "running" /\ Mishap
  /\ run' = [run EXCEPT ![f] = NoRun]
  /\ UNCHANGED <<harness, branch>>

RunStep(f) == EndRun(f) \/ Report(f) \/ LockExpires(f) \/ RunDies(f)
-----------------------------------------------------------------------------
Init ==
  /\ cmd = "none" /\ job = [f \in Faults |-> JobIdle]
  /\ mem = <<>> /\ file = <<>>
  /\ branch = [f \in Faults |-> {}]
  /\ run = [f \in Faults |-> NoRun]
  /\ verdict = "none" /\ unsaved = FALSE
  /\ mishaps = 0

Next ==
  \/ Stage1 \/ Stage2 \/ Trial \/ Finish \/ Crash
  \/ \E f \in Faults : JobStep(f) \/ RunStep(f)

Spec == Init /\ [][Next]_vars

\* The goroutines of a command run on; nothing is asked of the gateway, of
\* the repair runs or of the operator.
FairSpec == Spec /\ WF_vars(Finish) /\ \A f \in Faults : WF_vars(JobStep(f))
-----------------------------------------------------------------------------
(* Properties.                                                             *)

Records == [fault : Faults, num : 1..TrialsPerFault, error : BOOLEAN]

\* The variables stay in their domains, and no goroutine outlives its command.
TypeOK ==
  /\ cmd \in {"none", "stage1", "stage2", "trial"}
  /\ \A f \in Faults :
       /\ job[f].pc \in {"idle", "reset", "dispatch", "poll", "judge", "append"}
       /\ job[f].polls \in 0..(MaxPolls - 1)
       /\ job[f].num <= job[f].last /\ job[f].last <= TrialsPerFault
       /\ cmd = "none" => job[f] = JobIdle
  /\ mem \in Seq(Records) /\ file \in Seq(Records)
  /\ branch \in [Faults -> SUBSET Owners]
  /\ run \in [Faults -> [owner : Owners, state : {"none", "running", "ended"},
                         merged : BOOLEAN,
                         todo : {<<>>, ReportOrder, Tail(ReportOrder)},
                         kept : BOOLEAN]]
  /\ verdict \in {"none", "passed", "failed"} /\ unsaved \in BOOLEAN
  /\ mishaps \in 0..MaxMishaps

\* The commit a trial is judged by holds that trial's fix, and nobody
\* else's but that of a run the harness gave up on: repeats neither collide
\* nor build on each other (targetrepo.go:45-54, 85-107, trial.go:97-120).
JudgedOwnFix ==
  \A f \in Faults : job[f].judged =>
    "own" \in job[f].fixes /\ "earlier" \notin job[f].fixes

\* No trial polls for a run that was never started because the fault's lock
\* was still held, with two exceptions: by a run the harness gave up on, and
\* by one whose report left its lock to the TTL.  Otherwise the outcome of
\* trial n is known only when trial n + 1 may take the lock
\* (stage.go:42-46, gatewayclient.go:95-106, digest/handler.go:101-121).
NoHaltedTrial ==
  \A f \in Faults : job[f].pc = "poll" /\ Holds(run[f]) =>
    run[f].owner # "earlier" \/ run[f].kept

\* Records are never lost or changed, whatever command runs next and
\* whatever save fails (store.go:68-72, 109-141).
FileOnlyGrows == [][IsPrefix(file, file')]_vars

\* While stage 2 runs, the report shows a clean trial 1 of every fault
\* (stage.go:66-96, report.go:79-105).
Stage2OnCleanReport ==
  cmd = "stage2" => \A f \in Faults :
    Recorded(mem, f, 1) /\ ~Failed(mem, f)

\* A stage 1 that printed PASSED and was saved admits stage 2, although that
\* is decided later, by another process, from the file (main.go:77-104).
VerdictStands ==
  verdict = "passed" /\ ~unsaved => stage1Gate(file)

\* Every command ends, whatever becomes of the gateway and its runs: polling
\* is bounded (trial.go:97-120).
CommandEnds == cmd # "none" ~> cmd = "none"
=============================================================================
