------------------------- MODULE CronSchedulerProofs -------------------------
(***************************************************************************)
(* That no task overlaps itself, for any number of tasks, of runs in       *)
(* progress and of calls changing the schedule: the invariant ties every   *)
(* run past the guard to the flag the guard tests.  And that what a task   *)
(* shows is how its last run ended: since runs do not overlap, only the    *)
(* task's one run may disturb what is shown, and the invariant says how    *)
(* far, at each of its steps.  Last, for a host that changes the schedule  *)
(* one call at a time: one runner, with the schedule in force.             *)
(***************************************************************************)
EXTENDS CronScheduler, TLAPS

RunPCs == {"idle", "spawned", "executing", "told", "untold", "recorded"}

RunType ==
  /\ running \in [Tasks -> BOOLEAN]
  /\ run \in [Runs -> [pc : RunPCs, task : Tasks]]

Flagged == \A x \in Runs : Executing(x) => running[run[x].task]

OverlapInv == RunType /\ Flagged /\ NoOverlap

LEMMA IdleRunTyped == IdleRun \in [pc : RunPCs, task : Tasks]
<1>1. (CHOOSE t \in Tasks : TRUE) \in Tasks
  BY SchedulerAssumption
<1> QED
  BY <1>1 DEF IdleRun, RunPCs

LEMMA IdleIsNotExecuting == IdleRun.pc = "idle"
BY DEF IdleRun

LEMMA InitOverlap == Init => OverlapInv
<1> SUFFICES ASSUME Init PROVE OverlapInv
  OBVIOUS
<1>1. RunType
  <2>1. IdleRun \in [pc : RunPCs, task : Tasks]
    BY IdleRunTyped
  <2> QED
    BY <2>1 DEF Init, RunType
<1>2. \A x \in Runs : ~Executing(x)
  BY DEF Init, IdleRun, Executing
<1> QED
  BY <1>1, <1>2 DEF OverlapInv, Flagged, NoOverlap

\* Changing the schedule leaves the runs alone.
LEMMA ChangeKeepsTasks == ASSUME NEW c \in Callers, Change(c) PROVE UNCHANGED tasks
BY DEF Change, Reconfigure, EditRead, EditStore, Quiesce, StopTake, StopHalt, Install, Start, tasks

LEMMA OverlapStep == OverlapInv /\ [Next]_vars => OverlapInv'
<1> SUFFICES ASSUME OverlapInv, [Next]_vars PROVE OverlapInv'
  OBVIOUS
<1> USE DEF OverlapInv, RunType, RunPCs, Flagged, NoOverlap, Executing
<1>1. CASE UNCHANGED tasks
  BY <1>1 DEF tasks
<1>2. ASSUME NEW x \in Runs, NEW t \in Tasks, Spawn(x, t) PROVE OverlapInv'
  BY <1>2 DEF Spawn
<1>3. ASSUME NEW x \in Runs, RunBegin(x) PROVE OverlapInv'
  <2>1. \A y \in Runs : Executing(y) => run[y].task # run[x].task
    BY <1>3 DEF RunBegin, MayRun
  <2> QED
    BY <1>3, <2>1 DEF RunBegin
<1>4. ASSUME NEW x \in Runs, RunSkip(x) PROVE OverlapInv'
  BY <1>4, IdleRunTyped, IdleIsNotExecuting DEF RunSkip
<1>5. ASSUME NEW x \in Runs, RunTells(x) PROVE OverlapInv'
  BY <1>5 DEF RunTells
<1>6. ASSUME NEW x \in Runs, NEW failed \in BOOLEAN, RunRecord(x, failed) PROVE OverlapInv'
  <2>1. run[x].pc \in {"executing", "told", "untold"}
    BY <1>6 DEF RunRecord
  <2> QED
    BY <1>6, <2>1 DEF RunRecord
<1>7. ASSUME NEW x \in Runs, RunRelease(x) PROVE OverlapInv'
  <2>1. \A y \in Runs : Executing(y) /\ y # x => run[y].task # run[x].task
    BY <1>7 DEF RunRelease
  <2> QED
    BY <1>7, <2>1, IdleRunTyped, IdleIsNotExecuting DEF RunRelease, Released
<1>8. CASE UNCHANGED vars
  BY <1>8, <1>1 DEF vars
<1> QED
  BY <1>1, <1>2, <1>3, <1>4, <1>5, <1>6, <1>7, <1>8, ChangeKeepsTasks
     DEF Next, CronTick, TriggerTask, RunStep, RunnersExhausted

\* NoOverlap of runTask's guard (scheduler.go:241-258), for every instance.
THEOREM TasksNeverOverlap == Spec => []NoOverlap
<1>1. OverlapInv => NoOverlap
  BY DEF OverlapInv
<1> QED
  BY <1>1, InitOverlap, OverlapStep, PTL DEF Spec

-----------------------------------------------------------------------------

ShownType ==
  /\ shown \in [Tasks -> [known : BOOLEAN, result : {"", "ok", "told"}, error : BOOLEAN]]
  /\ ended \in [Tasks -> {"none", "failed", "told", "ok"}]

\* What a task shows is how its last run ended.
Faithful(t) ==
  /\ shown[t].error = TRUE <=> ended[t] = "failed"
  /\ shown[t].result = (IF ended[t] \in {"none", "failed"} THEN "" ELSE ended[t])

\* A task with no entry has shown nothing, and a renewal tells nothing.
Silent(t) ==
  /\ shown[t].known = FALSE => shown[t].result = ""
  /\ Kind[t] = "renewal" => shown[t].result # "told"

\* A task's run disturbs what it shows only after it told, and until it records.
Disturbed(t) ==
  \/ Faithful(t)
  \/ \E x \in Runs : run[x].pc = "told" /\ run[x].task = t

AsTold(x) ==
  /\ run[x].pc = "told" => shown[run[x].task].result = "told" /\ Kind[run[x].task] # "renewal"
  /\ run[x].pc = "untold" => shown[run[x].task].result = ""

OutcomeInv ==
  /\ ShownType
  /\ \A t \in Tasks : Silent(t) /\ Disturbed(t)
  /\ \A x \in Runs : AsTold(x)

LEMMA InitOutcome == Init => OutcomeInv
<1> SUFFICES ASSUME Init PROVE OutcomeInv
  OBVIOUS
<1>1. Unknown \in [known : BOOLEAN, result : {"", "ok", "told"}, error : BOOLEAN]
  BY DEF Unknown
<1>2. ShownType
  BY <1>1 DEF Init, ShownType
<1>3. ASSUME NEW t \in Tasks PROVE Silent(t) /\ Faithful(t)
  <2>1. shown[t] = Unknown /\ ended[t] = "none"
    BY DEF Init
  <2>2. Unknown.known = FALSE /\ Unknown.result = "" /\ Unknown.error = FALSE
    BY DEF Unknown
  <2> QED
    BY <2>1, <2>2 DEF Silent, Faithful
<1>4. ASSUME NEW x \in Runs PROVE AsTold(x)
  BY IdleIsNotExecuting DEF Init, AsTold
<1> QED
  BY <1>2, <1>3, <1>4 DEF OutcomeInv, Disturbed

\* A change of the schedule only adds entries.
LEMMA ChangeAddsEntries ==
  ASSUME NEW c \in Callers, Change(c), OverlapInv, OutcomeInv
  PROVE OutcomeInv'
<1>1. UNCHANGED <<run, ended>>
  BY DEF Change, Reconfigure, EditRead, EditStore, Quiesce, StopTake, StopHalt, Install, Start,
         tasks, outcomes
<1>2. CASE UNCHANGED shown
  BY ZenonT(60), <1>1, <1>2 DEF OutcomeInv, ShownType, Silent, Disturbed, AsTold, Faithful
<1>3. CASE Install(c)
  <2>1. \A t \in Tasks : \/ shown'[t] = shown[t]
                         \/ shown'[t] = [shown[t] EXCEPT !.known = TRUE]
    BY <1>3 DEF Install
  <2>2. ASSUME NEW t \in Tasks
        PROVE /\ shown'[t].result = shown[t].result
              /\ shown'[t].error = shown[t].error
              /\ shown'[t].known = FALSE => shown[t].known = FALSE
    <3>1. shown[t] \in [known : BOOLEAN, result : {"", "ok", "told"}, error : BOOLEAN]
      BY DEF OutcomeInv, ShownType
    <3>2. CASE shown'[t] = shown[t]
      BY <3>2
    <3>3. CASE shown'[t] = [shown[t] EXCEPT !.known = TRUE]
      BY <3>1, <3>3
    <3> QED
      BY <2>1, <3>2, <3>3
  <2>3. ShownType'
    BY <1>1, <1>3 DEF Install, OutcomeInv, ShownType
  <2>4. \A t \in Tasks : Silent(t)'
    BY <2>2 DEF OutcomeInv, Silent
  <2>5. \A t \in Tasks : Disturbed(t)'
    BY <1>1, <2>2 DEF OutcomeInv, Disturbed, Faithful
  <2>6. \A x \in Runs : AsTold(x)'
    BY <1>1, <2>2 DEF OutcomeInv, AsTold, OverlapInv, RunType
  <2> QED
    BY <2>3, <2>4, <2>5, <2>6 DEF OutcomeInv
<1> QED
  BY <1>2, <1>3 DEF Change, Reconfigure, EditRead, EditStore, Quiesce, StopTake, StopHalt, Start,
                    outcomes

\* So does a step of a run that neither tells nor records.
LEMMA QuietStep ==
  ASSUME OutcomeInv, NEW x \in Runs, UNCHANGED outcomes,
         run[x].pc # "told", run'[x].pc \notin {"told", "untold"},
         \A y \in Runs \ {x} : run'[y] = run[y]
  PROVE OutcomeInv'
<1>1. ShownType' /\ \A t \in Tasks : Silent(t)'
  BY DEF OutcomeInv, outcomes, ShownType, Silent
<1>2. ASSUME NEW t \in Tasks PROVE Disturbed(t)'
  <2>1. CASE Faithful(t)
    BY <2>1 DEF outcomes, Faithful, Disturbed
  <2>2. ASSUME NEW y \in Runs, run[y].pc = "told", run[y].task = t PROVE Disturbed(t)'
    BY <2>2 DEF Disturbed
  <2> QED
    BY <2>1, <2>2 DEF OutcomeInv, Disturbed
<1>3. \A y \in Runs : AsTold(y)'
  BY DEF OutcomeInv, outcomes, AsTold
<1> QED
  BY <1>1, <1>2, <1>3 DEF OutcomeInv

\* A run past the guard that tells or records touches what its own task shows only.
LEMMA OwnEntry ==
  ASSUME OverlapInv, OutcomeInv, NEW x \in Runs, Executing(x),
         \A y \in Runs \ {x} : run'[y] = run[y],
         NEW own \in Tasks, run[x].task = own, run'[x].task = own,
         \A t \in Tasks \ {own} : shown'[t] = shown[t] /\ ended'[t] = ended[t],
         ShownType', Silent(own)', Disturbed(own)', AsTold(x)'
  PROVE OutcomeInv'
<1>1. \A y \in Runs \ {x} : Executing(y) => run[y].task # own
  BY DEF OverlapInv, NoOverlap
<1>2. \A t \in Tasks : Silent(t)'
  BY DEF OutcomeInv, Silent
<1>3. ASSUME NEW t \in Tasks \ {own} PROVE Disturbed(t)'
  <2>1. CASE Faithful(t)
    BY <2>1 DEF Faithful, Disturbed
  <2>2. ASSUME NEW y \in Runs, run[y].pc = "told", run[y].task = t PROVE Disturbed(t)'
    BY <2>2 DEF Disturbed
  <2> QED
    BY <2>1, <2>2 DEF OutcomeInv, Disturbed
<1>4. ASSUME NEW y \in Runs \ {x} PROVE AsTold(y)'
  <2>1. CASE run[y].pc \in {"told", "untold"}
    <3>1. PICK t \in Tasks \ {own} : run[y].task = t
      BY <1>1, <2>1 DEF Executing, OverlapInv, RunType
    <3>2. /\ AsTold(y) /\ shown'[t] = shown[t]
          /\ run'[y].task = t /\ run'[y].pc = run[y].pc
      BY <3>1 DEF OutcomeInv
    <3> QED
      BY <3>1, <3>2 DEF AsTold
  <2>2. CASE run[y].pc \notin {"told", "untold"}
    BY <2>2 DEF AsTold
  <2> QED
    BY <2>1, <2>2
<1> QED
  BY <1>2, <1>3, <1>4 DEF OutcomeInv

LEMMA TellsStep ==
  ASSUME OverlapInv, OutcomeInv, NEW x \in Runs, RunTells(x)
  PROVE OutcomeInv'
<1>0. PICK t \in Tasks : run[x].task = t
  BY DEF OverlapInv, RunType
<1>1. Executing(x) /\ Kind[t] # "renewal"
  BY <1>0 DEF RunTells, Executing, OverlapInv, RunType
<1>2. /\ \A y \in Runs \ {x} : run'[y] = run[y]
      /\ run'[x].task = t
      /\ ended' = ended
  BY <1>0 DEF RunTells, OverlapInv, RunType
<1>3. CASE HasPlace(t)
  <2>1. /\ run'[x].pc = "told"
        /\ shown' = [shown EXCEPT ![t].known = TRUE, ![t].result = "told"]
    BY <1>0, <1>3 DEF RunTells, OverlapInv, RunType
  <2>2. shown'[t].known = TRUE /\ shown'[t].result = "told"
    BY <1>1, <2>1 DEF OutcomeInv, ShownType
  <2>3. ShownType'
    <3>1. [shown[t] EXCEPT !.known = TRUE, !.result = "told"] \in
            [known : BOOLEAN, result : {"", "ok", "told"}, error : BOOLEAN]
      BY DEF OutcomeInv, ShownType
    <3>2. shown' = [shown EXCEPT ![t] = [shown[t] EXCEPT !.known = TRUE, !.result = "told"]]
      BY <2>1 DEF OutcomeInv, ShownType
    <3> QED
      BY <1>2, <3>1, <3>2 DEF OutcomeInv, ShownType
  <2>4. \A u \in Tasks \ {t} : shown'[u] = shown[u]
    BY <2>1 DEF OutcomeInv, ShownType
  <2>5. Silent(t)' /\ Disturbed(t)' /\ AsTold(x)'
    BY <1>1, <1>2, <2>1, <2>2 DEF Silent, Disturbed, AsTold
  <2> QED
    BY <1>1, <1>2, <2>3, <2>4, <2>5, <1>0, OwnEntry
<1>4. CASE ~HasPlace(t)
  <2>1. run'[x].pc = "untold" /\ shown' = shown
    BY <1>0, <1>4 DEF RunTells, OverlapInv, RunType
  <2>2. shown[t].result = ""
    BY <1>1, <1>4 DEF OutcomeInv, ShownType, Silent, HasPlace
  <2>3. \A y \in Runs : run[y].pc = "told" => run[y].task # t
    BY <1>0 DEF OverlapInv, NoOverlap, Executing, RunTells
  <2>4. ShownType' /\ Silent(t)' /\ AsTold(x)'
    BY <1>1, <1>2, <2>1, <2>2 DEF OutcomeInv, ShownType, Silent, AsTold
  <2>5. Faithful(t)
    BY <1>1, <2>3 DEF OutcomeInv, Disturbed
  <2>6. Disturbed(t)'
    BY <1>2, <2>1, <2>5 DEF Faithful, Disturbed
  <2> QED
    BY <1>1, <1>2, <2>1, <2>4, <2>6, <1>0, OwnEntry
<1> QED
  BY <1>3, <1>4

LEMMA RecordStep ==
  ASSUME OverlapInv, OutcomeInv, NEW x \in Runs, NEW failed \in BOOLEAN, RunRecord(x, failed)
  PROVE OutcomeInv'
<1>0. PICK t \in Tasks : run[x].task = t
  BY DEF OverlapInv, RunType
<1>1. /\ Executing(x)
      /\ ~failed => \/ run[x].pc \in {"told", "untold"}
                    \/ run[x].pc = "executing" /\ Kind[t] = "renewal"
  BY <1>0 DEF RunRecord, Executing, OverlapInv, RunType
<1>2. /\ \A y \in Runs \ {x} : run'[y] = run[y]
      /\ run'[x].task = t /\ run'[x].pc = "recorded"
  BY <1>0 DEF RunRecord, OverlapInv, RunType
<1>3. \A u \in Tasks \ {t} : shown'[u] = shown[u] /\ ended'[u] = ended[u]
  BY <1>0 DEF RunRecord, OutcomeInv, ShownType
<1>4. /\ shown'[t] = Recorded(shown[t], failed)
      /\ ended'[t] = IF failed THEN "failed" ELSE IF run[x].pc = "told" THEN "told" ELSE "ok"
  BY <1>0, <1>1 DEF RunRecord, OutcomeInv, ShownType
<1>5. /\ shown'[t].known = TRUE /\ shown'[t].error = failed
      /\ failed = TRUE => shown'[t].result = ""
      /\ failed = FALSE => shown'[t].result = IF shown[t].result = "" THEN "ok"
                                              ELSE shown[t].result
  <2> DEFINE new == IF failed THEN "" ELSE IF shown[t].result = "" THEN "ok" ELSE shown[t].result
  <2>1. Recorded(shown[t], failed) = [known |-> TRUE, error |-> failed, result |-> new]
    BY DEF Recorded
  <2>2. /\ failed = TRUE => new = ""
        /\ failed = FALSE => new = IF shown[t].result = "" THEN "ok" ELSE shown[t].result
    OBVIOUS
  <2> HIDE DEF new
  <2>3. shown'[t] = [known |-> TRUE, error |-> failed, result |-> new]
    BY <1>4, <2>1
  <2>4. shown'[t].known = TRUE /\ shown'[t].error = failed /\ shown'[t].result = new
    BY <2>3
  <2> QED
    BY <2>2, <2>4
<1>6. ShownType'
  <2>1. Recorded(shown[t], failed) \in
          [known : BOOLEAN, result : {"", "ok", "told"}, error : BOOLEAN]
    BY <1>1 DEF Recorded, OutcomeInv, ShownType
  <2> QED
    BY <1>0, <1>1, <2>1 DEF RunRecord, OutcomeInv, ShownType
<1>7. shown[t].result \in {"", "ok", "told"}
  BY <1>1 DEF OutcomeInv, ShownType
<1>8. run[x].pc # "told" /\ ~failed => shown[t].result \in {"", "ok"}
  BY <1>0, <1>1, <1>7 DEF OutcomeInv, AsTold, Silent
<1>9. run[x].pc = "told" => shown[t].result = "told" /\ Kind[t] # "renewal"
  BY <1>0 DEF OutcomeInv, AsTold
<1>10. Faithful(t)'
  <2>1. CASE failed = TRUE
    BY <1>4, <1>5, <2>1 DEF Faithful
  <2>2. CASE failed = FALSE
    BY <1>4, <1>5, <1>7, <1>8, <1>9, <2>2 DEF Faithful
  <2> QED
    BY <2>1, <2>2
<1>11. Silent(t)'
  <2>1. CASE failed = TRUE
    BY <1>5, <2>1 DEF Silent
  <2>2. CASE failed = FALSE
    BY <1>1, <1>5, <1>7, <1>8, <1>9, <2>2 DEF Silent
  <2> QED
    BY <2>1, <2>2
<1>12. AsTold(x)'
  BY <1>2 DEF AsTold
<1> QED
  BY <1>1, <1>2, <1>3, <1>6, <1>10, <1>11, <1>12, <1>0, OwnEntry DEF Disturbed

LEMMA OutcomeStep == OverlapInv /\ OutcomeInv /\ [Next]_vars => OutcomeInv'
<1> SUFFICES ASSUME OverlapInv, OutcomeInv, [Next]_vars PROVE OutcomeInv'
  OBVIOUS
<1>1. CASE UNCHANGED vars
  BY ZenonT(60), <1>1 DEF vars, tasks, outcomes, OutcomeInv, ShownType, Silent, Disturbed, AsTold, Faithful
<1>2. ASSUME NEW x \in Runs, NEW t \in Tasks, Spawn(x, t) PROVE OutcomeInv'
  BY <1>2, QuietStep DEF Spawn, OverlapInv, RunType
<1>3. ASSUME NEW x \in Runs, RunBegin(x) PROVE OutcomeInv'
  BY <1>3, QuietStep DEF RunBegin, OverlapInv, RunType
<1>4. ASSUME NEW x \in Runs, RunSkip(x) PROVE OutcomeInv'
  BY <1>4, QuietStep, IdleIsNotExecuting DEF RunSkip, OverlapInv, RunType
<1>5. ASSUME NEW x \in Runs, RunRelease(x) PROVE OutcomeInv'
  BY <1>5, QuietStep, IdleIsNotExecuting DEF RunRelease, OverlapInv, RunType
<1> QED
  BY <1>1, <1>2, <1>3, <1>4, <1>5, TellsStep, RecordStep, ChangeAddsEntries
     DEF Next, CronTick, TriggerTask, RunStep, RunnersExhausted

\* LastOutcomeShown of record and of the results tasks tell (scheduler.go:214-237
\* and 428-436), for every instance.
THEOREM OutcomesAreTheLastRuns == Spec => []LastOutcomeShown
<1>1. ASSUME OutcomeInv PROVE LastOutcomeShown
  <2>1. ASSUME NEW t \in Tasks, \A x \in Runs : Executing(x) => run[x].task # t
        PROVE Faithful(t) /\ shown[t].error \in BOOLEAN
    BY <1>1, <2>1 DEF OutcomeInv, ShownType, Disturbed, Executing
  <2> QED
    BY <2>1 DEF Faithful, LastOutcomeShown
<1>2. Init => OverlapInv /\ OutcomeInv
  BY InitOverlap, InitOutcome
<1>3. OverlapInv /\ OutcomeInv /\ [Next]_vars => (OverlapInv /\ OutcomeInv)'
  BY OverlapStep, OutcomeStep
<1> QED
  BY <1>1, <1>2, <1>3, PTL DEF Spec

-----------------------------------------------------------------------------
\* The host makes one change of the schedule at a time.
ChangesSerial == \E c : Callers = {c}

CallPCs == {"idle", "edit", "stop", "halt", "install", "start"}
Runner == [state : {"unbuilt", "built", "running", "stopped"}, enabled : SUBSET Tasks]
ChangeCall == [pc : CallPCs, config : Configs, runner : 0..MaxRunners, quiesce : BOOLEAN]

ScheduleType ==
  /\ config \in Configs /\ quiesced \in BOOLEAN
  /\ runners \in [RunnerIds -> Runner]
  /\ installed \in 0..MaxRunners
  /\ call \in [Callers -> ChangeCall]

NoneActive == \A r \in RunnerIds : ~Active(r)
OnlyActive(q) == \A r \in RunnerIds : Active(r) => r = q

\* The installed runner is the configuration's, once a change is through.
InForce ==
  IF quiesced = TRUE \/ ~Scheduled(config) THEN NoneActive
  ELSE /\ installed \in RunnerIds /\ Active(installed) /\ OnlyActive(installed)
       /\ runners[installed].enabled = config.enabled

\* What a change will apply: nothing, or the configuration it stored.
Applies(k) == IF k.quiesce = TRUE THEN ~Scheduled(k.config) ELSE k.config = config

Stage(k) ==
  /\ k.pc \in {"idle", "edit"} => InForce
  /\ k.pc = "edit" => k.quiesce = FALSE
  /\ k.pc = "stop" => OnlyActive(installed) /\ Applies(k)
  /\ k.pc = "halt" => OnlyActive(k.runner) /\ Applies(k)
  /\ k.pc = "install" => NoneActive /\ k.config = config /\ Scheduled(config)
  /\ k.pc = "start" =>
       /\ NoneActive /\ Scheduled(config)
       /\ installed \in RunnerIds /\ k.runner = installed
       /\ runners[installed].enabled = config.enabled

ScheduleInv(c) == ScheduleType /\ Stage(call[c])

LEMMA IdleCallTyped ==
  /\ IdleCall \in ChangeCall /\ IdleCall.pc = "idle" /\ IdleCall.quiesce = FALSE
  /\ ~Scheduled(IdleCall.config)
<1>1. NoSchedule \in Configs /\ 0 \in 0..MaxRunners /\ ~Scheduled(NoSchedule)
  BY SchedulerAssumption DEF SchedulerAssumption, Configs, NoSchedule, Scheduled
<1>2. IdleCall \in ChangeCall
  BY <1>1 DEF IdleCall, ChangeCall, CallPCs
<1> QED
  BY <1>1, <1>2 DEF IdleCall

\* The one change moves to its next stage.
LEMMA OneChange ==
  ASSUME NEW c, Callers = {c}, ScheduleType, NEW k \in ChangeCall, call' = [call EXCEPT ![c] = k],
         config' \in Configs, quiesced' \in BOOLEAN, runners' \in [RunnerIds -> Runner],
         installed' \in 0..MaxRunners, Stage(k)'
  PROVE  ScheduleInv(c)'
<1>1. call' \in [Callers -> ChangeCall] /\ call'[c] = k
  BY DEF ScheduleType
<1>2. Stage(call[c])'
  BY <1>1 DEF Stage, Applies, InForce, NoneActive, OnlyActive, Active
<1> QED
  BY <1>1, <1>2 DEF ScheduleInv, ScheduleType

LEMMA BeginChange ==
  ASSUME NEW c, Callers = {c}, ScheduleInv(c), NEW new \in Configs,
         Reconfigure(c, new) \/ EditRead(c) \/ Quiesce(c)
  PROVE  ScheduleInv(c)'
<1> DEFINE stored == [IdleCall EXCEPT !.pc = "stop", !.config = new]
           quiesce == [IdleCall EXCEPT !.pc = "stop", !.quiesce = TRUE]
<1>1. /\ ScheduleType /\ InForce /\ UNCHANGED <<runners, installed, quiesced>>
      /\ quiesced \in BOOLEAN /\ runners \in [RunnerIds -> Runner]
      /\ installed \in 0..MaxRunners /\ config \in Configs
  BY DEF ScheduleInv, ScheduleType, Stage, Reconfigure, EditRead, Quiesce
<1>2. OnlyActive(installed)
  BY <1>1 DEF InForce, NoneActive, OnlyActive
<1>3. CASE Reconfigure(c, new)
  <2>1. /\ stored \in ChangeCall /\ stored.pc = "stop" /\ stored.config = new
        /\ stored.quiesce = FALSE
    BY IdleCallTyped DEF ChangeCall, CallPCs
  <2>2. config' = new /\ call' = [call EXCEPT ![c] = stored]
    BY <1>3 DEF Reconfigure
  <2> HIDE DEF stored
  <2>3. Stage(stored)'
    BY <1>1, <1>2, <2>1, <2>2 DEF Stage, Applies, OnlyActive, Active
  <2> QED
    BY <1>1, <2>1, <2>2, <2>3, OneChange
<1>4. CASE EditRead(c)
  <2>1. PICK edit \in ChangeCall : /\ edit = [IdleCall EXCEPT !.pc = "edit", !.config = config]
                                  /\ edit.pc = "edit" /\ edit.quiesce = FALSE
    <3> DEFINE moved == [IdleCall EXCEPT !.pc = "edit", !.config = config]
    <3>1. moved \in ChangeCall /\ moved.pc = "edit" /\ moved.quiesce = FALSE
      BY <1>1, IdleCallTyped DEF ChangeCall, CallPCs
    <3> QED
      BY <3>1
  <2>2. config' = config /\ call' = [call EXCEPT ![c] = edit]
    BY <1>4, <2>1 DEF EditRead
  <2>3. Stage(edit)'
    BY <1>1, <2>1, <2>2 DEF Stage, InForce, NoneActive, OnlyActive, Active
  <2> QED
    BY <1>1, <2>1, <2>2, <2>3, OneChange
<1>5. CASE Quiesce(c)
  <2>1. /\ quiesce \in ChangeCall /\ quiesce.pc = "stop" /\ quiesce.quiesce = TRUE
        /\ ~Scheduled(quiesce.config)
    BY IdleCallTyped DEF ChangeCall, CallPCs
  <2>2. config' = config /\ call' = [call EXCEPT ![c] = quiesce]
    BY <1>5 DEF Quiesce
  <2> HIDE DEF quiesce
  <2>3. Stage(quiesce)'
    BY <1>1, <1>2, <2>1, <2>2 DEF Stage, Applies, OnlyActive, Active
  <2> QED
    BY <1>1, <2>1, <2>2, <2>3, OneChange
<1> QED
  BY <1>3, <1>4, <1>5

LEMMA StoreChange ==
  ASSUME NEW c, Callers = {c}, ScheduleInv(c), NEW on \in BOOLEAN, NEW enabled \in SUBSET Tasks,
         EditStore(c, on, enabled)
  PROVE  ScheduleInv(c)'
<1> DEFINE old == call[c].config
<1>1. /\ ScheduleType /\ call[c].pc = "edit" /\ call[c] \in ChangeCall /\ InForce
      /\ UNCHANGED <<runners, installed, quiesced>> /\ quiesced \in BOOLEAN
      /\ runners \in [RunnerIds -> Runner] /\ installed \in 0..MaxRunners
  BY DEF ScheduleInv, ScheduleType, Stage, EditStore
<1>2. PICK new \in Configs : new = [old EXCEPT !.on = on, !.enabled = enabled]
  <2>1. old \in Configs /\ enabled \subseteq old.listed
    BY <1>1 DEF ChangeCall, EditStore
  <2> HIDE DEF old
  <2>2. [old EXCEPT !.on = on, !.enabled = enabled] \in Configs
    BY <2>1 DEF Configs
  <2> QED
    BY <2>2
<1>4. PICK k \in ChangeCall :
        /\ k = [call[c] EXCEPT !.pc = "stop", !.config = new]
        /\ k.pc = "stop" /\ k.config = new /\ k.quiesce = call[c].quiesce
  <2> DEFINE moved == [call[c] EXCEPT !.pc = "stop", !.config = new]
  <2>1. moved \in ChangeCall /\ moved.pc = "stop" /\ moved.config = new
          /\ moved.quiesce = call[c].quiesce
    BY <1>1, <1>2 DEF ChangeCall, CallPCs
  <2> QED
    BY <2>1
<1>3. config' = new /\ call' = [call EXCEPT ![c] = k]
  BY <1>1, <1>2, <1>4 DEF EditStore, ScheduleType
<1>5. OnlyActive(installed)
  BY <1>1 DEF InForce, NoneActive, OnlyActive
<1>6. call[c].quiesce = FALSE
  BY <1>1 DEF ScheduleInv, Stage
<1>7. Stage(k)'
  BY <1>1, <1>3, <1>4, <1>5, <1>6 DEF Stage, Applies, OnlyActive, Active
<1> QED
  BY <1>1, <1>2, <1>3, <1>4, <1>7, OneChange

\* The runner taken out is the only one that can be running ...
LEMMA TakeStep ==
  ASSUME NEW c, Callers = {c}, ScheduleInv(c), StopTake(c)
  PROVE  ScheduleInv(c)'
<1>1. /\ ScheduleType /\ call[c].pc = "stop" /\ call[c] \in ChangeCall
      /\ OnlyActive(installed) /\ Applies(call[c])
      /\ UNCHANGED <<config, runners, quiesced>> /\ installed' = 0
      /\ quiesced \in BOOLEAN /\ runners \in [RunnerIds -> Runner] /\ config \in Configs
      /\ installed \in 0..MaxRunners /\ 0 \in 0..MaxRunners
  BY SchedulerAssumption DEF ScheduleInv, ScheduleType, Stage, StopTake, SchedulerAssumption
<1>3. PICK k \in ChangeCall :
        /\ k = [call[c] EXCEPT !.pc = "halt", !.runner = installed]
        /\ k.pc = "halt" /\ k.runner = installed
        /\ k.config = call[c].config /\ k.quiesce = call[c].quiesce
  <2> DEFINE moved == [call[c] EXCEPT !.pc = "halt", !.runner = installed]
  <2>1. moved \in ChangeCall /\ moved.pc = "halt" /\ moved.runner = installed
          /\ moved.config = call[c].config /\ moved.quiesce = call[c].quiesce
    BY <1>1 DEF ChangeCall, CallPCs
  <2> QED
    BY <2>1
<1>2. call' = [call EXCEPT ![c] = k]
  BY <1>1, <1>3 DEF StopTake, ScheduleType
<1>4. Stage(k)'
  BY <1>1, <1>3 DEF Stage, Applies, OnlyActive, Active
<1> QED
  BY <1>1, <1>2, <1>3, <1>4, OneChange

\* ... and once it is stopped none is.
LEMMA HaltStep ==
  ASSUME NEW c, Callers = {c}, ScheduleInv(c), StopHalt(c)
  PROVE  ScheduleInv(c)'
<1> DEFINE k == call[c]
<1>1. /\ ScheduleType /\ k.pc = "halt" /\ k \in ChangeCall
      /\ OnlyActive(k.runner) /\ Applies(k)
      /\ UNCHANGED <<config, installed>> /\ runners' = Halted(k.runner)
      /\ quiesced \in BOOLEAN /\ runners \in [RunnerIds -> Runner] /\ config \in Configs
      /\ installed \in 0..MaxRunners /\ 0 \in 0..MaxRunners /\ k.runner \in 0..MaxRunners
      /\ k.quiesce \in BOOLEAN
  BY SchedulerAssumption
     DEF ScheduleInv, ScheduleType, Stage, StopHalt, SchedulerAssumption, ChangeCall, Configs
<1>2. runners' \in [RunnerIds -> Runner] /\ NoneActive'
  <2>1. [state |-> "stopped", enabled |-> {}] \in Runner
    BY DEF Runner
  <2>2. CASE k.runner # 0 /\ runners[k.runner].state = "running"
    <3>1. runners' = [runners EXCEPT ![k.runner] = [state |-> "stopped", enabled |-> {}]]
      BY <1>1, <2>2 DEF Halted
    <3>2. runners' \in [RunnerIds -> Runner]
      BY <1>1, <2>1, <3>1
    <3>3. ASSUME NEW r \in RunnerIds PROVE runners'[r].state # "running"
      <4>1. CASE r = k.runner
        BY <1>1, <3>1, <4>1
      <4>2. CASE r # k.runner
        BY <1>1, <3>1, <4>2 DEF OnlyActive, Active
      <4> QED
        BY <4>1, <4>2
    <3> QED
      BY <3>2, <3>3 DEF NoneActive, Active
  <2>3. CASE ~(k.runner # 0 /\ runners[k.runner].state = "running")
    <3>1. runners' = runners
      BY <1>1, <2>3 DEF Halted
    <3>2. ASSUME NEW r \in RunnerIds PROVE runners[r].state # "running"
      <4>1. r # 0
        BY SchedulerAssumption DEF RunnerIds, SchedulerAssumption
      <4> QED
        BY <1>1, <2>3, <4>1 DEF OnlyActive, Active
    <3> QED
      BY <1>1, <3>1, <3>2 DEF NoneActive, Active
  <2> QED
    BY <2>2, <2>3
<1>3. CASE Scheduled(k.config)
  <2>2. k.config = config /\ Scheduled(config)
    BY <1>1, <1>3 DEF Applies
  <2>3. PICK next \in ChangeCall :
          /\ next = [k EXCEPT !.pc = "install", !.runner = 0]
          /\ next.pc = "install" /\ next.config = config
    <3> DEFINE moved == [k EXCEPT !.pc = "install", !.runner = 0]
    <3>1. moved \in ChangeCall /\ moved.pc = "install" /\ moved.config = config
      BY <1>1, <2>2 DEF ChangeCall, CallPCs
    <3> QED
      BY <3>1
  <2>1. call' = [call EXCEPT ![c] = next] /\ quiesced' = quiesced
    BY <1>1, <1>3, <2>3 DEF StopHalt, ScheduleType
  <2> HIDE DEF k
  <2>4. Stage(next)'
    BY <1>1, <1>2, <2>1, <2>2, <2>3 DEF Stage
  <2> QED
    BY <1>1, <1>2, <2>1, <2>3, <2>4, OneChange
<1>4. CASE ~Scheduled(k.config)
  <2>1. call' = [call EXCEPT ![c] = IdleCall] /\ quiesced' = k.quiesce
    BY <1>4 DEF StopHalt
  <2>2. ~Scheduled(k.config) /\ (k.quiesce = TRUE \/ ~Scheduled(config))
    BY <1>1, <1>4 DEF Applies
  <2> HIDE DEF k
  <2>3. InForce'
    BY <1>1, <1>2, <2>1, <2>2 DEF InForce
  <2>4. Stage(IdleCall)'
    BY <2>3, IdleCallTyped DEF Stage
  <2> QED
    BY <1>1, <1>2, <2>1, <2>4, IdleCallTyped, OneChange
<1> QED
  BY <1>3, <1>4

LEMMA InstallStep ==
  ASSUME NEW c, Callers = {c}, ScheduleInv(c), Install(c)
  PROVE  ScheduleInv(c)'
<1>1. PICK r \in RunnerIds :
        /\ runners' = [runners EXCEPT ![r] = [state |-> "built",
                                              enabled |-> ScheduledTasks(call[c].config)]]
        /\ installed' = r
        /\ call' = [call EXCEPT ![c].pc = "start", ![c].runner = r]
  BY DEF Install
<1> DEFINE built == [state |-> "built", enabled |-> call[c].config.enabled]
<1>2. /\ ScheduleType /\ call[c].pc = "install" /\ call[c] \in ChangeCall
      /\ NoneActive /\ call[c].config = config /\ Scheduled(config)
      /\ UNCHANGED <<config, quiesced>> /\ quiesced \in BOOLEAN
      /\ runners \in [RunnerIds -> Runner] /\ config \in Configs /\ r \in 0..MaxRunners
  BY SchedulerAssumption DEF ScheduleInv, ScheduleType, Stage, Install, SchedulerAssumption, RunnerIds
<1>5. PICK k \in ChangeCall : /\ k = [call[c] EXCEPT !.pc = "start", !.runner = r]
                             /\ k.pc = "start" /\ k.runner = r
  <2> DEFINE moved == [call[c] EXCEPT !.pc = "start", !.runner = r]
  <2>1. moved \in ChangeCall /\ moved.pc = "start" /\ moved.runner = r
    BY <1>2 DEF ChangeCall, CallPCs
  <2> QED
    BY <2>1
<1>3. call' = [call EXCEPT ![c] = k] /\ runners' = [runners EXCEPT ![r] = built]
  BY <1>1, <1>2, <1>5 DEF ScheduleType, ScheduledTasks
<1>4. built \in Runner /\ built.state = "built" /\ built.enabled = config.enabled
  BY <1>2 DEF Runner, Configs
<1> HIDE DEF built
<1>6. /\ runners' \in [RunnerIds -> Runner] /\ runners'[r].enabled = config.enabled
      /\ NoneActive'
  <2>1. runners' \in [RunnerIds -> Runner] /\ runners'[r] = built
        /\ \A q \in RunnerIds \ {r} : runners'[q] = runners[q]
    BY <1>2, <1>3, <1>4
  <2> QED
    BY <1>2, <1>4, <2>1 DEF NoneActive, Active
<1>7. Stage(k)'
  BY <1>1, <1>2, <1>5, <1>6 DEF Stage
<1> QED
  BY <1>1, <1>2, <1>3, <1>5, <1>6, <1>7, OneChange

LEMMA StartStep ==
  ASSUME NEW c, Callers = {c}, ScheduleInv(c), Start(c)
  PROVE  ScheduleInv(c)'
<1> DEFINE r == call[c].runner
           started == [runners[r] EXCEPT !.state = "running"]
<1>1. /\ ScheduleType /\ call[c].pc = "start"
      /\ NoneActive /\ Scheduled(config) /\ installed \in RunnerIds /\ r = installed
      /\ runners[r].enabled = config.enabled
      /\ UNCHANGED <<config, installed>> /\ quiesced' = FALSE
      /\ call' = [call EXCEPT ![c] = IdleCall]
      /\ runners \in [RunnerIds -> Runner] /\ config \in Configs /\ installed \in 0..MaxRunners
  BY DEF ScheduleInv, ScheduleType, Stage, Start
<1>2. runners' = [runners EXCEPT ![r] = started]
  BY <1>1 DEF Start
<1> HIDE DEF r
<1>3. started \in Runner /\ started.state = "running" /\ started.enabled = config.enabled
  BY <1>1 DEF Runner
<1> HIDE DEF started
<1>4. /\ runners' \in [RunnerIds -> Runner] /\ runners'[r] = started
      /\ \A q \in RunnerIds \ {r} : runners'[q] = runners[q]
  BY <1>1, <1>2, <1>3
<1>5. InForce'
  BY <1>1, <1>3, <1>4 DEF InForce, NoneActive, OnlyActive, Active
<1>6. Stage(IdleCall)'
  BY <1>5, IdleCallTyped DEF Stage
<1> QED
  BY <1>1, <1>4, <1>6, IdleCallTyped, OneChange

LEMMA ScheduleStep ==
  ASSUME NEW c, Callers = {c}, ScheduleInv(c), [Next]_vars
  PROVE  ScheduleInv(c)'
<1>1. CASE UNCHANGED schedule
  BY <1>1 DEF schedule, ScheduleInv, ScheduleType, Stage, Applies, InForce, NoneActive, OnlyActive,
              Active
<1>2. CASE \E x \in Runs : RunStep(x) \/ \E t \in Tasks : Spawn(x, t)
  BY <1>1, <1>2 DEF RunStep, RunBegin, RunSkip, RunTells, RunRecord, RunRelease, Spawn
<1>3. CASE Change(c)
  <2>1. ASSUME EditRead(c) \/ Quiesce(c) PROVE ScheduleInv(c)'
    <3>1. config \in Configs
      BY DEF ScheduleInv, ScheduleType
    <3> QED
      BY <2>1, <3>1, BeginChange
  <2> QED
    BY <1>3, <2>1, BeginChange, StoreChange, TakeStep, HaltStep, InstallStep, StartStep
       DEF Change
<1> QED
  BY <1>1, <1>2, <1>3 DEF Next, CronTick, TriggerTask, RunnersExhausted, vars

LEMMA ScheduleInitially == ASSUME NEW c, Callers = {c}, Init PROVE ScheduleInv(c)
<1>1. NoRunner \in Runner /\ NoRunner.state = "unbuilt" /\ 0 \in 0..MaxRunners
  BY SchedulerAssumption DEF NoRunner, Runner, SchedulerAssumption
<1>2. config \in Configs /\ ~Scheduled(config)
  BY SchedulerAssumption DEF SchedulerAssumption, Init, Configs, NoSchedule, Scheduled
<1>3. /\ runners \in [RunnerIds -> Runner] /\ NoneActive
  BY <1>1 DEF Init, NoneActive, Active
<1>4. call \in [Callers -> ChangeCall] /\ call[c] = IdleCall
  BY IdleCallTyped DEF Init
<1>5. InForce
  BY <1>2, <1>3 DEF InForce
<1>6. Stage(call[c])
  BY <1>4, <1>5, IdleCallTyped DEF Stage
<1> QED
  BY <1>1, <1>2, <1>3, <1>4, <1>6 DEF Init, ScheduleInv, ScheduleType

LEMMA ScheduleAlways == ASSUME NEW c, Callers = {c} PROVE Spec => []ScheduleInv(c)
<1>1. Init => ScheduleInv(c)
  BY ScheduleInitially
<1>2. ScheduleInv(c) /\ [Next]_vars => ScheduleInv(c)'
  BY ScheduleStep
<1> QED
  BY <1>1, <1>2, PTL DEF Spec

\* OneRunner (scheduler.go:81-83) for a host that makes one change at a time,
\* whatever tasks are running meanwhile.
THEOREM SerialChangesOneRunner == ChangesSerial => (Spec => []OneRunner)
<1> SUFFICES ASSUME NEW c, Callers = {c} PROVE Spec => []OneRunner
  BY DEF ChangesSerial
<1>1. ScheduleInv(c) => OneRunner
  <2> SUFFICES ASSUME ScheduleInv(c) PROVE OneRunner
    OBVIOUS
  <2>1. call[c].pc \in CallPCs
    BY DEF ScheduleInv, ScheduleType, ChangeCall
  <2>2. NoneActive \/ \E q : OnlyActive(q)
    BY <2>1 DEF ScheduleInv, Stage, InForce, CallPCs
  <2> QED
    BY <2>2 DEF OneRunner, NoneActive, OnlyActive
<1> QED
  BY <1>1, ScheduleAlways, PTL

\* ScheduleInForce (scheduler.go:81-83, README.md:419), for the same host.
THEOREM SerialChangesInForce == ChangesSerial => (Spec => []ScheduleInForce)
<1> SUFFICES ASSUME NEW c, Callers = {c} PROVE Spec => []ScheduleInForce
  BY DEF ChangesSerial
<1>1. ScheduleInv(c) => ScheduleInForce
  <2> SUFFICES ASSUME ScheduleInv(c), call[c].pc \in {"idle", "edit"}
               PROVE IF quiesced \/ ~Scheduled(config) THEN \A r \in RunnerIds : ~Active(r)
                     ELSE \E r \in RunnerIds : /\ Active(r) /\ installed = r
                                               /\ runners[r].enabled = config.enabled
    BY DEF ScheduleInForce
  <2>1. InForce /\ quiesced \in BOOLEAN
    BY DEF ScheduleInv, Stage, ScheduleType
  <2> QED
    BY <2>1 DEF InForce, NoneActive
<1> QED
  BY <1>1, ScheduleAlways, PTL

=============================================================================
