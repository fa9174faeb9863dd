---------------------------- MODULE CronScheduler ----------------------------
(***************************************************************************)
(* The plugin's own cron (scheduler.go), restarted by plugin.register,     *)
(* plugin.reconfigure and POST /schedule/config and stopped by             *)
(* plugin.quiesce, and the runs of its tasks, started by the cron runner   *)
(* or by POST /schedule/run.                                               *)
(*                                                                         *)
(* A configuration is [on, listed, enabled]: Schedule.Enabled, the tasks,  *)
(* and those whose own flag is set.  A cron.Cron that was never started    *)
(* ignores Stop.                                                           *)
(* What a task shows is [known, result, error]: result is "", the "ok"     *)
(* that record fills in, or what the task "told" of itself.                *)
(***************************************************************************)
EXTENDS Integers, FiniteSets

CONSTANTS Callers,    \* calls that change the schedule, in progress at once
          Tasks,      \* task ids
          Listings,   \* the lists of tasks configured over time
          Runs,       \* task runs in progress at once
          Kind,       \* [Tasks -> {"renewal", "http", "checkin"}]; quotas are renewals too
          MaxRunners  \* bound: runners ever built

ASSUME SchedulerAssumption ==
  /\ MaxRunners \in Nat
  /\ Tasks # {} /\ {{}, Tasks} \subseteq Listings /\ Listings \subseteq SUBSET Tasks
  /\ Kind \in [Tasks -> {"renewal", "http", "checkin"}]

VARIABLES config,    \* currentConfig, its schedule
          runners,   \* every cron.Cron built
          installed, \* scheduler.runner, 0 for nil
          call,      \* each schedule change in progress
          quiesced,  \* the last change made was a quiesce
          running,   \* scheduler.running
          run,       \* the runTask goroutines
          shown,     \* scheduler.states: what a task's last run came to
          ended      \* what it came to, a history

schedule == <<config, runners, installed, call, quiesced>>
tasks == <<running, run>>
outcomes == <<shown, ended>>
vars == <<schedule, tasks, outcomes>>

Configs ==
  {k \in [on : BOOLEAN, listed : Listings, enabled : SUBSET Tasks] : k.enabled \subseteq k.listed}
NoSchedule == [on |-> FALSE, listed |-> {}, enabled |-> {}]
RunnerIds == 1..MaxRunners
NoRunner == [state |-> "unbuilt", enabled |-> {}]
IdleCall == [pc |-> "idle", config |-> NoSchedule, runner |-> 0, quiesce |-> FALSE]
IdleRun == [pc |-> "idle", task |-> CHOOSE t \in Tasks : TRUE]
Unknown == [known |-> FALSE, result |-> "", error |-> FALSE]

Init ==
  /\ config = [NoSchedule EXCEPT !.listed = Tasks, !.enabled = Tasks]
  /\ runners = [r \in RunnerIds |-> NoRunner]
  /\ installed = 0
  /\ call = [c \in Callers |-> IdleCall]
  /\ quiesced = FALSE
  /\ running = [t \in Tasks |-> FALSE]
  /\ run = [x \in Runs |-> IdleRun]
  /\ shown = [t \in Tasks |-> Unknown]
  /\ ended = [t \in Tasks |-> "none"]

-----------------------------------------------------------------------------
(***************************************************************************)
(* Changing the schedule.                                                  *)
(***************************************************************************)

\* register and reconfigure store what the host sent.
Reconfigure(c, new) ==
  /\ call[c].pc = "idle"
  /\ config' = new
  /\ call' = [call EXCEPT ![c] = [IdleCall EXCEPT !.pc = "stop", !.config = new]]
  /\ UNCHANGED <<runners, installed, quiesced, tasks, outcomes>>

\* handleScheduleConfig copies the configuration, sets the flags it was asked to
\* set on tasks that are listed, and stores the copy.
EditRead(c) ==
  /\ call[c].pc = "idle"
  /\ call' = [call EXCEPT ![c] = [IdleCall EXCEPT !.pc = "edit", !.config = config]]
  /\ UNCHANGED <<config, runners, installed, quiesced, tasks, outcomes>>

EditStore(c, on, enabled) ==
  LET new == [call[c].config EXCEPT !.on = on, !.enabled = enabled]
  IN /\ call[c].pc = "edit" /\ enabled \subseteq call[c].config.listed
     /\ config' = new
     /\ call' = [call EXCEPT ![c].pc = "stop", ![c].config = new]
     /\ UNCHANGED <<runners, installed, quiesced, tasks, outcomes>>

Quiesce(c) ==
  /\ call[c].pc = "idle"
  /\ call' = [call EXCEPT ![c] = [IdleCall EXCEPT !.pc = "stop", !.quiesce = TRUE]]
  /\ UNCHANGED <<config, runners, installed, quiesced, tasks, outcomes>>

\* Scheduler.stop, under the lock: the runner is taken out ...
StopTake(c) ==
  /\ call[c].pc = "stop"
  /\ installed' = 0
  /\ call' = [call EXCEPT ![c].pc = "halt", ![c].runner = installed]
  /\ UNCHANGED <<config, runners, quiesced, tasks, outcomes>>

MutHalted(r) == runners

\* cron.Cron.Stop has no effect on a runner that is not running.
Halted(r) ==
  IF r # 0 /\ runners[r].state = "running"
  THEN [runners EXCEPT ![r] = [state |-> "stopped", enabled |-> {}]]
  ELSE runners

\* A schedule that is on and lists no task is not started.
Scheduled(k) == k.on /\ k.listed # {}

\* ... and, outside it, stopped.
StopHalt(c) ==
  /\ call[c].pc = "halt"
  /\ runners' = Halted(call[c].runner)
  /\ IF Scheduled(call[c].config)
     THEN /\ call' = [call EXCEPT ![c].pc = "install", ![c].runner = 0]
          /\ UNCHANGED quiesced
     ELSE /\ call' = [call EXCEPT ![c] = IdleCall]
          /\ quiesced' = call[c].quiesce
  /\ UNCHANGED <<config, installed, tasks, outcomes>>

Unbuilt(r) == r \in RunnerIds /\ runners[r].state = "unbuilt"

MutScheduledTasks(schedulable) == Tasks

\* The entries a configuration gives its runner.
ScheduledTasks(schedulable) == schedulable.enabled

\* A new runner with the enabled tasks, installed under the lock.
Install(c) ==
  /\ call[c].pc = "install"
  /\ \E r \in RunnerIds :
       /\ Unbuilt(r) /\ \A q \in RunnerIds : q < r => ~Unbuilt(q)
       /\ runners' = [runners EXCEPT ![r] = [state |-> "built",
                                             enabled |-> ScheduledTasks(call[c].config)]]
       /\ installed' = r
       /\ call' = [call EXCEPT ![c].pc = "start", ![c].runner = r]
  /\ shown' = [t \in Tasks |-> IF t \in ScheduledTasks(call[c].config)
                               THEN [shown[t] EXCEPT !.known = TRUE] ELSE shown[t]]
  /\ UNCHANGED <<config, quiesced, tasks, ended>>

\* runner.Start comes after the unlock.
Start(c) ==
  /\ call[c].pc = "start"
  /\ runners' = [runners EXCEPT ![call[c].runner].state = "running"]
  /\ call' = [call EXCEPT ![c] = IdleCall]
  /\ quiesced' = FALSE
  /\ UNCHANGED <<config, installed, tasks, outcomes>>

-----------------------------------------------------------------------------
(***************************************************************************)
(* Running a task.                                                         *)
(***************************************************************************)

Spawn(x, t) ==
  /\ run[x].pc = "idle"
  /\ run' = [run EXCEPT ![x] = [pc |-> "spawned", task |-> t]]
  /\ UNCHANGED <<schedule, running, outcomes>>

CronTick(x, r, t) ==
  /\ runners[r].state = "running" /\ t \in runners[r].enabled
  /\ Spawn(x, t)

\* Any configured task can be triggered, enabled or not.
TriggerTask(x, t) == t \in config.listed /\ Spawn(x, t)

MutMayRun(t) == TRUE

\* setRunning(id, true)
MayRun(t) == ~running[t]

RunBegin(x) ==
  LET t == run[x].task
  IN /\ run[x].pc = "spawned" /\ MayRun(t)
     /\ running' = [running EXCEPT ![t] = TRUE]
     /\ run' = [run EXCEPT ![x].pc = "executing"]
     /\ UNCHANGED <<schedule, outcomes>>

RunSkip(x) ==
  /\ run[x].pc = "spawned" /\ ~MayRun(run[x].task)
  /\ run' = [run EXCEPT ![x] = IdleRun]
  /\ UNCHANGED <<schedule, running, outcomes>>

\* An http task tells its result in an entry that is there, a check-in makes one.
HasPlace(t) == Kind[t] = "checkin" \/ shown[t].known

\* The request of an http or check-in task succeeded, and the task says how.
RunTells(x) ==
  LET t == run[x].task
  IN /\ run[x].pc = "executing" /\ Kind[t] # "renewal"
     /\ run' = [run EXCEPT ![x].pc = IF HasPlace(t) THEN "told" ELSE "untold"]
     /\ shown' = IF HasPlace(t)
                 THEN [shown EXCEPT ![t].known = TRUE, ![t].result = "told"] ELSE shown
     /\ UNCHANGED <<schedule, running, ended>>

MutRecorded(state, failed) ==
  [known |-> TRUE, error |-> failed,
   result |-> IF ~failed /\ state.result = "" THEN "ok" ELSE state.result]

Recorded(state, failed) ==
  [known |-> TRUE, error |-> failed,
   result |-> IF failed THEN "" ELSE IF state.result = "" THEN "ok" ELSE state.result]

\* executeTask returned, with or without an error.
RunRecord(x, failed) ==
  LET t == run[x].task
  IN /\ run[x].pc \in IF failed \/ Kind[t] = "renewal" THEN {"executing"} ELSE {"told", "untold"}
     /\ shown' = [shown EXCEPT ![t] = Recorded(@, failed)]
     /\ ended' = [ended EXCEPT ![t] = IF failed THEN "failed"
                                      ELSE IF run[x].pc = "told" THEN "told" ELSE "ok"]
     /\ run' = [run EXCEPT ![x].pc = "recorded"]
     /\ UNCHANGED <<schedule, running>>

MutReleased(t) == running

Released(t) == [running EXCEPT ![t] = FALSE]

\* The deferred setRunning(id, false).
RunRelease(x) ==
  /\ run[x].pc = "recorded"
  /\ running' = Released(run[x].task)
  /\ run' = [run EXCEPT ![x] = IdleRun]
  /\ UNCHANGED <<schedule, outcomes>>

-----------------------------------------------------------------------------

Change(c) ==
  \/ \E new \in Configs : Reconfigure(c, new)
  \/ EditRead(c) \/ \E on \in BOOLEAN, enabled \in SUBSET Tasks : EditStore(c, on, enabled)
  \/ Quiesce(c) \/ StopTake(c) \/ StopHalt(c) \/ Install(c) \/ Start(c)
RunStep(x) ==
  \/ RunBegin(x) \/ RunSkip(x) \/ RunTells(x)
  \/ \E failed \in BOOLEAN : RunRecord(x, failed)
  \/ RunRelease(x)

\* The bound on runners stops a change that needs one more.
RunnersExhausted ==
  /\ \A r \in RunnerIds : ~Unbuilt(r)
  /\ \E c \in Callers : call[c].pc = "install"
  /\ UNCHANGED vars

Next ==
  \/ \E c \in Callers : Change(c)
  \/ \E x \in Runs, r \in RunnerIds, t \in Tasks : CronTick(x, r, t)
  \/ \E x \in Runs, t \in Tasks : TriggerTask(x, t)
  \/ \E x \in Runs : RunStep(x)
  \/ RunnersExhausted

Spec == Init /\ [][Next]_vars

\* A goroutine that was started runs; the host call inside a task returns.
FairSpec == Spec /\ \A x \in Runs : WF_vars(RunStep(x))

-----------------------------------------------------------------------------

Active(r) == runners[r].state = "running"

\* scheduler.go:81-83: applying a schedule stops the runner before it.
OneRunner == \A r, q \in RunnerIds : Active(r) /\ Active(q) => r = q

\* scheduler.go:81-83, README.md:419: between changes the runner that fires is
\* the one of the current configuration, and none fires when the schedule is off,
\* lists no task or the plugin was quiesced.
ScheduleInForce ==
  (\A c \in Callers : call[c].pc \in {"idle", "edit"}) =>
    IF quiesced \/ ~Scheduled(config) THEN \A r \in RunnerIds : ~Active(r)
    ELSE \E r \in RunnerIds : /\ Active(r) /\ installed = r
                              /\ runners[r].enabled = config.enabled

Executing(x) == run[x].pc \in {"executing", "told", "untold", "recorded"}

\* scheduler.go:69, 239-240: a task never overlaps itself, whatever started its
\* runs, across reconfigurations too.
NoOverlap ==
  \A x, y \in Runs : Executing(x) /\ Executing(y) /\ run[x].task = run[y].task => x = y

\* scheduler.go:229-231, README.md:442: what the panel shows of a task that is
\* not running is how its last run ended, a result of its own above the
\* placeholder, and never a result beside an error - through skipped and failed
\* runs, and through schedules that drop and take up the task.
LastOutcomeShown ==
  \A t \in Tasks :
    (\A x \in Runs : Executing(x) => run[x].task # t) =>
      /\ shown[t].error <=> ended[t] = "failed"
      /\ shown[t].result = (IF ended[t] \in {"none", "failed"} THEN "" ELSE ended[t])

\* scheduler.go:252-257: the overlap guard always opens again, so no task is
\* skipped for ever.
GuardReopens == \A t \in Tasks : running[t] ~> ~running[t]

=============================================================================
