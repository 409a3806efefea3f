------------------------------ MODULE AgentDev -----------------------------
(***************************************************************************)
(* The agent_dev workflow: the runner (Engine of internal/workflow), the   *)
(* agents that work and report (tmact workflow report / plan-report), and  *)
(* an operator (pause, resume, stop, acknowledge, retry).  They share      *)
(* state.json, dispatches.jsonl and reports.jsonl.                         *)
(*                                                                         *)
(* Store.Update is one step.  Store.Write refuses a state that has changed *)
(* since it was read, and the runner then starts its tick over; a tick     *)
(* whose write succeeds is therefore one step too, except where the code   *)
(* goes on after a refused write (TickStops).  One stage; usage limits     *)
(* (quota waits), revisions and the workspace lease are left out.          *)
(***************************************************************************)
EXTENDS AgentDevState, FiniteSets

CONSTANTS
    Launched,         \* roles whose actor is launched through dispatch
    PlanSizes,        \* how many items an agent plans at once
    Outcomes,         \* what agents report, among AllOutcomes
    Commands,         \* operator commands of this instance
    Faults,           \* what can go wrong, among AllFaults
    MaxOps,           \* bound: operator commands
    MaxFaults,        \* bound: faults
    MaxStarts         \* bound: runner processes

Roles == {"coordinator", "implementer", "reviewer"}
AllOutcomes == {"planned", "done", "complete", "approve", "request_changes",
                "blocked"}
AllCommands == {"pause", "resume", "stop", "acknowledge", "retry"}
AllFaults == {"kill", "interrupt", "send", "prompt", "pane", "worktree",
              "reporter"}

ASSUME AgentDevAssumption ==
    /\ Launched \subseteq Roles
    /\ PlanSizes \subseteq 1..MaxItems
    /\ Outcomes \subseteq AllOutcomes /\ Commands \subseteq AllCommands
    /\ Faults \subseteq AllFaults
    /\ MaxOps \in Nat /\ MaxFaults \in Nat /\ MaxStarts \in Nat

VARIABLES
    desired, status,  \* state.json: the run
    stage, err,       \*   the stage's status, and the class of its error
    dev,              \*   its AgentDevState
    log,              \* dispatches.jsonl: turn -> last record
    reports,          \* reports.jsonl: the turns that have a report
    commits,          \* the workspace
    pc, turn, base,   \* the runner: where it is, the turn it sends, its head
    raced,            \*   state.json changed since the stopping tick read it
    agent,            \* role -> what its agent is at
    op,               \* the operator's command under way
    ops, faults, starts,    \* counted against their bounds
    open,             \* turns handed to an agent and not settled
    quiet,            \* a stop was reported and no resume came since
    rescheduled       \* a retry has not led to a prompt yet

stateVars == <<desired, status, stage, err, dev>>
runnerVars == <<pc, turn, base, raced>>
bounds == <<ops, faults, starts>>
history == <<open, quiet, rescheduled>>
vars == <<stateVars, log, reports, commits, runnerVars, agent, op, bounds,
          history>>

NoWork == [at |-> "none"]
StopStates == {"stopped", "failed", "blocked", "succeeded"}

Init ==
    /\ desired = "running" /\ status = "running"
    /\ stage = "pending" /\ err = "none" /\ dev = NoDev
    /\ log = << >> /\ reports = {} /\ commits = << >>
    /\ pc = "dead" /\ turn = NoTurn /\ base = 0 /\ raced = FALSE
    /\ agent = [r \in Roles |-> NoWork]
    /\ op = "none" /\ ops = 0 /\ faults = 0 /\ starts = 0
    /\ open = {} /\ quiet = FALSE /\ rescheduled = FALSE

LastStatus(t) == IF t \in DOMAIN log THEN log[t].status ELSE "none"

\* A process other than the runner has written state.json.
Touched == raced' = (pc = "stopping")
Fault(f) == f \in Faults /\ faults < MaxFaults /\ faults' = faults + 1
NoFault == UNCHANGED faults

Block(e) == stage' = "blocked" /\ err' = e /\ status' = "needs_user"

-----------------------------------------------------------------------------
(* The runner: starting *)


\* NewEngine: what a runner that died left behind.  A turn that may have been
\* typed is left for the user; one that was not is given back; a stage without
\* a turn starts over.
Recover ==
    /\ pc = "dead" /\ starts < MaxStarts
    /\ starts' = starts + 1 /\ pc' = "new"
    /\ \/ /\ stage = "running" /\ dev.cur # NoTurn
          /\ LastStatus(dev.cur) = "sending"
          /\ Block("other") /\ UNCHANGED dev
       \/ /\ stage = "running" /\ dev.cur # NoTurn
          /\ LastStatus(dev.cur) \in {"none", "failed"}
          /\ dev' = ClearTurn(ResetActive(dev)) /\ UNCHANGED <<status, stage, err>>
       \/ /\ stage = "running" /\ dev.cur = NoTurn
          /\ stage' = "pending" /\ UNCHANGED <<status, err, dev>>
       \/ /\ stage = "running" => LastStatus(dev.cur) = "sent"
          /\ UNCHANGED <<status, stage, err, dev>>
    /\ UNCHANGED <<desired, log, reports, commits, turn, base, raced, agent, op,
                   ops, faults, history>>

\* Run takes the runner lock that NewEngine released in between.
TakeLock ==
    /\ pc = "new" /\ pc' = "idle"
    /\ UNCHANGED <<stateVars, log, reports, commits, turn, base, raced, agent,
                   op, bounds, history>>

-----------------------------------------------------------------------------
(* The runner: ticks *)

\* As TickStops, if a run that needs the user were left alone.
TickStopsUnlessBlocked ==
    /\ pc = "idle" /\ desired = "stopped" /\ status # "needs_user"
    /\ pc' = "stopping" /\ raced' = FALSE
    /\ UNCHANGED <<stateVars, log, reports, commits, turn, base, agent, op,
                   bounds, history>>

\* A stop request: the write may be refused, the runner ends all the same.
TickStops ==
    /\ pc = "idle" /\ desired = "stopped"
    /\ pc' = "stopping" /\ raced' = FALSE
    /\ UNCHANGED <<stateVars, log, reports, commits, turn, base, agent, op,
                   bounds, history>>
TickStopped ==
    /\ pc = "stopping"
    /\ status' = IF raced THEN status ELSE "stopped"
    /\ pc' = "dead" /\ raced' = FALSE
    /\ UNCHANGED <<desired, stage, err, dev, log, reports, commits, turn, base,
                   agent, op, bounds, history>>

TickPaused ==
    /\ pc = "idle" /\ desired = "paused"
    /\ status' = "paused"
    /\ UNCHANGED <<desired, stage, err, dev, log, reports, commits, runnerVars,
                   agent, op, bounds, history>>

\* While the run needs the user a tick changes nothing.  Otherwise a paused or
\* stopped run is running again.
Proceeds == pc = "idle" /\ desired = "running" /\ status # "needs_user"
RunStatus == IF status \in {"paused", "stopped"} THEN "running" ELSE status

\* updateRunStatus, when the stage has ended.
TickEnds ==
    /\ Proceeds /\ stage \in {"succeeded", "blocked"}
    /\ status' = stage /\ pc' = "dead"
    /\ UNCHANGED <<desired, stage, err, dev, log, reports, commits, turn, base,
                   raced, agent, op, bounds, history>>

\* dispatchNextAgentDev up to its write: a pending stage begins anew.
DevToRun == IF stage = "pending" THEN NewDev ELSE dev
DispatchDue ==
    /\ Proceeds
    /\ \/ stage = "pending"
       \/ stage = "running" /\ dev.cur = NoTurn

\* inspectWorkItemStart: an implementer or reviewer needs an unticked box.
BoxReady(task) == task.role = "coordinator" \/ Unticked(commits, task.box)

TickDispatch ==
    /\ DispatchDue
    /\ LET task == NextTask(DevToRun) IN
       /\ task # NoTask /\ BoxReady(task)
       /\ LET begun == Begin(DevToRun, task) IN
          /\ dev' = WithTurn(begun, TurnOf(begun, task))
          /\ turn' = TurnOf(begun, task)
    /\ base' = Len(commits) /\ pc' = "send"
    /\ status' = RunStatus /\ stage' = "running" /\ err' = "none"
    /\ UNCHANGED <<desired, log, reports, commits, raced, agent, op, bounds,
                   history>>

\* The worktree is not clean, or the box is ticked: the item stays active.
TickNotReady ==
    /\ DispatchDue
    /\ LET task == NextTask(DevToRun) IN
       /\ task # NoTask
       /\ \/ BoxReady(task) /\ Fault("worktree")
          \/ ~BoxReady(task) /\ NoFault
       /\ dev' = Begin(DevToRun, task)
    /\ Block("other")
    /\ UNCHANGED <<desired, log, reports, commits, runnerVars, agent, op, ops,
                   starts, history>>

\* "cannot determine next action": Run returns the error.
TickUndetermined ==
    /\ DispatchDue /\ NextTask(DevToRun) = NoTask
    /\ pc' = "dead"
    /\ UNCHANGED <<stateVars, log, reports, commits, turn, base, raced, agent,
                   op, bounds, history>>

\* Waiting for a report; nothing to see.
Waits == Proceeds /\ stage = "running" /\ dev.cur # NoTurn
TickWaits ==
    /\ Waits /\ status # RunStatus
    /\ status' = RunStatus
    /\ UNCHANGED <<desired, stage, err, dev, log, reports, commits, runnerVars,
                   agent, op, bounds, history>>

\* A prompt on the agent's pane, a pane that is gone, a turn that timed out.
TickSeesTrouble ==
    /\ Waits /\ LastStatus(dev.cur) = "sent"
    /\ \/ Fault("prompt") /\ Block("prompt")
       \/ Fault("pane") /\ Block("other")
    /\ UNCHANGED <<desired, dev, log, reports, commits, runnerVars, agent, op,
                   ops, starts, history>>

-----------------------------------------------------------------------------
(* The runner: sendAgentDevDispatch *)

Role == turn.task.role
Recorded(t, s, b) ==
    log' = [u \in DOMAIN log \cup {t} |->
               IF u = t THEN [status |-> s, base |-> b] ELSE log[u]]
\* An agent that is in the middle of a report is not idle: a send is deferred
\* until it is (each deferral that reaches the state is a "send" fault).
Busy(r) == agent[r].at \in {"checked", "appended"}

\* A turn that was or may have been typed is not typed again.
AlreadySent == LastStatus(turn) \in {"sending", "sent"}
SendKnown ==
    /\ pc = "send" /\ AlreadySent
    /\ pc' = "idle"
    /\ UNCHANGED <<stateVars, log, reports, commits, turn, base, raced, agent,
                   op, bounds, history>>

\* A launched actor is started by dispatch, which looks at the pane itself; a
\* named pane is looked at here (preflightAgent).
SendStarts ==
    /\ pc = "send" /\ ~AlreadySent /\ ~Busy(Role)
    /\ IF Role \in Launched
       THEN \/ desired = "stopped" /\ pc' = "fail_other" /\ UNCHANGED log
            \/ /\ desired # "stopped" /\ pc' = "launch"
               /\ Recorded(turn, "sending", base)
       ELSE pc' = "clear" /\ Recorded(turn, "sending", base)
    /\ UNCHANGED <<stateVars, reports, commits, turn, base, raced, agent, op,
                   bounds, history>>
PreflightFails ==
    /\ pc = "send" /\ ~AlreadySent /\ Role \notin Launched
    /\ Fault("send")
    /\ pc' \in {"fail_prompt", "fail_other", "fail_deferred"}
    /\ UNCHANGED <<stateVars, log, reports, commits, turn, base, raced, agent,
                   op, ops, starts, history>>

\* The agent's pane gets the prompt.
Prompted ==
    agent' = [agent EXCEPT ![Role] = [at |-> "prompted", turn |-> turn]]
HandsOut == open' = IF dev.cur = turn THEN open \cup {turn} ELSE open

\* dispatch.Run, one step: it types the prompt, refuses, or fails once it has
\* typed ("send prompt: ...", an error that says prompt).
Launch ==
    /\ pc = "launch" /\ ~Busy(Role)
    /\ Prompted /\ HandsOut /\ rescheduled' = FALSE
    /\ pc' = "typed"
    /\ UNCHANGED <<stateVars, log, reports, commits, turn, base, raced, op,
                   bounds, quiet>>
LaunchFails ==
    /\ pc = "launch" /\ Fault("send")
    /\ \/ pc' \in {"fail_prompt", "fail_other", "fail_deferred"} /\ UNCHANGED agent
       \/ pc' = "fail_prompt" /\ ~Busy(Role) /\ Prompted
    /\ Recorded(turn, "failed", base)
    /\ UNCHANGED <<stateVars, reports, commits, turn, base, raced, op, ops,
                   starts, history>>

\* A named pane: /clear, two seconds, a look for a stop request, the prompt.
Clear ==
    /\ pc = "clear"
    /\ \/ pc' = "cleared" /\ NoFault
       \/ pc' = "fail_other" /\ Fault("send")
    /\ UNCHANGED <<stateVars, log, reports, commits, turn, base, raced, agent,
                   op, ops, starts, history>>
Cleared ==
    /\ pc = "cleared"
    /\ pc' = IF desired = "stopped" THEN "fail_other" ELSE "type"
    /\ UNCHANGED <<stateVars, log, reports, commits, turn, base, raced, agent,
                   op, bounds, history>>
TypePrompt ==
    /\ pc = "type" /\ ~Busy(Role)
    /\ Prompted /\ HandsOut /\ rescheduled' = FALSE
    /\ pc' = "typed"
    /\ UNCHANGED <<stateVars, log, reports, commits, turn, base, raced, op,
                   bounds, quiet>>
TypeFails ==
    /\ pc = "type" /\ Fault("send")
    /\ \/ ~Busy(Role) /\ Prompted
       \/ UNCHANGED agent
    /\ pc' = "fail_other"
    /\ UNCHANGED <<stateVars, log, reports, commits, turn, base, raced, op, ops,
                   starts, history>>

RecordSent ==
    /\ pc = "typed"
    /\ Recorded(turn, "sent", base) /\ pc' = "idle"
    /\ UNCHANGED <<stateVars, reports, commits, turn, base, raced, agent, op,
                   bounds, history>>

\* The Update after a send that failed: a deferred item is given back, any
\* other failure only clears the turn and needs the user.
SendFailed ==
    /\ pc \in {"fail_prompt", "fail_other", "fail_deferred"}
    /\ dev' = IF dev.cur # turn THEN dev
              ELSE ClearTurn(IF pc = "fail_deferred" THEN ResetActive(dev) ELSE dev)
    /\ IF pc = "fail_deferred" THEN err' = "other" /\ UNCHANGED <<status, stage>>
       ELSE Block(IF pc = "fail_prompt" THEN "prompt" ELSE "other")
    /\ pc' = "idle"
    /\ UNCHANGED <<desired, log, reports, commits, turn, base, raced, agent, op,
                   bounds, history>>

\* Killed at any step, or interrupted between two ticks.
RunnerKilled ==
    /\ pc # "dead" /\ Fault("kill")
    /\ pc' = "dead" /\ raced' = FALSE
    /\ UNCHANGED <<stateVars, log, reports, commits, turn, base, agent, op, ops,
                   starts, history>>
RunnerInterrupted ==
    /\ pc = "idle" /\ Fault("interrupt")
    /\ status' = "stopped" /\ pc' = "dead"
    /\ UNCHANGED <<desired, stage, err, dev, log, reports, commits, turn, base,
                   raced, agent, op, ops, starts, history>>

-----------------------------------------------------------------------------
(* The agents: work, then report *)

AgentAt(r, p) == agent[r].at = p
Holds(r) == agent[r].turn
Forget(r) == agent' = [agent EXCEPT ![r] = NoWork]
Done(r, out, boxes, keys) ==
    agent' = [agent EXCEPT ![r] = [at |-> "done", turn |-> Holds(r),
                                   outcome |-> out, boxes |-> boxes,
                                   keys |-> keys]]
Commit(adds, ticks) ==
    /\ Len(commits) < MaxCommits
    /\ commits' = Append(commits, [adds |-> adds, ticks |-> ticks])

PhasesPlanned == {b[1] : b \in AddedBoxes(commits)}
NextItem(p) == Cardinality({b \in AddedBoxes(commits) : b[1] = p})

\* A coordinator plans a phase or a fix under names that are not in the queue
\* file, or finds that nothing is left to do.
Plans(r) ==
    /\ r = "coordinator" /\ AgentAt(r, "prompted")
    /\ \/ /\ "done" \in Outcomes
          /\ Done(r, "done", << >>, "none") /\ UNCHANGED commits
       \/ /\ "planned" \in Outcomes
          /\ \E k \in PlanSizes :
               LET fix == Holds(r).task.round > 0
                   p == IF fix THEN Holds(r).task.box[1]
                               ELSE Cardinality(PhasesPlanned) + 1
                   first == IF fix THEN NextItem(p) ELSE 1
                   boxes == [i \in 1..k |-> <<p, first + i - 1>>]
               IN /\ Commit({boxes[i] : i \in 1..k}
                              \cup (IF fix THEN {} ELSE {<<p, 0>>}), {})
                  /\ Done(r, "planned", boxes, "none")
    /\ UNCHANGED <<stateVars, log, reports, runnerVars, op, bounds, history>>

\* An implementer or reviewer works, ticks its box or does not, and reports
\* what it likes.
Works(r) ==
    /\ r \in {"implementer", "reviewer"} /\ AgentAt(r, "prompted")
    /\ \E out \in Outcomes \cap (IF r = "implementer" THEN {"complete", "blocked"}
                                 ELSE {"approve", "request_changes", "blocked"}) :
         \E keys \in IF out = "request_changes" THEN FindingKeys ELSE {"none"} :
             Done(r, out, << >>, keys)
    /\ \/ Unticked(commits, Holds(r).task.box) /\ Commit({}, {Holds(r).task.box})
       \/ UNCHANGED commits
    /\ UNCHANGED <<stateVars, log, reports, runnerVars, op, bounds, history>>

\* What a report is checked against: nothing it may change holds the lock.
PlanFits(d, boxes) ==
    IF d.status = "fix_planning"
    THEN /\ LastPhase(d).id = boxes[1][1]
         /\ Len(LastPhase(d).items) + Len(boxes) <= MaxItems
    ELSE Len(d.phases) < MaxPhases

Verified(r) ==
    LET a == agent[r]
        head == log[Holds(r)].base IN
    CASE a.outcome = "done" ->
           MayFinish(dev) /\ UnchangedSince(commits, head)
      [] a.outcome = "planned" ->
           PlanFits(dev, a.boxes) /\ PlanCommitted(commits, head, a.boxes)
      [] a.outcome \in {"complete", "approve"} ->
           ItemCommitted(commits, head, Holds(r).task.box)
      [] OTHER -> UnchangedSince(commits, head)

ActiveTurn(t) ==
    /\ desired # "stopped" /\ status # "stopped"
    /\ stage = "running" /\ dev.cur = t

\* A turn that has a report gets that report back; a report that is refused
\* ends the agent's turn.
ReportChecks(r) ==
    /\ AgentAt(r, "done")
    /\ IF Holds(r) \notin reports /\ ActiveTurn(Holds(r)) /\ Verified(r)
       THEN agent' = [agent EXCEPT ![r].at = "checked"]
       ELSE Forget(r)
    /\ UNCHANGED <<stateVars, log, reports, commits, runnerVars, op, bounds,
                   history>>
ReportAppends(r) ==
    /\ AgentAt(r, "checked")
    /\ reports' = reports \cup {Holds(r)}
    /\ agent' = [agent EXCEPT ![r].at = "appended"]
    /\ UNCHANGED <<stateVars, log, commits, runnerVars, op, bounds, history>>

\* The Update: the turn must still be the current one.  A blocked report's text
\* becomes the stage's error, whatever words it has.
StillCurrent(t) == dev.cur = t
Applied(r) ==
    LET a == agent[r]
        box == Holds(r).task.box
        d == CASE a.outcome = "done" -> ApplyDone(dev)
               [] a.outcome = "planned" -> ApplyPlan(dev, a.boxes)
               [] a.outcome = "complete" -> SetItem(dev, box, "complete", 0)
               [] a.outcome = "approve" -> ApplyApprove(dev)
               [] a.outcome = "request_changes" -> ApplyChanges(dev, a.keys)
               [] a.outcome = "blocked" /\ r = "implementer" ->
                    SetItem(dev, box, "blocked", 0)
               [] OTHER -> SetReview(dev, "blocked", 0)
    IN /\ dev' = ClearTurn(d)
       /\ CASE a.outcome = "done" ->
                 /\ stage' = "succeeded" /\ err' = "none" /\ status' = "running"
            [] a.outcome = "planned" ->
                 /\ err' = "none" /\ status' = "running" /\ UNCHANGED stage
            [] a.outcome = "blocked" -> \E e \in {"prompt", "other"} : Block(e)
            [] a.outcome = "request_changes" /\ NoProgress(d) -> Block("other")
            [] OTHER -> UNCHANGED <<status, stage, err>>
ReportApplies(r) ==
    /\ AgentAt(r, "appended")
    /\ \/ /\ ~StillCurrent(Holds(r))
          /\ UNCHANGED <<status, stage, err, dev, raced, open>>
       \/ /\ StillCurrent(Holds(r))
          /\ Applied(r) /\ Touched /\ open' = open \ {Holds(r)}
    /\ Forget(r)
    /\ UNCHANGED <<desired, log, reports, commits, pc, turn, base, op, bounds,
                   quiet, rescheduled>>

\* The report command is killed; the agent runs it again.
ReporterKilled(r) ==
    /\ Busy(r) /\ Fault("reporter")
    /\ agent' = [agent EXCEPT ![r].at = "done"]
    /\ UNCHANGED <<stateVars, log, reports, commits, runnerVars, op, ops, starts,
                   history>>

-----------------------------------------------------------------------------
(* The operator *)

Command(c) == op = "none" /\ c \in Commands /\ ops < MaxOps /\ ops' = ops + 1

Pause ==
    /\ Command("pause")
    /\ desired' = "paused" /\ Touched
    /\ UNCHANGED <<status, stage, err, dev, log, reports, commits, pc, turn,
                   base, agent, op, faults, starts, history>>

\* A stage blocked on a prompt goes on with its turn, or starts over.
Resume ==
    /\ Command("resume")
    /\ desired' = "running" /\ status' = "running" /\ Touched
    /\ IF stage = "blocked" /\ err = "prompt"
       THEN /\ stage' = IF dev.cur # NoTurn THEN "running" ELSE "pending"
            /\ err' = "none"
       ELSE UNCHANGED <<stage, err>>
    /\ quiet' = FALSE
    /\ UNCHANGED <<dev, log, reports, commits, pc, turn, base, agent, op, faults,
                   starts, open, rescheduled>>

\* workflow stop --wait: the request, a try for the runner lock, and then
\* either the verdict itself or a wait for a final status.
RunnerTicking == pc \in {"idle", "stopping"}   \* if a send were not covered
RunnerActive == pc \notin {"dead", "new"}
StopRequest ==
    /\ Command("stop")
    /\ desired' = "stopped" /\ Touched /\ op' = "probe"
    /\ UNCHANGED <<status, stage, err, dev, log, reports, commits, pc, turn,
                   base, agent, faults, starts, history>>
StopProbe ==
    /\ op = "probe"
    /\ op' = IF RunnerActive THEN "wait" ELSE "inactive"
    /\ UNCHANGED <<stateVars, log, reports, commits, runnerVars, agent, bounds,
                   history>>
StopInactive ==
    /\ op = "inactive"
    /\ status' = "stopped" /\ Touched /\ quiet' = TRUE /\ op' = "none"
    /\ UNCHANGED <<desired, stage, err, dev, log, reports, commits, pc, turn,
                   base, agent, bounds, open, rescheduled>>
StopWaits ==
    /\ op = "wait"
    /\ \/ status \in StopStates /\ quiet' = TRUE
       \/ UNCHANGED quiet
    /\ op' = "none"
    /\ UNCHANGED <<stateVars, log, reports, commits, runnerVars, agent, bounds,
                   open, rescheduled>>

\* acknowledge and retry look for a stop first and change the state later.
Look(c) ==
    /\ c \in {"acknowledge", "retry"} /\ Command(c)
    /\ desired # "stopped" /\ status # "stopped"
    /\ op' = c
    /\ UNCHANGED <<stateVars, log, reports, commits, runnerVars, agent, faults,
                   starts, history>>
Acknowledge ==
    /\ op = "acknowledge" /\ op' = "none"
    /\ IF stage = "blocked" /\ dev.cur # NoTurn
       THEN /\ stage' = "running" /\ err' = "none" /\ status' = "running"
            /\ Touched
       ELSE UNCHANGED <<status, stage, err, raced>>
    /\ UNCHANGED <<desired, dev, log, reports, commits, pc, turn, base, agent,
                   bounds, history>>
Retry ==
    /\ op = "retry" /\ op' = "none"
    /\ stage' = IF dev = NoDev THEN "pending" ELSE "running"
    /\ dev' = IF dev = NoDev THEN dev ELSE ClearTurn(ResetActive(dev))
    /\ err' = "none" /\ status' = "running" /\ Touched
    /\ open' = {} /\ rescheduled' = TRUE
    /\ UNCHANGED <<desired, log, reports, commits, pc, turn, base, agent, bounds,
                   quiet>>

-----------------------------------------------------------------------------
RunnerStep ==
    \/ TakeLock \/ TickStops \/ TickStopped \/ TickPaused \/ TickEnds
    \/ TickDispatch \/ TickNotReady \/ TickUndetermined \/ TickWaits
    \/ TickSeesTrouble \/ SendKnown \/ SendStarts \/ PreflightFails \/ Launch
    \/ LaunchFails \/ Clear \/ Cleared \/ TypePrompt \/ TypeFails \/ RecordSent
    \/ SendFailed
Reporting(r) == ReportChecks(r) \/ ReportAppends(r) \/ ReportApplies(r)
AgentStep == \E r \in Roles : Plans(r) \/ Works(r) \/ Reporting(r)
Crash ==
    \/ RunnerKilled \/ RunnerInterrupted \/ \E r \in Roles : ReporterKilled(r)
OperatorStep ==
    \/ Pause \/ Resume \/ StopRequest \/ StopProbe \/ StopInactive \/ StopWaits
    \/ \E c \in Commands : Look(c)
    \/ Acknowledge \/ Retry

Next == Recover \/ RunnerStep \/ AgentStep \/ Crash \/ OperatorStep

Spec == Init /\ [][Next]_vars

\* A runner that has been started takes its steps, and so does a report command;
\* nobody has to start a runner or give a command, and no agent has to work.
FairSpec ==
    Spec /\ WF_vars(RunnerStep) /\ \A r \in Roles : WF_vars(Reporting(r))

-----------------------------------------------------------------------------
(* Properties *)

ItemStates == {"pending", "active", "complete", "blocked"}
IsItem(w) == w.status \in ItemStates /\ w.attempt \in Nat

\* Every variable stays in its type; only the last phase is open, a report is
\* of a turn that was sent, and an agent works on turns of its own role.
TypeOK ==
    /\ desired \in {"running", "paused", "stopped"}
    /\ status \in {"running", "paused", "needs_user", "stopped", "blocked",
                   "succeeded"}
    /\ stage \in {"pending", "running", "blocked", "succeeded"}
    /\ err \in {"none", "prompt", "other"}
    /\ dev # NoDev =>
         /\ dev.status \in {"planning", "active", "fix_planning", "complete"}
         /\ \A i \in DOMAIN dev.phases :
              LET ph == dev.phases[i] IN
              /\ ph.status \in {"active", "fix_planning", "complete"}
              /\ i < Len(dev.phases) => ph.status = "complete"
              /\ IsItem(ph.review) /\ \A j \in DOMAIN ph.items : IsItem(ph.items[j])
    /\ \A t \in DOMAIN log : /\ log[t].status \in {"sending", "sent", "failed"}
                             /\ log[t].base \in 0..Len(commits)
    /\ reports \subseteq DOMAIN log
    /\ pc \in {"dead", "new", "idle", "stopping", "send", "launch", "clear",
               "cleared", "type", "typed", "fail_prompt", "fail_other",
               "fail_deferred"}
    /\ \A r \in Roles : ~AgentAt(r, "none") => agent[r].turn.task.role = r
    /\ op \in {"none", "probe", "wait", "inactive", "acknowledge", "retry"}

\* Whenever an agent is handed a turn, no other turn is outstanding: the one
\* before it was reported, or its send was known to have failed, or a retry gave
\* it up (perhaps while it was on its way: sendAgentDevDispatch does not look
\* again).  A runner that was killed after typing does not type once more when
\* it is started anew.
OneTurnAtATime ==
    [][\A r \in Roles :
         (agent'[r] # agent[r] /\ agent'[r].at = "prompted") => open = {}]_vars

\* After workflow stop has said that the run is stopped, no prompt is typed
\* until it is resumed.
StoppedStaysQuiet ==
    [][\A r \in Roles :
         (agent'[r] # agent[r] /\ agent'[r].at = "prompted") => ~quiet]_vars

\* An agent is typed to only for a turn that is its own and wanted.
TurnsAreWanted == OneTurnAtATime /\ StoppedStaysQuiet

\* A run that succeeded leaves nothing open: each phase of its queue is
\* complete, with every item and the review.
SucceededMeansReviewed ==
    status = "succeeded" =>
        \A i \in DOMAIN dev.phases :
            /\ dev.phases[i].status = "complete"
            /\ dev.phases[i].review.status = "complete"
            /\ AllComplete(dev.phases[i])

\* What the queue says is complete is ticked in the workspace, by a commit that
\* came after the turn was dispatched.
CompleteMeansCommitted ==
    dev # NoDev =>
        \A i \in DOMAIN dev.phases :
            LET ph == dev.phases[i] IN
            \A w \in {ph.items[j] : j \in DOMAIN ph.items} \cup {ph.review} :
                w.status = "complete" => w.box \in TickedBoxes(commits)

\* Nothing passes for done that was not done and seen.
DoneIsBacked == SucceededMeansReviewed /\ CompleteMeansCommitted

\* A runner that is asked to stop ends, whatever the agents and panes do and
\* whatever else is asked meanwhile.
StopEndsRunner == desired = "stopped" ~> (pc = "dead" \/ desired # "stopped")

\* A report that was accepted is applied, also when the run is paused, stopped
\* or blocked between its being recorded and its being applied, unless its
\* command is killed just there and the agent is left to run it again.
AcceptedReportIsApplied ==
    \A r \in Roles :
        AgentAt(r, "appended") /\ dev.cur = Holds(r)
            ~> dev.cur = NoTurn \/ AgentAt(r, "done")

\* README.md:213, "durable": the phase queue is never lost.
PhasesSurvive ==
    [][dev # NoDev => Len(dev'.phases) >= Len(dev.phases)]_vars

\* SKILL.md:102-103, "reschedules the interrupted item": after a retry the
\* runner does not wait for a report without having typed a prompt.
RetryTypesAgain ==
    (pc = "idle" /\ stage = "running" /\ status = "running"
       /\ dev.cur # NoTurn /\ LastStatus(dev.cur) = "sent") => ~rescheduled
=============================================================================
