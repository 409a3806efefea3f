--------------------------- MODULE WorkflowStages ---------------------------
(***************************************************************************)
(* A workflow run of command, gate, agent and human stages                 *)
(* (internal/workflow): the runner's tick and the stages it executes in    *)
(* parallel, recovery after a crash, reports, and the operator's commands. *)
(*                                                                         *)
(* Every file update is one step under the store's lock; the runner's own  *)
(* writes are checked against the version it read and tried again, so a    *)
(* tick counts as one step at the time of its write.  Results, reports and *)
(* human answers are read in one step and stored in another.               *)
(*                                                                         *)
(* Left out: agent_dev stages (AgentDev), work items, the evidence and     *)
(* event files, and runs begun by a foreground `workflow run`, which has    *)
(* none of the checks of `workflow start`.                                 *)
(***************************************************************************)
EXTENDS WorkflowConfig

CONSTANTS
    LaunchedActors,       \* actors with a session of their own, started by dispatch
    StoppedAfter,   \* of these, the ones stopped when the run finishes
    OperatorCommands,       \* operator commands that come
    Faults,         \* faults that happen
    MaxOps, MaxFaults, MaxRuns,   \* bounds: how many of each
    MaxEdits                        \* bound: changes of the workspace

ASSUME WorkflowStagesAssumption ==
    /\ StoppedAfter \subseteq LaunchedActors /\ LaunchedActors \subseteq Actors
    /\ "none" \notin Actors       \* what has no actor shares none
    /\ {MaxOps, MaxFaults, MaxRuns, MaxEdits} \subseteq Nat

VARIABLES
    pipe,       \* the number of the configuration, kept with the run
    state,      \* state.json: desired, status, stages, revisions
    log,        \* dispatches.jsonl and reports.jsonl, by dispatch id
    work,       \* the content of each revision in the workspace
    agentAt,    \* actor -> the dispatch it works on
    pc,         \* the runner: off, tick, execute, finish, cleanup
    exec,       \* stage -> its execution in this tick
    handling,   \* the result being stored
    reporter,   \* a report that was recorded and not yet applied
    resolver,   \* a human's answer that was checked and not yet applied
    edits, ops, faults, runs,
    stray       \* history: something came out of turn (see ProducerKeepsItsChain)

engineVars == <<pc, exec, handling>>
clients == <<reporter, resolver>>
bounds == <<edits, ops, faults, runs>>
stageVars == <<pipe, state, log, work, agentAt, engineVars, clients, bounds, stray>>

Stages == DOMAIN Pipelines[pipe].stages
Config(s) == Pipelines[pipe].stages[s]
Chain(s) == Chains[pipe][s]

NoId == <<0, 0, 0>>
NotSent == [status |-> "none", revs |-> << >>, typed |-> FALSE, outcome |-> "none",
            failed |-> FALSE, refused |-> FALSE]
Idle == [at |-> "none", id |-> NoId, revs |-> << >>]
NoResult == [stage |-> 0]
NoReport == [id |-> NoId]
NoAnswer == [stage |-> 0]

Bound(revs, names) == [r \in names |-> revs[r]]
NewStage == [status |-> "pending", outcome |-> "none", attempt |-> 0, gen |-> 0,
             id |-> NoId, bound |-> << >>, error |-> "none"]

StageInit ==
    /\ pipe \in DOMAIN Pipelines
    /\ work = [r \in Revisions |-> 0]
    /\ state = [desired |-> "running", status |-> "running",
                stages |-> [s \in Stages |-> NewStage], revs |-> work]
    /\ log = << >> /\ agentAt = [a \in Actors |-> NoId]
    /\ pc = "off" /\ exec = [s \in Stages |-> Idle] /\ handling = NoResult
    /\ reporter = NoReport /\ resolver = NoAnswer
    /\ edits = 0 /\ ops = 0 /\ faults = 0 /\ runs = 0 /\ stray = FALSE

Entry(id) == IF id \in DOMAIN log THEN log[id] ELSE NotSent
Record(id, entry) == log' = [i \in DOMAIN log \cup {id} |-> IF i = id THEN entry ELSE log[i]]

Fault(f) == f \in Faults /\ faults < MaxFaults /\ faults' = faults + 1
NoFault == UNCHANGED faults

-----------------------------------------------------------------------------
(* One stage *)

IsActive(ss) == ss.status \in {"running", "waiting_report"}
ActiveStages(stages) == {s \in DOMAIN stages : IsActive(stages[s])}

Disposition(s, outcome) ==
    CASE outcome \in DOMAIN Config(s).outcomes -> Config(s).outcomes[outcome]
      [] outcome \notin DOMAIN Config(s).outcomes /\ outcome \in {"success", "blocked"} ->
           outcome
      [] OTHER -> "failed"

\* finishDisposition
Finished(ss, s, outcome) ==
    LET disposition == Disposition(s, outcome)
        again == ss.attempt < Config(s).attempts
        to(status) == [ss EXCEPT !.outcome = outcome, !.status = status]
    IN  CASE disposition = "success" -> to("succeeded")
          [] disposition = "blocked" -> to("blocked")
          [] disposition \in {"retry", "failed"} /\ again -> to("pending")
          [] disposition = "retry" /\ ~again -> [to("failed") EXCEPT !.error = "other"]
          [] OTHER -> to("failed")

\* What advanceStale and a retry make of a stage; the error stays.
Renewed(ss) ==
    [ss EXCEPT !.status = "pending", !.gen = @ + 1, !.attempt = 0,
               !.outcome = "none", !.id = NoId]

\* An attempt, a report or an answer that a change of the workspace outran.
Outran(ss) == [ss EXCEPT !.status = "stale", !.error = "stale"]

Inputs(s) == Config(s).bind \ Config(s).produces
InputsDrifted(ss, s, revs) ==
    \E r \in DOMAIN ss.bound \ Config(s).produces : revs[r] # ss.bound[r]

Literal(l, st) ==
    LET ss == st.stages[l.stage] IN
    l.holds = CASE l.of = "status" -> ss.status = l.value
                [] l.of = "outcome" -> ss.outcome = l.value
                [] OTHER -> /\ l.value \in DOMAIN ss.bound
                            /\ st.revs[l.value] = ss.bound[l.value]
Holds(condition, st) == \E alternative \in condition : \A l \in alternative : Literal(l, st)

-----------------------------------------------------------------------------
(* A changed workspace *)

\* As Protected, if only the producer itself were spared.
ProtectedAlone(stages, r) ==
    {p \in ActiveStages(stages) : r \in Config(p).produces}
\* An active producer of a revision, and all it stands on, keep their place
\* when that revision changes.
Protected(stages, r) ==
    UNION {Chain(p) : p \in {q \in ActiveStages(stages) : r \in Config(q).produces}}

\* invalidateDrift: what is bound to an older content goes stale, and so does
\* everything after it that has begun.
Drifted(stages, old, new) ==
    LET changed == {r \in Revisions : old[r] # new[r]}
        direct == {s \in Stages :
                     /\ IsActive(stages[s]) \/ stages[s].status = "succeeded"
                     /\ \E r \in DOMAIN stages[s].bound \cap changed :
                            /\ new[r] # stages[s].bound[r]
                            /\ s \notin Protected(stages, r)}
        begun == {s \in Stages :
                    stages[s].status \in {"succeeded", "skipped", "failed", "blocked",
                                          "waiting_report", "running"}}
        stale == direct \cup {s \in begun : Chain(s) \cap direct # {}}
    IN  [s \in Stages |-> IF s \in stale
                          THEN Outran(stages[s])
                          ELSE stages[s]]

Advanced(stages) ==
    [s \in Stages |-> IF stages[s].status = "stale" THEN Renewed(stages[s]) ELSE stages[s]]

\* A reading of the workspace lacks a change that no stage at work accounts for.
Outdated(stages, revs) ==
    \E r \in Revisions : /\ revs[r] # work[r]
                          /\ ~\E p \in ActiveStages(stages) : r \in Config(p).produces

-----------------------------------------------------------------------------
(* The runner: what to start *)

\* Needs are met in the order they are named; the first that is not decides.
Met(ss) == ss.status = "succeeded" \/ (ss.status = "skipped" /\ ss.error = "none")
Lost(ss) == \/ ss.status \in {"failed", "blocked"}
            \/ ss.status = "skipped" /\ ss.error # "none"
FirstUnmet(stages, s) ==
    LET needs == Config(s).needs
        unmet == {k \in DOMAIN needs : ~Met(stages[needs[k]])}
    IN  IF unmet = {} THEN 0
        ELSE needs[CHOOSE k \in unmet : \A j \in unmet : k <= j]

Skip(ss, cause) == [ss EXCEPT !.status = "skipped", !.error = cause]

\* A human stage stops the run and takes back what was chosen before it.
AskHuman(a, s) ==
    [a EXCEPT !.stages =
                 [i \in Stages |->
                    CASE i = s -> [a.stages[i] EXCEPT !.status = "waiting_human",
                                       !.attempt = @ + 1,
                                       !.bound = Bound(a.revs, Config(s).bind)]
                      [] i \in a.chosen -> [a.stages[i] EXCEPT !.status = "pending"]
                      [] OTHER -> a.stages[i]],
              !.status = "needs_user", !.chosen = {}, !.human = TRUE]

\* As Choose, if the actor of a chosen stage did not count as busy.
ChooseShared(a, s) ==
    IF a.room > 0 /\ Config(s).actor \notin a.busy
    THEN [a EXCEPT !.stages[s].status = "runnable", !.chosen = @ \cup {s}, !.room = @ - 1]
    ELSE [a EXCEPT !.stages[s].status = "runnable"]
Choose(a, s) ==
    IF a.room > 0 /\ Config(s).actor \notin a.busy
    THEN [a EXCEPT !.stages[s].status = "runnable", !.chosen = @ \cup {s}, !.room = @ - 1,
                   !.busy = @ \cup ({Config(s).actor} \ {"none"})]
    ELSE [a EXCEPT !.stages[s].status = "runnable"]

\* A stage that was tried rests (NextAttemptAt) before it is tried again.
MayRest(ss) == ss.status = "pending" /\ (ss.attempt > 0 \/ ss.error = "other")

\* One stage of the pass over the stages in their order.
Consider(a, s, resting) ==
    LET ss == a.stages[s]
        unmet == FirstUnmet(a.stages, s)
    IN  IF \/ a.human \/ ss.status \notin {"pending", "runnable"}
           \/ s \in resting /\ MayRest(ss)
        THEN a
        ELSE IF unmet # 0 THEN
            IF Lost(a.stages[unmet]) THEN [a EXCEPT !.stages[s] = Skip(ss, "dependency")] ELSE a
        ELSE CASE ~Holds(Config(s).when, a) -> [a EXCEPT !.stages[s] = Skip(ss, ss.error)]
               [] Holds(Config(s).when, a) /\ Config(s).type = "human" -> AskHuman(a, s)
               [] OTHER -> Choose(a, s)

Scheduled(st, resting) ==
    LET used == Cardinality(ActiveStages(st.stages))
        busy == {Config(s).actor : s \in ActiveStages(st.stages)} \ {"none"}
        pass[s \in 0..Cardinality(Stages)] ==
            IF s = 0
            THEN [stages |-> st.stages, revs |-> st.revs, status |-> st.status,
                  chosen |-> {}, human |-> FALSE, busy |-> busy,
                  room |-> IF used > Pipelines[pipe].parallel THEN 0
                           ELSE Pipelines[pipe].parallel - used]
            ELSE Consider(pass[s - 1], s, resting)
    IN  pass[Cardinality(Stages)]

Started(st, s) ==
    LET ss == st.stages[s] IN
    [ss EXCEPT !.status = "running", !.attempt = @ + 1, !.error = "none",
               !.outcome = "none", !.bound = Bound(st.revs, Config(s).bind),
               !.id = IF Config(s).type = "agent" THEN <<s, ss.gen, ss.attempt + 1>> ELSE @]

\* What a started stage does first; a gate has its answer at once.
FirstStep(st, s) ==
    LET ss == st.stages[s]
        at == CASE Config(s).type = "agent" -> "check"
                [] Config(s).type = "command" -> "command"
                [] OTHER -> IF Holds(Config(s).gate, st) THEN "success" ELSE "blocked"
    IN  [at |-> at, id |-> ss.id, revs |-> Bound(ss.bound, Inputs(s))]

-----------------------------------------------------------------------------
(* The runner: start, tick, end *)

\* A dispatch that may have been typed is waited for; any other attempt is
\* taken back, and runs again under the same id.
Recovered(ss) ==
    CASE ss.status # "running" -> ss
      [] ss.status = "running" /\ Entry(ss.id).status \in {"sending", "sent"} ->
           [ss EXCEPT !.status = "waiting_report"]
      [] OTHER -> [ss EXCEPT !.status = "pending", !.id = NoId,
                             !.attempt = IF @ > 0 THEN @ - 1 ELSE 0]

EndStates == {"stopped", "failed", "blocked", "succeeded"}

\* workflow start, NewEngine and the locks of Run; another run may hold the
\* workspace.
Start ==
    /\ pc = "off" /\ runs < MaxRuns
    /\ state.desired # "stopped"
    /\ state.status \in EndStates => state.status = "stopped" /\ state.desired = "running"
    /\ runs' = runs + 1
    /\ LET stages == [s \in Stages |-> Recovered(state.stages[s])] IN
       /\ \/ /\ state' = [state EXCEPT !.stages = stages]
             /\ pc' = "tick" /\ NoFault
          \/ /\ Fault("lease")
             /\ state' = [state EXCEPT !.stages = stages, !.status = "needs_user"]
             /\ UNCHANGED pc
       /\ stray' = (stray \/ Outdated(stages, state.revs))
    /\ UNCHANGED <<pipe, log, work, agentAt, exec, handling, clients, edits, ops>>

\* cleanupActors: sessions that a dispatch was ever begun for (a record stays when
\* a later one says that it failed) and that end with the run.
Cleanup ==
    agentAt' = [a \in Actors |->
        IF a \in StoppedAfter /\ \E id \in DOMAIN log : Config(id[1]).actor = a
        THEN NoId ELSE agentAt[a]]
CleanupActors ==
    /\ pc = "cleanup" /\ pc' = "off" /\ Cleanup
    /\ UNCHANGED <<pipe, state, log, work, exec, handling, clients, bounds, stray>>

TickStopped ==
    /\ pc = "tick" /\ state.desired = "stopped"
    /\ state' = [state EXCEPT !.status = "stopped"] /\ pc' = "cleanup"
    /\ UNCHANGED <<pipe, log, work, agentAt, exec, handling, clients, bounds, stray>>
TickPaused ==
    /\ pc = "tick" /\ state.desired = "paused"
    /\ state' = [state EXCEPT !.status = "paused"]
    /\ UNCHANGED <<pipe, log, work, agentAt, engineVars, clients, bounds, stray>>

\* What a tick does when the reports of the stages in late have timed out, and the
\* stages in resting are not to be tried yet.
Ticked(late, resting) ==
    LET drifted == Advanced(Drifted(state.stages, state.revs, work))
        timed == [s \in Stages |-> IF s \in late THEN Finished(drifted[s], s, "timeout")
                                                 ELSE drifted[s]]
        status == IF state.status \in {"paused", "stopped"} THEN "running" ELSE state.status
        plan == Scheduled([state EXCEPT !.stages = timed, !.status = status, !.revs = work],
                          resting)
    IN  [state |-> [state EXCEPT !.status = plan.status, !.revs = work,
                        !.stages = [s \in Stages |-> IF s \in plan.chosen
                                                     THEN Started(plan, s)
                                                     ELSE plan.stages[s]]],
         chosen |-> plan.chosen]
NeverLate == {}     \* if a report were waited for without end
MayBeLate ==
    LET stages == Advanced(Drifted(state.stages, state.revs, work))
    IN  {s \in Stages : stages[s].status = "waiting_report"}

MayWait == {s \in Stages : Config(s).type = "agent" \/ Config(s).attempts > 1}

\* A run that needs its user is only looked at.
TickRuns(late, resting) ==
    /\ pc = "tick" /\ state.desired = "running" /\ state.status # "needs_user"
    /\ late \subseteq MayBeLate
    /\ LET t == Ticked(late, resting) IN
       /\ state' = t.state
       /\ exec' = [s \in Stages |-> IF s \in t.chosen THEN FirstStep(t.state, s) ELSE Idle]
       /\ pc' = IF t.chosen = {} THEN "finish" ELSE "execute"
    /\ UNCHANGED <<pipe, log, work, agentAt, handling, clients, bounds, stray>>

\* updateRunStatus: the first failed or blocked stage ends the run; a stage
\* that is blocked while the user is asked does not.
EndsRun(s) ==
    \/ state.stages[s].status = "failed"
    \/ state.stages[s].status = "blocked" /\ state.status # "needs_user"
Done(s) == state.stages[s].status \in {"succeeded", "skipped"}
RunStatus ==
    LET first == {s \in Stages : EndsRun(s) /\ \A i \in 1..(s - 1) : ~EndsRun(i)} IN
    CASE first # {} -> state.stages[CHOOSE s \in first : TRUE].status
      [] \A s \in Stages : Done(s) -> "succeeded"
      [] first = {} /\ \E s \in Stages : state.stages[s].status = "waiting_human" ->
           "needs_user"
      [] OTHER -> IF state.status = "needs_user" THEN "needs_user" ELSE "running"
FinishTick ==
    /\ pc = "finish"
    /\ state' = [state EXCEPT !.status = RunStatus]
    /\ pc' = IF RunStatus \in EndStates THEN "cleanup" ELSE "tick"
    /\ UNCHANGED <<pipe, log, work, agentAt, exec, handling, clients, bounds, stray>>

-----------------------------------------------------------------------------
(* The runner: executing the chosen stages, in parallel *)

Executing(s, at) == pc = "execute" /\ s \in Stages /\ exec[s].at = at
Becomes(s, at) == exec' = [exec EXCEPT ![s].at = at]
NotExec == UNCHANGED <<pipe, state, work, pc, handling, clients, edits, ops, runs, stray>>

\* A command succeeds, fails, times out, or cannot be run.
Command(s) ==
    /\ Executing(s, "command")
    /\ \/ \E result \in {"success", "failed", "timeout"} : Becomes(s, result) /\ NoFault
       \/ Fault("command") /\ Becomes(s, "error")
    /\ UNCHANGED <<log, agentAt>> /\ NotExec

\* executeAgent up to the record that the prompt is about to be typed: what was
\* sent already is not sent again, and a pane that asks something, is busy or
\* cannot be read is not typed into.
Actor(s) == Config(s).actor
CheckActor(s) ==
    /\ Executing(s, "check")
    /\ IF Entry(exec[s].id).status \in {"sending", "sent"}
       THEN Becomes(s, "ok") /\ NoFault /\ UNCHANGED log
       ELSE \/ /\ Actor(s) \in LaunchedActors \/ agentAt[Actor(s)] = NoId
               /\ Record(exec[s].id, [Entry(exec[s].id) EXCEPT !.status = "sending",
                                                               !.revs = exec[s].revs])
               /\ Becomes(s, "typing") /\ NoFault
            \/ /\ Actor(s) \notin LaunchedActors /\ agentAt[Actor(s)] # NoId
               /\ Becomes(s, "deferred") /\ NoFault /\ UNCHANGED log
            \/ /\ Actor(s) \notin LaunchedActors /\ Fault("prompt")
               /\ Becomes(s, "prompt") /\ UNCHANGED log
            \/ Fault("pane") /\ Becomes(s, "error") /\ UNCHANGED log
    /\ UNCHANGED agentAt /\ NotExec

\* The prompt is pasted blindly, or by a dispatch that waits for the pane.
Failed(s) ==
    Record(exec[s].id, [log[exec[s].id] EXCEPT !.status = "failed", !.failed = TRUE])
PasteInto(s) ==
    /\ Executing(s, "typing")
    /\ \/ /\ Actor(s) \in LaunchedActors => agentAt[Actor(s)] = NoId
          /\ agentAt' = [agentAt EXCEPT ![Actor(s)] = exec[s].id]
          /\ Record(exec[s].id, [log[exec[s].id] EXCEPT !.typed = TRUE])
          /\ Becomes(s, "typed") /\ NoFault
       \/ /\ Actor(s) \in LaunchedActors /\ agentAt[Actor(s)] # NoId
          /\ Failed(s) /\ Becomes(s, "deferred") /\ NoFault /\ UNCHANGED agentAt
       \/ /\ Actor(s) \in LaunchedActors /\ Fault("prompt")
          /\ Failed(s) /\ Becomes(s, "prompt") /\ UNCHANGED agentAt
       \/ Fault("paste") /\ Failed(s) /\ Becomes(s, "error") /\ UNCHANGED agentAt
    /\ NotExec
\* A dispatch may fail after it typed.
Sent(s) ==
    /\ Executing(s, "typed")
    /\ \/ /\ Record(exec[s].id, [log[exec[s].id] EXCEPT !.status = "sent"])
          /\ Becomes(s, "ok") /\ NoFault
       \/ Actor(s) \in LaunchedActors /\ Fault("send") /\ Failed(s) /\ Becomes(s, "error")
    /\ UNCHANGED agentAt /\ NotExec

Results == {"ok", "error", "prompt", "deferred", "success", "failed", "timeout", "blocked"}

\* What a result makes of the stage as it now is, and what is stored with it.
\* Only a success of a stage that produces revisions is bound to the new ones.
Handled(ss, s, result) ==
    LET failed == [ss EXCEPT !.error = "other"]
        done == Finished(ss, s, result)
    IN  CASE result = "deferred" ->
               [failed EXCEPT !.status = "pending", !.id = NoId,
                              !.attempt = IF @ > 0 THEN @ - 1 ELSE 0]
          [] result = "prompt" -> [ss EXCEPT !.status = "blocked", !.error = "prompt"]
          [] result = "error" -> Finished(failed, s, "failed")
          [] result = "ok" -> [ss EXCEPT !.status = "waiting_report"]
          [] OTHER -> IF done.status = "succeeded" /\ Config(s).produces # {}
                      THEN [done EXCEPT !.bound =
                                Bound(work, Config(s).bind \cup Config(s).produces)]
                      ELSE done

\* wg.Wait: results are handled once every stage has one.  Where the run needs its
\* user when the result is read, it does so when the result is stored.
Handle(s) ==
    /\ pc = "execute" /\ handling = NoResult
    /\ \A i \in Stages : exec[i].at \in Results \cup {"none"}
    /\ exec[s].at \in Results
    /\ LET ss == state.stages[s]
           drifted == InputsDrifted(ss, s, work)
           asked == exec[s].at \notin {"deferred", "ok"} /\ state.status = "needs_user"
       IN  handling' = [stage |-> s, revs |-> work,
                        to |-> IF drifted
                               THEN Outran(ss) ELSE Handled(ss, s, exec[s].at),
                        asks |-> ~drifted /\ (exec[s].at = "prompt" \/ asked)]
    /\ exec' = [exec EXCEPT ![s] = Idle]
    /\ UNCHANGED <<pipe, state, log, work, agentAt, pc, clients, bounds, stray>>
Store ==
    /\ handling # NoResult
    /\ state' = [state EXCEPT !.stages[handling.stage] = handling.to,
                              !.revs = handling.revs,
                              !.status = IF handling.asks THEN "needs_user" ELSE @]
    /\ handling' = NoResult
    /\ pc' = IF \A s \in Stages : exec[s] = Idle THEN "finish" ELSE pc
    /\ stray' = (stray \/ Outdated(state'.stages, handling.revs))
    /\ UNCHANGED <<pipe, log, work, agentAt, exec, clients, bounds>>

RunnerEnds == pc' = "off" /\ exec' = [s \in Stages |-> Idle] /\ handling' = NoResult
Kill ==
    /\ pc # "off" /\ Fault("kill") /\ RunnerEnds
    /\ UNCHANGED <<pipe, state, log, work, agentAt, clients, edits, ops, runs, stray>>
\* The signal is seen between two ticks.
Interrupt ==
    /\ pc = "tick" /\ Fault("interrupt") /\ RunnerEnds
    /\ state' = [state EXCEPT !.status = "stopped"]
    /\ UNCHANGED <<pipe, log, work, agentAt, clients, edits, ops, runs, stray>>

-----------------------------------------------------------------------------
(* Agents and the workspace *)

\* A stage is at work on what it produces until it has said that it is done.
AtWork(s) ==
    /\ IsActive(state.stages[s])
    /\ \/ exec[s].at = "command"
       \/ /\ state.stages[s].id \in DOMAIN log
          /\ agentAt[Actor(s)] = state.stages[s].id
          /\ log[state.stages[s].id].outcome = "none"

\* Bound: what no stage looks at does not change.
Edit(r) ==
    /\ edits < MaxEdits /\ edits' = edits + 1
    /\ \E s \in Stages : r \in Config(s).bind
    /\ \E v \in 0..MaxEdits : v # work[r] /\ work' = [work EXCEPT ![r] = v]
    /\ stray' = (stray \/ ~\E s \in Stages : r \in Config(s).produces /\ AtWork(s))
    /\ UNCHANGED <<pipe, state, log, agentAt, engineVars, clients, ops, faults, runs>>

AgentEnds(a) ==
    /\ agentAt[a] # NoId
    /\ agentAt' = [agentAt EXCEPT ![a] = NoId]
    /\ UNCHANGED <<pipe, state, log, work, engineVars, clients, bounds, stray>>

-----------------------------------------------------------------------------
(* Reports, human answers and operators: each changes the state under the    *)
(* runner, which notices when it was about to write                          *)

NoRace == UNCHANGED pc
Raced ==
    \/ NoRace
    \/ pc = "finish" /\ pc' = "tick"       \* ErrStateConflict: a new tick
    \* the runner had read the stop request, and its write is not checked
    \/ pc = "tick" /\ state.desired = "stopped" /\ pc' = "cleanup"
NotClients == UNCHANGED <<reporter, resolver>>

MayChange == state.desired # "stopped" /\ state.status # "stopped"
ReportIsStale(id) == \E r \in DOMAIN Entry(id).revs : work[r] # Entry(id).revs[r]
AwaitsReport(id) ==
    /\ state.stages[id[1]].id = id /\ state.stages[id[1]].attempt = id[3]
    /\ state.stages[id[1]].status = "waiting_report"

\* A report is checked, and recorded or refused, in one step, and applied in
\* another.  Bounds: one at a time, and one that was refused is not sent again.
RefuseReport(id) ==
    /\ reporter = NoReport
    /\ MayChange /\ log[id].typed /\ ReportIsStale(id) /\ ~log[id].refused
    /\ Record(id, [log[id] EXCEPT !.refused = TRUE])
    /\ reporter' = [id |-> id, outcome |-> "stale", revs |-> work]
    /\ UNCHANGED <<pipe, state, work, agentAt, engineVars, resolver, bounds, stray>>
\* A second submission repeats the outcome of the first.
SubmitReport(id, outcome) ==
    /\ reporter = NoReport
    /\ MayChange /\ log[id].typed /\ ~ReportIsStale(id) /\ AwaitsReport(id)
    /\ outcome \in DOMAIN Config(id[1]).outcomes
    /\ log[id].outcome \in {"none", outcome}
    /\ Record(id, [log[id] EXCEPT !.outcome = outcome])
    /\ reporter' = [id |-> id, outcome |-> outcome, revs |-> work]
    /\ UNCHANGED <<pipe, state, work, agentAt, engineVars, resolver, bounds, stray>>
ApplyRefusal ==
    /\ reporter # NoReport /\ reporter.outcome = "stale" /\ reporter' = NoReport
    /\ LET s == reporter.id[1]
           ss == state.stages[s]
       IN  /\ state' = [state EXCEPT !.stages[s] = Outran(ss), !.revs = reporter.revs]
           /\ stray' = (\/ stray \/ ss.id # reporter.id \/ ~IsActive(ss)
                        \/ ~ReportIsStale(reporter.id)
                        \/ Outdated(state'.stages, reporter.revs))
    /\ Raced
    /\ UNCHANGED <<pipe, log, work, agentAt, exec, handling, resolver, bounds>>
ApplyReport ==
    /\ reporter # NoReport /\ reporter.outcome # "stale" /\ reporter' = NoReport
    /\ LET s == reporter.id[1]
           stages == Drifted(state.stages, state.revs, reporter.revs)
       IN  state' = [state EXCEPT
             !.stages = [stages EXCEPT ![s] =
                 [Finished(@, s, reporter.outcome) EXCEPT !.bound =
                     Bound(reporter.revs, Config(s).bind \cup Config(s).produces)]],
             !.revs = reporter.revs, !.status = "running"]
    /\ Raced
    /\ stray' = (\/ stray \/ ~AwaitsReport(reporter.id)
                 \/ Outdated(state'.stages, reporter.revs))
    /\ UNCHANGED <<pipe, log, work, agentAt, exec, handling, resolver, bounds>>
ReporterKilled ==
    /\ reporter # NoReport /\ Fault("reporter") /\ reporter' = NoReport
    /\ UNCHANGED <<pipe, state, log, work, agentAt, engineVars, resolver, edits, ops,
                   runs, stray>>

Operator(c) == c \in OperatorCommands /\ ops < MaxOps /\ ops' = ops + 1
NotOperator == UNCHANGED <<pipe, log, work, agentAt, exec, handling, edits, faults,
                           runs>>

\* ResolveHuman: what was bound is compared, then the answer, or that it came too
\* late, is stored.
ResolveHuman(s, outcome) ==
    /\ Operator("resolve") /\ MayChange /\ resolver = NoAnswer
    /\ Config(s).type = "human" /\ outcome \in DOMAIN Config(s).outcomes
    /\ resolver' = [stage |-> s, revs |-> work,
                    outcome |-> IF InputsDrifted(state.stages[s], s, work) THEN "stale"
                                ELSE outcome]
    /\ NoRace /\ UNCHANGED <<state, reporter, stray>> /\ NotOperator
RefuseAnswer ==
    /\ resolver # NoAnswer /\ resolver.outcome = "stale" /\ resolver' = NoAnswer
    /\ LET s == resolver.stage
           ss == state.stages[s]
       IN  /\ state' = [state EXCEPT !.stages[s] = Outran(ss), !.revs = resolver.revs]
           /\ stray' = (\/ stray \/ ss.status # "waiting_human" \/ ~InputsDrifted(ss, s, work)
                        \/ Outdated(state'.stages, resolver.revs))
    /\ Raced /\ UNCHANGED <<ops, reporter>> /\ NotOperator
ApplyAnswer ==
    /\ resolver # NoAnswer /\ resolver.outcome # "stale" /\ resolver' = NoAnswer
    /\ LET s == resolver.stage
           ss == [state.stages[s] EXCEPT !.bound =
                     Bound(resolver.revs, Config(s).bind \cup Config(s).produces)]
       IN  IF state.stages[s].status = "waiting_human"
           THEN /\ state' = [state EXCEPT !.stages[s] = Finished(ss, s, resolver.outcome),
                                          !.revs = resolver.revs, !.status = "running"]
                /\ stray' = (stray \/ Outdated(state'.stages, resolver.revs))
                /\ Raced
           ELSE NoRace /\ UNCHANGED <<state, stray>>
    /\ UNCHANGED <<ops, reporter>> /\ NotOperator

\* retry: the stage and everything after it start over.
Retry(s) ==
    /\ Operator("retry") /\ MayChange
    /\ state' = [state EXCEPT
         !.stages = [i \in Stages |-> IF s \in Chain(i)
                                      THEN [Renewed(@[i]) EXCEPT !.error = "none"]
                                      ELSE @[i]],
         !.status = "running"]
    /\ stray' = (stray \/ ActiveStages(state.stages) # {} \/ pc = "execute")
    /\ Raced /\ NotClients /\ NotOperator
Pause ==
    /\ Operator("pause")
    /\ state' = [state EXCEPT !.desired = "paused"]
    /\ Raced /\ UNCHANGED stray /\ NotClients /\ NotOperator
\* resume: also a stage that was blocked by a prompt is tried again.  (The code looks
\* for the word in the stage's error; that another failure mentions it is left out.)
Resume ==
    /\ Operator("resume")
    /\ state' = [state EXCEPT
         !.desired = "running", !.status = "running",
         !.stages = [s \in Stages |->
             IF @[s].status = "blocked" /\ @[s].error = "prompt"
             THEN [@[s] EXCEPT !.status = "pending", !.error = "none"] ELSE @[s]]]
    /\ Raced /\ UNCHANGED stray /\ NotClients /\ NotOperator
\* stop --wait: without a runner the command itself writes the end (its two writes,
\* and a runner that starts between them, are in AgentDev).
Stop ==
    /\ Operator("stop")
    /\ state' = [state EXCEPT !.desired = "stopped",
                              !.status = IF pc = "off" THEN "stopped" ELSE @]
    /\ Raced /\ UNCHANGED stray /\ NotClients /\ NotOperator

StageAnswers == {"success", "failed", "blocked", "changes"}
AnyReport ==
    \E id \in DOMAIN log : RefuseReport(id) \/ \E o \in StageAnswers : SubmitReport(id, o)
AnyOperator ==
    \/ \E s \in Stages : Retry(s) \/ \E o \in StageAnswers : ResolveHuman(s, o)
    \/ RefuseAnswer \/ ApplyAnswer \/ Pause \/ Resume \/ Stop

ExecStep ==
    \E s \in Stages : Command(s) \/ CheckActor(s) \/ PasteInto(s) \/ Sent(s) \/ Handle(s)
RunnerStep ==
    \/ TickStopped \/ FinishTick \/ CleanupActors \/ ExecStep \/ Store
    \/ \E late \in SUBSET MayBeLate, resting \in SUBSET MayWait : TickRuns(late, resting)
TickLate == MayBeLate # {} /\ \E resting \in SUBSET MayWait : TickRuns(MayBeLate, resting)
TickRested == \E late \in SUBSET MayBeLate : TickRuns(late, {})

StageNext ==
    \/ Start \/ TickPaused \/ RunnerStep \/ Kill \/ Interrupt
    \/ \E r \in Revisions : Edit(r)
    \/ \E a \in Actors : AgentEnds(a)
    \/ AnyReport \/ ApplyRefusal \/ ApplyReport \/ ReporterKilled \/ AnyOperator

StageSpec == StageInit /\ [][StageNext]_stageVars

\* The runner goes on, agents end their turns, reports that never come are found to
\* be overdue, and no stage rests for ever: weak fairness of RunnerStep and of the
\* ends of turns, strong fairness of TickLate and TickRested.  (When the runner's
\* actions are enabled is written out, for a tick is long to evaluate.)
MayTick == pc = "tick" /\ state.desired = "running" /\ state.status # "needs_user"
MayStep == \/ pc \in {"execute", "finish", "cleanup"} \/ MayTick
           \/ pc = "tick" /\ state.desired = "stopped"
StageFairness ==
    /\ []<>~MayStep \/ []<><<RunnerStep>>_stageVars
    /\ WF_stageVars(\E a \in Actors : AgentEnds(a))
    /\ <>[]~(MayTick /\ MayBeLate # {}) \/ []<><<TickLate>>_stageVars
    /\ <>[]~MayTick \/ []<><<TickRested>>_stageVars

-----------------------------------------------------------------------------
(* Properties *)

\* executeAgent: a dispatch is typed again only if its sending had failed,
\* whatever was killed or recovered, and no agent is given a turn while it works
\* on another.
TurnsAreExclusive ==
    [][\A a \in Actors : (agentAt'[a] # agentAt[a] /\ agentAt'[a] # NoId) =>
          agentAt[a] = NoId /\ (log[agentAt'[a]].typed => log[agentAt'[a]].failed)]_stageVars

\* protectedProducerChains: a revision that changes under a stage that produces
\* it, at work, leaves that stage and all it stands on as they are: they neither
\* go stale nor, unless an operator says so, start over.  (Unless something came
\* out of turn: another change was made; a reading of the workspace was stored that
\* lacks a change whose producer is no longer at work, by the runner that starts, or
\* with a result, a report or an answer that took its reading before; a stage was
\* retried while some stage was active or executing; a report came for an attempt
\* that was over, or an answer for a stage that no longer waited for one; or either
\* was refused for a change that was then taken back.)
ProducerKeepsItsChain ==
    [][\A s \in Stages :
          (/\ \/ state'.stages[s].status = "stale"
              \/ state'.stages[s].gen > state.stages[s].gen /\ ops' = ops
           /\ \A p \in Stages : Config(p).produces # {} => s \in Chain(p))
          => stray']_stageVars

\* Run: a runner comes to an end or waits for its user, whether reports come
\* or not.
RunnerSettles ==
    pc # "off" ~> (pc = "off" \/ state.status = "needs_user" \/ state.desired = "paused")

\* engine.go:306, "dependency did not succeed": a stage is skipped so only when
\* something it needs has failed, is blocked or was itself skipped so.
SkippedForCause ==
    [][\A s \in Stages :
          (state'.stages[s].status = "skipped" /\ state.stages[s].status # "skipped"
             /\ state'.stages[s].error = "dependency") =>
          \E n \in NeedsOf(Pipelines[pipe], s) :
              \/ state'.stages[n].status \in {"failed", "blocked"}
              \/ state'.stages[n].status = "skipped"
                    /\ state'.stages[n].error = "dependency"]_stageVars
=============================================================================
