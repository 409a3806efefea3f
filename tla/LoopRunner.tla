----------------------------- MODULE LoopRunner -----------------------------
(***************************************************************************)
(* One managed loop (internal/loop, internal/runmeta): the runner process, *)
(* its metadata file, the control file through which operators pause,      *)
(* resume and stop it, and the pane it observes and types into.            *)
(*                                                                         *)
(* A step of the runner is one read of the control file, one write of its  *)
(* metadata, one observation of the pane or one input.  What an action     *)
(* types is left out, and so are dry runs and the log.  The clock counts   *)
(* the units in which schedules, idleness and the calendar are given.      *)
(***************************************************************************)
EXTENDS Integers, Sequences, FiniteSets

CONSTANTS
    Items,            \* the actions, then the flows, as ItemType records
    MaxActions,       \* max_actions, 0 for none
    MaxRuntime,       \* max_runtime, 0 for none
    IdleAfter, AssumeIdle,    \* idle_after, assume_idle_on_start
    OpenTimes,        \* the instants at which the calendar is open
    QuotaOn, FailClosed, QuotaEvery,    \* the quota gate and its refresh
    StopOnPrompt,     \* stop_on_permission_prompt
    Operators,        \* shells that may give commands
    MaxCommands,      \* bound: operator commands
    MaxTime,          \* bound: the clock
    MaxScreens,       \* bound: changes of what the pane shows
    MayBeKilled       \* the runner may be killed at any step

ItemType == [steps : Nat \ {0}, flow : BOOLEAN, every : Nat, maxRuns : Nat,
             delay : Nat, onlyIdle : BOOLEAN, postDelay : BOOLEAN]

ASSUME LoopAssumption ==
    /\ Items \in Seq(ItemType) /\ Items # <<>>
    /\ \A i \in DOMAIN Items : ~Items[i].flow => Items[i].steps = 1
    /\ {MaxActions, MaxRuntime, IdleAfter, QuotaEvery} \subseteq Nat
    /\ {MaxCommands, MaxTime, MaxScreens} \subseteq Nat
    /\ OpenTimes \subseteq Nat
    /\ {AssumeIdle, QuotaOn, FailClosed, StopOnPrompt, MayBeKilled} \subseteq BOOLEAN

VARIABLES
    clock, screen, flips,     \* the time, the pane, how often it changed
    meta,                     \* the run's file: status and phase
    control,                  \* the control file: the desired state
    rpc, ret,                 \* where the runner is; where its check returns
    ending,                   \* how the runner ended
    sig,                      \* it was sent an interrupt
    begun, cycle,             \* when it began; when this cycle observed
    changedAt, idle,          \* last change seen; idle in this cycle
    answered,                 \* capacityPromptAnswered
    quota,                    \* the cached usage: what it says, its age
    sched, count,             \* next run and runs per item; actionCount
    item, step,               \* the item under way and its steps done
    cmd, cmds,                \* operator -> command under way; how many
    typed, late,              \* history: inputs; inputs since a request
    enters, shown,            \*   capacity prompts accepted and shown
    fresh,                    \*   commands that found the loop not paused
    claimed,                  \*   a pause was reported and not undone
    chosen                    \*   the cycle that last chose each item

fileVars == <<meta, control>>
gateVars == <<changedAt, idle, answered, quota>>
planVars == <<sched, count, item, step>>
runnerVars == <<rpc, ret, ending, begun, cycle, gateVars, planVars>>
paneVars == <<clock, screen, flips, shown>>
operatorVars == <<cmd, cmds, sig>>
loopHistory == <<typed, late, enters, fresh, claimed, chosen>>
loopVars == <<paneVars, fileVars, runnerVars, operatorVars, loopHistory>>

NoCommand == [do |-> "none", at |-> "none"]

LoopInit ==
    /\ clock = 0 /\ screen = "plain" /\ flips = 0 /\ shown = 0
    /\ meta = [status |-> "none", phase |-> "none"] /\ control = "none"
    /\ rpc = "register" /\ ret = "observe" /\ ending = "none" /\ sig = FALSE
    /\ begun = 0 /\ cycle = -1 /\ changedAt = 0 /\ idle = FALSE
    /\ answered = FALSE /\ quota = [says |-> "none", at |-> 0]
    /\ sched = [i \in DOMAIN Items |-> [next |-> 0, runs |-> 0, limit |-> 0]]
    /\ count = 0 /\ item = 1 /\ step = 0
    /\ cmd = [o \in Operators |-> NoCommand] /\ cmds = 0
    /\ typed = 0 /\ late = 0 /\ enters = 0 /\ fresh = {} /\ claimed = FALSE
    /\ chosen = [i \in DOMAIN Items |-> -1]

(***************************************************************************)
(* The metadata.  A run is active while its file says running and its      *)
(* process exists.                                                         *)
(***************************************************************************)
Phase(p) == meta' = [meta EXCEPT !.phase = p]

Alive == rpc # "gone"
Active == meta.status = "running" /\ Alive

RegisterRun ==
    /\ rpc = "register" /\ rpc' = "control"
    /\ meta' = [status |-> "running", phase |-> "starting"]
    /\ UNCHANGED <<paneVars, control, ret, ending, begun, cycle, gateVars,
                   planVars, operatorVars, loopHistory>>

\* Register writes the control file second, over whatever is there.  Then Run
\* begins: assume_idle_on_start puts the last change in the past.
RegisterControl ==
    /\ rpc = "control" /\ rpc' = "check" /\ ret' = "observe"
    /\ control' = "running" /\ late' = 0 /\ claimed' = FALSE
    /\ begun' = clock /\ changedAt' = clock - (IF AssumeIdle THEN IdleAfter ELSE 0)
    /\ sched' = [i \in DOMAIN Items |->
                   [next |-> clock + Items[i].delay, runs |-> 0,
                    limit |-> Items[i].maxRuns]]
    /\ UNCHANGED <<paneVars, meta, ending, cycle, idle, answered, quota,
                   count, item, step, operatorVars, typed, enters, fresh, chosen>>

(***************************************************************************)
(* awaitRunnable: read the desired state; go on, end, or say "paused" and  *)
(* read again.                                                             *)
(***************************************************************************)
CheckThen(r) == rpc' = "check" /\ ret' = r
EndAs(e) == rpc' = "finish" /\ ending' = e

CheckMissesStop ==
    /\ rpc = "check"
    /\ \/ /\ control = "running"
          /\ rpc' = IF meta.phase = "paused" THEN "resuming" ELSE ret
          /\ UNCHANGED ending
       \/ control = "stopped" /\ meta.phase # "paused" /\ EndAs("requested")
       \/ /\ control # "running" /\ (control = "stopped" => meta.phase = "paused")
          /\ rpc' = "pausing" /\ UNCHANGED ending
    /\ UNCHANGED <<paneVars, fileVars, ret, begun, cycle, gateVars, planVars,
                   operatorVars, loopHistory>>
Check ==
    /\ rpc = "check"
    /\ \/ /\ control = "running"
          /\ rpc' = IF meta.phase = "paused" THEN "resuming" ELSE ret
          /\ UNCHANGED ending
       \/ control = "stopped" /\ EndAs("requested")
       \/ control = "paused" /\ rpc' = "pausing" /\ UNCHANGED ending
    /\ UNCHANGED <<paneVars, fileVars, ret, begun, cycle, gateVars, planVars,
                   operatorVars, loopHistory>>

Resuming ==
    /\ rpc = "resuming" /\ rpc' = ret /\ Phase("resuming")
    /\ UNCHANGED <<paneVars, control, ret, ending, begun, cycle, gateVars,
                   planVars, operatorVars, loopHistory>>

PausingOnce ==
    /\ rpc = "pausing" /\ rpc' = ret /\ Phase("paused")
    /\ UNCHANGED <<paneVars, control, ret, ending, begun, cycle, gateVars,
                   planVars, operatorVars, loopHistory>>
Pausing ==
    /\ rpc = "pausing" /\ rpc' = "check" /\ Phase("paused")
    /\ UNCHANGED <<paneVars, control, ret, ending, begun, cycle, gateVars,
                   planVars, operatorVars, loopHistory>>

(***************************************************************************)
(* The gates of a cycle.                                                   *)
(***************************************************************************)
QuotaDue == QuotaOn /\ (quota.says = "none" \/ clock - quota.at >= QuotaEvery)

\* evaluateQuota asks the provider at most once per refresh interval, and
\* only while the calendar is open.
QuotaRead(open) ==
    IF open /\ QuotaDue
    THEN quota' \in [says : {"enough", "spent", "unknown"}, at : {clock}]
    ELSE UNCHANGED quota

QuotaSkips(q) ==
    QuotaOn /\ (q.says = "spent" \/ (q.says = "unknown" /\ FailClosed))

CalendarOpen(t) == t \in OpenTimes

(***************************************************************************)
(* One cycle begins: the clock and the pane are read.  Everything that is  *)
(* decided in this cycle is decided on this reading.                       *)
(***************************************************************************)
MaxRuntimeReached == MaxRuntime > 0 /\ clock - begun >= MaxRuntime

ObserveAtEnd ==
    /\ rpc = "observe" /\ MaxRuntimeReached /\ EndAs("complete")
    /\ UNCHANGED <<paneVars, fileVars, ret, begun, cycle, gateVars, planVars,
                   operatorVars, loopHistory>>

ObserveFails ==
    /\ rpc = "observe" /\ ~MaxRuntimeReached
    /\ Phase("observing") /\ EndAs("error")
    /\ UNCHANGED <<paneVars, control, ret, begun, cycle, gateVars, planVars,
                   operatorVars, loopHistory>>

\* The first observation only remembers what the pane shows.
SeesChange(changed) ==
    /\ changed => cycle >= 0
    /\ idle' = (~changed /\ clock - changedAt >= IdleAfter)
    /\ changedAt' = IF changed THEN clock ELSE changedAt

Observe ==
    /\ rpc = "observe" /\ ~MaxRuntimeReached
    /\ Phase("observing") /\ cycle' = clock
    /\ \E changed \in BOOLEAN : SeesChange(changed)
    /\ \/ /\ screen = "prompt" /\ StopOnPrompt
          /\ EndAs("complete") /\ answered' = FALSE
          /\ UNCHANGED <<quota, item>>
       \/ /\ screen = "capacity" /\ StopOnPrompt
          /\ rpc' = IF answered THEN "tick" ELSE "accept"
          /\ UNCHANGED <<ending, answered, quota, item>>
       \/ /\ screen = "plain" \/ ~StopOnPrompt
          /\ answered' = FALSE /\ QuotaRead(CalendarOpen(clock))
          /\ rpc' = "pick" /\ item' = 1 /\ UNCHANGED ending
    /\ UNCHANGED <<paneVars, control, ret, begun, sched, count, step,
                   operatorVars, loopHistory>>

AcceptForgets ==
    /\ rpc = "accept" /\ rpc' = "tick" /\ enters' = enters + 1
    /\ UNCHANGED <<paneVars, fileVars, ret, ending, begun, cycle, gateVars,
                   planVars, operatorVars, typed, late, fresh, claimed, chosen>>

\* acceptCodexModelCapacityRetry; a pane that cannot be typed into ends the
\* run.  The pane may have changed since it was observed.
Accept ==
    /\ rpc = "accept"
    /\ \/ /\ enters' = enters + 1 /\ late' = late + (IF control = "running" THEN 0 ELSE 1)
          /\ answered' = TRUE /\ rpc' = "tick" /\ UNCHANGED ending
       \/ EndAs("error") /\ UNCHANGED <<enters, late, answered>>
    /\ UNCHANGED <<paneVars, fileVars, ret, begun, cycle, changedAt, idle,
                   quota, planVars, operatorVars, typed, fresh, claimed, chosen>>

(***************************************************************************)
(* Actions, then flows, in their order: the next one that may start.       *)
(***************************************************************************)
Due(i) == cycle >= sched[i].next
RunsLeft(i) == sched[i].limit = 0 \/ sched[i].runs < sched[i].limit
MayStart(i) ==
    /\ CalendarOpen(cycle) /\ ~QuotaSkips(quota)
    /\ Due(i) /\ RunsLeft(i) /\ (Items[i].onlyIdle => idle)

Startable(from) == {i \in from..Len(Items) : MayStart(i)}
FirstOf(S) == CHOOSE i \in S : \A j \in S : i <= j

BudgetSpent == MaxActions > 0 /\ count >= MaxActions
\* A flow that does not fit into what is left of max_actions ends the loop.
TooLong(i) ==
    Items[i].flow /\ MaxActions > 0 /\ Items[i].steps > MaxActions - count

SchedulesComplete ==
    \A i \in DOMAIN Items : sched[i].limit > 0 /\ sched[i].runs >= sched[i].limit

Pick ==
    /\ rpc = "pick" /\ step' = 0
    /\ \/ /\ item <= Len(Items) /\ BudgetSpent
          /\ EndAs("complete") /\ UNCHANGED <<meta, item, ret>>
       \/ /\ item <= Len(Items) => ~BudgetSpent
          /\ Startable(item) = {}
          /\ IF SchedulesComplete
             THEN EndAs("complete") /\ UNCHANGED meta
             ELSE rpc' = "tick" /\ Phase("waiting") /\ UNCHANGED ending
          /\ UNCHANGED <<item, ret>>
       \/ /\ item <= Len(Items) => ~BudgetSpent
          /\ Startable(item) # {}
          /\ item' = FirstOf(Startable(item))
          /\ IF TooLong(item') THEN EndAs("complete") /\ UNCHANGED ret
                               ELSE CheckThen("type") /\ UNCHANGED ending
          /\ UNCHANGED meta
    /\ UNCHANGED <<paneVars, control, begun, cycle, gateVars, sched, count,
                   operatorVars, loopHistory>>

\* The next run is counted from the cycle that chose the item, whatever it
\* waited for since; an item without an interval is over.
NextRunFromSchedule(i) == IF Items[i].every > 0 THEN sched[i].next + Items[i].every ELSE 0
NextRun(i) == IF Items[i].every > 0 THEN cycle + Items[i].every ELSE 0

ItemDone ==
    /\ step' = 0 /\ item' = item + 1 /\ rpc' = "pick" /\ UNCHANGED ret
    /\ count' = count + Items[item].steps
    /\ sched' = [sched EXCEPT ![item] =
         [next |-> NextRun(item), runs |-> @.runs + 1,
          limit |-> IF Items[item].every > 0 THEN @.limit ELSE @.runs + 1]]
    /\ chosen' = [chosen EXCEPT ![item] = cycle]

\* A step was typed: another one, after a look at the control, or the item
\* is done.
NextStep ==
    \/ /\ step + 1 < Items[item].steps /\ step' = step + 1 /\ CheckThen("type")
       /\ UNCHANGED <<sched, count, item, chosen>>
    \/ step + 1 >= Items[item].steps /\ ItemDone

\* runAction: a failed input ends the run, in the middle of a flow too.
Type ==
    /\ rpc = "type" /\ Phase("action")
    /\ \/ /\ typed' = typed + 1
          /\ late' = late + (IF control = "running" THEN 0 ELSE 1)
          /\ IF Items[item].postDelay
             THEN rpc' = "delay" /\ UNCHANGED <<ret, planVars, chosen>>
             ELSE NextStep
          /\ UNCHANGED ending
       \/ EndAs("error") /\ UNCHANGED <<ret, planVars, typed, late, chosen>>
    /\ UNCHANGED <<paneVars, control, begun, cycle, gateVars, operatorVars,
                   enters, fresh, claimed>>

\* waitControlled: the delay or the tick ends, or the control is looked at.
DelayOver ==
    /\ rpc = "delay" /\ NextStep
    /\ UNCHANGED <<paneVars, fileVars, ending, begun, cycle, gateVars,
                   operatorVars, typed, late, enters, fresh, claimed>>

ControlTick ==
    /\ rpc \in {"delay", "tick"} /\ CheckThen(rpc)
    /\ UNCHANGED <<paneVars, fileVars, ending, begun, cycle, gateVars,
                   planVars, operatorVars, loopHistory>>

PollTick ==
    /\ rpc = "tick" /\ CheckThen("observe")
    /\ UNCHANGED <<paneVars, fileVars, ending, begun, cycle, gateVars,
                   planVars, operatorVars, loopHistory>>

(***************************************************************************)
(* The end: runManagedRunner records it and the process exits.             *)
(***************************************************************************)
\* The process's memory is gone with it.
Exit ==
    /\ rpc' = "gone" /\ ret' = "observe" /\ ending' = "none"
    /\ changedAt' = 0 /\ idle' = FALSE /\ answered' = FALSE
    /\ quota' = [says |-> "none", at |-> 0] /\ item' = 1 /\ step' = 0
    /\ UNCHANGED <<begun, cycle, sched, count>>

Finish ==
    /\ rpc = "finish" /\ Exit
    /\ meta' = LET s == IF ending = "error" THEN "error" ELSE "stopped"
               IN [status |-> s, phase |-> s]
    /\ UNCHANGED <<paneVars, control, operatorVars, loopHistory>>

\* An interrupt ends a wait: for a tick, for a delay, or while paused.
Interrupted ==
    /\ sig /\ (rpc \in {"tick", "delay"} \/ (rpc = "check" /\ meta.phase = "paused"))
    /\ EndAs("interrupted")
    /\ UNCHANGED <<paneVars, fileVars, ret, begun, cycle, gateVars, planVars,
                   operatorVars, loopHistory>>

Killed ==
    /\ MayBeKilled /\ Alive /\ Exit
    /\ UNCHANGED <<paneVars, fileVars, operatorVars, loopHistory>>

(***************************************************************************)
(* pause, resume and stop: select an active run, write the control file,   *)
(* wait for the metadata to show it.                                       *)
(***************************************************************************)
Desired(do) == CASE do = "pause" -> "paused" [] do = "resume" -> "running"
                 [] do = "stop" -> "stopped"

Select(o, do) ==
    /\ cmd[o].at = "none" /\ cmds < MaxCommands /\ Active
    /\ cmds' = cmds + 1
    /\ cmd' = [cmd EXCEPT ![o] = [do |-> do, at |-> "write"]]
    /\ UNCHANGED <<paneVars, fileVars, runnerVars, sig, loopHistory>>

\* stop --force interrupts the process as well.  A resume ends what those that
\* wait can go by.
WriteControl(o) ==
    /\ cmd[o].at = "write"
    /\ control' = Desired(cmd[o].do)
    /\ \/ UNCHANGED sig
       \/ cmd[o].do = "stop" /\ sig' = TRUE
    /\ cmd' = [cmd EXCEPT ![o].at = "wait"]
    /\ fresh' = {c \in fresh \cup {o} :
                   control' # "running" /\ (c = o => meta.phase # "paused")}
    /\ late' = IF control' = "running" THEN 0 ELSE late
    /\ claimed' = (claimed /\ control' # "running")
    /\ UNCHANGED <<paneVars, meta, runnerVars, cmds, typed, enters, chosen>>

\* waitForLoopPhase, waitForLoopTerminal.
Reached(do) ==
    \/ ~Active
    \/ do = "pause" /\ meta.phase = "paused"
    \/ do = "resume" /\ meta.phase # "paused"

Report(o) ==
    /\ cmd[o].at = "wait" /\ Reached(cmd[o].do)
    /\ cmd' = [cmd EXCEPT ![o] = NoCommand]
    /\ claimed' = (claimed \/ /\ cmd[o].do = "pause" /\ o \in fresh
                              /\ Active /\ control # "running")
    /\ fresh' = fresh \ {o}
    /\ UNCHANGED <<paneVars, fileVars, runnerVars, cmds, sig, typed, late, enters,
                   chosen>>

GiveUp(o) ==
    /\ cmd[o].at = "wait"
    /\ cmd' = [cmd EXCEPT ![o] = NoCommand] /\ fresh' = fresh \ {o}
    /\ UNCHANGED <<paneVars, fileVars, runnerVars, cmds, sig, typed, late, enters,
                   claimed, chosen>>

(***************************************************************************)
(* The world: time passes and the agent's screen changes.                  *)
(***************************************************************************)
TimePasses ==
    /\ clock < MaxTime /\ Alive /\ clock' = clock + 1
    /\ UNCHANGED <<screen, flips, shown, fileVars, runnerVars, operatorVars,
                   loopHistory>>

ScreenChanges(to) ==
    /\ flips < MaxScreens /\ Alive /\ screen # to
    /\ screen' = to /\ flips' = flips + 1
    /\ shown' = shown + (IF to = "capacity" THEN 1 ELSE 0)
    /\ UNCHANGED <<clock, fileVars, runnerVars, operatorVars, loopHistory>>

LoopStep ==
    \/ RegisterRun \/ RegisterControl
    \/ Check \/ Resuming \/ Pausing
    \/ ObserveAtEnd \/ ObserveFails \/ Observe \/ Accept
    \/ Pick \/ Type \/ DelayOver \/ ControlTick \/ PollTick
    \/ Finish

OperatorStep ==
    \E o \in Operators :
        \/ \E do \in {"pause", "resume", "stop"} : Select(o, do)
        \/ WriteControl(o) \/ Report(o) \/ GiveUp(o)

LoopNext ==
    \/ LoopStep \/ Interrupted \/ Killed \/ OperatorStep
    \/ TimePasses \/ \E to \in {"plain", "prompt", "capacity"} : ScreenChanges(to)

LoopSpec == LoopInit /\ [][LoopNext]_loopVars /\ WF_loopVars(LoopStep)

-----------------------------------------------------------------------------
(* Properties. *)

Phases == {"none", "starting", "observing", "paused", "resuming", "action",
           "waiting", "stopped", "error"}
RunnerPlaces == {"register", "control", "check", "resuming", "pausing",
                 "observe", "accept", "pick", "type", "delay", "tick",
                 "finish", "gone"}
Commands == {NoCommand} \cup
            [do : {"pause", "resume", "stop"}, at : {"write", "wait"}]

\* Every variable keeps its type; the step under way is one of the item's,
\* and the runner never types for an item that does not exist.
LoopTypeOK ==
    /\ clock \in 0..MaxTime /\ flips \in 0..MaxScreens
    /\ screen \in {"plain", "prompt", "capacity"}
    /\ meta \in [status : {"none", "running", "stopped", "error"}, phase : Phases]
    /\ control \in {"none", "running", "paused", "stopped"}
    /\ rpc \in RunnerPlaces /\ ret \in {"observe", "tick", "type", "delay"}
    /\ ending \in {"none", "complete", "requested", "interrupted", "error"}
    /\ begun \in 0..MaxTime /\ cycle \in -1..MaxTime
    /\ changedAt \in (-IdleAfter)..MaxTime
    /\ {sig, idle, answered, claimed} \subseteq BOOLEAN
    /\ quota \in [says : {"none", "enough", "spent", "unknown"}, at : 0..MaxTime]
    /\ sched \in [DOMAIN Items -> [next : Nat, runs : Nat, limit : Nat]]
    /\ count \in Nat /\ item \in 1..(Len(Items) + 1)
    /\ rpc \in {"type", "delay"} => item \in DOMAIN Items /\ step < Items[item].steps
    /\ cmd \in [Operators -> Commands]
    /\ cmds \in 0..MaxCommands /\ fresh \subseteq Operators
    /\ {typed, late, enters, shown} \subseteq Nat
    /\ chosen \in [DOMAIN Items -> -1..MaxTime]

\* However long an item waited for the calendar, the quota, an idle pane or a
\* pause, it runs once for all of it: the cycles that choose an item are its
\* interval apart (README.md:880-883, "there is no catch-up burst").
NoCatchUpBurst ==
    [][\A i \in DOMAIN Items :
         sched'[i].runs > sched[i].runs /\ sched[i].runs > 0 =>
             chosen'[i] >= chosen[i] + Items[i].every]_loopVars

\* Once a pause or a stop is written, at most the input that was already on
\* its way is typed: every step of a flow looks at the control file first.
AtMostOneLateInput == late <= 1

\* After `loop pause` said the loop is paused, nothing is typed until somebody
\* resumes it.  (A pause may report the phase that an earlier pause left, of
\* which the runner has read and not yet shown the end: where it found the
\* loop paused already, or a resume was written while it waited.)
PausedMeansQuiet == [][claimed => UNCHANGED <<typed, enters>>]_loopVars

\* A capacity prompt receives Enter at most once, however long it takes to
\* disappear (runner.go:62-64).
CapacityAnsweredOnce == enters <= shown

\* max_actions bounds what is typed, in flows too: a flow is not begun when
\* its steps do not all fit (TestLoopDoesNotStartFlowThatWouldExceedMaxActions).
BudgetKept == MaxActions > 0 => typed <= MaxActions

\* Nothing is typed without a cause, nor beyond what the user allowed.
NoStrayInput == AtMostOneLateInput /\ CapacityAnsweredOnce /\ BudgetKept

\* A stop that is written ends the run, unless another command or the run's
\* own registration overwrites it.
StopEndsLoop == control = "stopped" ~> (rpc = "gone" \/ control # "stopped")

=============================================================================
