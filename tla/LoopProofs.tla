----------------------------- MODULE LoopProofs -----------------------------
(***************************************************************************)
(* Proofs about a managed loop, for any items, calendar, operators and     *)
(* bounds: LoopRunner types nothing without a cause, keeps quiet once a    *)
(* pause was reported and holds its intervals; LoopStart, whose commands   *)
(* share no state with it, never leaves two runs alive without an excuse;  *)
(* LoopCalendar, which keeps none, finds the earliest opening.             *)
(***************************************************************************)
EXTENDS LoopRunner, LoopStart, LoopCalendar, MinMaxLemmas, FiniteSetTheorems, TLAPS

(***************************************************************************)
(* The runner.                                                             *)
(***************************************************************************)
\* Where the runner is going: where its check returns, or where it is.
Bound == IF rpc \in {"check", "resuming", "pausing"} THEN ret ELSE rpc
Registered == rpc \notin {"register", "control"}
Over == rpc \in {"finish", "gone"}

\* A pause that did not find the loop paused and whose end no resume announced.
FreshPause(o) == cmd[o].at = "wait" /\ cmd[o].do = "pause" /\ o \in fresh
MetaFiles == [status : {"none", "running", "stopped", "error"}, phase : Phases]
PauseTypeOK ==
    /\ cmd \in [Operators -> Commands]
    /\ meta \in MetaFiles /\ fresh \subseteq Operators
    /\ claimed \in BOOLEAN
    /\ control \in {"none", "running", "paused", "stopped"}
    /\ rpc \in RunnerPlaces /\ ret \in {"observe", "tick", "type", "delay"}
PausedPlaces == {"check", "pausing", "resuming", "finish", "gone"}
\* A fresh pause that sees the phase "paused" sees that of a runner that stopped
\* to type and has not been told to go on; no more is claimed of it.
PauseInv ==
    /\ PauseTypeOK
    /\ meta.phase = "paused" => rpc \in PausedPlaces
    /\ \A o \in Operators : FreshPause(o) =>
          /\ rpc = "pausing" => control # "running"
          /\ meta.phase = "paused" => rpc # "resuming" /\ control # "running"
    /\ claimed => control # "running" /\ rpc \in PausedPlaces \ {"resuming"}

\* The metadata after its phase was written.
LEMMA PhaseSet ==
    ASSUME NEW p \in Phases, meta \in MetaFiles, Phase(p)
    PROVE  meta' \in MetaFiles /\ meta'.phase = p
BY DEF MetaFiles, Phase

\* The steps of the commands keep PauseInv: a pause is fresh only where the loop
\* is not paused yet, and a resume leaves no pause fresh.
LEMMA CommandsPause ==
    ASSUME PauseInv, OperatorStep
    PROVE  PauseInv'
<1>. USE DEF PauseInv
<1>1. PICK o \in Operators : \/ \E do \in {"pause", "resume", "stop"} : Select(o, do)
                             \/ WriteControl(o) \/ Report(o) \/ GiveUp(o)
  BY DEF OperatorStep
<1>2. ASSUME NEW do \in {"pause", "resume", "stop"}, Select(o, do)
      PROVE  PauseInv'
  <2>1. cmd' \in [Operators -> Commands] /\ ~FreshPause(o)'
        /\ \A p \in Operators \ {o} : cmd'[p] = cmd[p]
    BY <1>2 DEF Select, PauseTypeOK, Commands, FreshPause
  <2>2. UNCHANGED <<meta, control, rpc, ret, claimed, fresh>>
    BY <1>2 DEF Select, fileVars, runnerVars, loopHistory
  <2>3. PauseTypeOK'
    BY <2>1, <2>2 DEF PauseTypeOK
  <2>. QED BY <2>1, <2>2, <2>3 DEF FreshPause
<1>3. ASSUME WriteControl(o)
      PROVE  PauseInv'
  <2>1. cmd[o].do \in {"pause", "resume", "stop"} /\ cmd[o].at = "write"
    BY <1>3 DEF WriteControl, PauseTypeOK, Commands, NoCommand
  <2>2. /\ control' \in {"running", "paused", "stopped"}
        /\ cmd[o].do = "pause" => control' = "paused"
    <3>1. control' = Desired(cmd[o].do)
      BY <1>3 DEF WriteControl
    <3>. QED BY <2>1, <3>1, Zenon DEF Desired
  <2>3. /\ cmd' \in [Operators -> Commands] /\ cmd'[o].do = cmd[o].do
        /\ \A c \in Operators \ {o} : cmd'[c] = cmd[c]
    BY <1>3, <2>1 DEF WriteControl, PauseTypeOK, Commands, NoCommand
  <2>4. /\ fresh' = {c \in fresh \cup {o} :
                       control' # "running" /\ (c = o => meta.phase # "paused")}
        /\ claimed' = (claimed /\ control' # "running")
        /\ UNCHANGED <<meta, rpc, ret>>
    BY <1>3 DEF WriteControl, runnerVars
  <2>5. PauseTypeOK'
    BY <2>2, <2>3, <2>4 DEF PauseTypeOK
  <2>6. ASSUME NEW p \in Operators, FreshPause(p)'
        PROVE  IF p = o THEN meta.phase # "paused" /\ control' = "paused"
                        ELSE FreshPause(p) /\ control' # "running"
    BY <2>2, <2>3, <2>4, <2>6 DEF FreshPause
  <2>. QED BY <2>2, <2>4, <2>5, <2>6
<1>4. ASSUME Report(o) \/ GiveUp(o)
      PROVE  PauseInv'
  <2>1. cmd' \in [Operators -> Commands] /\ ~FreshPause(o)'
        /\ \A p \in Operators \ {o} : cmd'[p] = cmd[p]
    BY <1>4 DEF Report, GiveUp, NoCommand, PauseTypeOK, Commands, FreshPause
  <2>2. UNCHANGED <<meta, control, rpc, ret>> /\ fresh' = fresh \ {o}
    BY <1>4 DEF Report, GiveUp, fileVars, runnerVars
  <2>3. claimed' \in BOOLEAN
        /\ \/ ~claimed'
           \/ claimed
           \/ FreshPause(o) /\ meta.phase = "paused" /\ control # "running"
    <3>1. CASE GiveUp(o)
      BY <3>1 DEF GiveUp, PauseTypeOK
    <3>2. CASE Report(o)
      <4>1. cmd[o].at = "wait" /\ Reached(cmd[o].do)
        BY <3>2 DEF Report
      <4>2. claimed' = (claimed \/ (/\ cmd[o].do = "pause" /\ o \in fresh
                                    /\ Active /\ control # "running"))
        BY <3>2 DEF Report
      <4>3. cmd[o].do = "pause" /\ Active => meta.phase = "paused"
        BY <4>1 DEF Reached
      <4>. QED BY <4>1, <4>2, <4>3 DEF FreshPause
    <3>. QED BY <1>4, <3>1, <3>2
  <2>4. PauseTypeOK'
    BY <2>1, <2>2, <2>3 DEF PauseTypeOK
  <2>5. claimed' => control # "running" /\ rpc \in PausedPlaces \ {"resuming"}
    BY <2>3
  <2>. QED BY <2>1, <2>2, <2>4, <2>5 DEF FreshPause
<1>. QED BY <1>1, <1>2, <1>3, <1>4

\* The steps of the runner keep PauseInv: to leave the check for another place
\* than "pausing" or the end it must have read "running".
LEMMA RunnerPause ==
    ASSUME PauseInv, LoopStep \/ Interrupted \/ Killed
    PROVE  PauseInv'
<1>. USE DEF PauseInv
<1>a. {"starting", "observing", "paused", "resuming", "action", "waiting", "stopped",
       "error"} \subseteq Phases
  BY DEF Phases
<1>1. UNCHANGED <<cmd, fresh>> /\ \A o \in Operators : FreshPause(o)' = FreshPause(o)
  BY DEF LoopStep, Interrupted, Killed, operatorVars, RegisterRun,
      RegisterControl, Check, Resuming, Pausing, ObserveAtEnd, ObserveFails,
      Observe, Accept, Pick, Type, DelayOver, ControlTick, PollTick, Finish,
      loopHistory, FreshPause
<1>2. CASE RegisterRun
  <2>1. meta' \in MetaFiles /\ meta'.phase = "starting"
    BY <1>2 DEF RegisterRun, MetaFiles, Phases
  <2>. QED
  BY <1>1, <2>1, <1>2 DEF RegisterRun, PauseTypeOK, RunnerPlaces, PausedPlaces,
      loopHistory
<1>3. CASE RegisterControl
  BY <1>1, <1>3 DEF RegisterControl, PauseTypeOK, RunnerPlaces, PausedPlaces
<1>4. CASE Check
  BY <1>1, <1>4 DEF Check, PauseTypeOK, RunnerPlaces, PausedPlaces, EndAs,
      fileVars, loopHistory
<1>5. CASE Resuming
  BY <1>1, <1>5, <1>a, PhaseSet DEF Resuming, PauseTypeOK, RunnerPlaces,
      PausedPlaces, loopHistory
<1>6. CASE Pausing
  BY <1>1, <1>6, <1>a, PhaseSet DEF Pausing, PauseTypeOK, RunnerPlaces,
      PausedPlaces, loopHistory
<1>7. CASE ObserveAtEnd \/ ObserveFails
  BY <1>1, <1>7, <1>a, PhaseSet DEF ObserveAtEnd, ObserveFails, EndAs,
      PauseTypeOK, RunnerPlaces, PausedPlaces, loopHistory, fileVars
<1>8. CASE Observe
  BY <1>1, <1>8, <1>a, PhaseSet DEF Observe, EndAs, PauseTypeOK, RunnerPlaces,
      PausedPlaces, loopHistory, fileVars
<1>9. CASE Accept
  BY <1>1, <1>9, <1>a, PhaseSet DEF Accept, EndAs, PauseTypeOK, RunnerPlaces,
      PausedPlaces, loopHistory, fileVars
<1>10. CASE Pick
  <2>1. /\ UNCHANGED meta \/ Phase("waiting")
        /\ rpc' \in {"finish", "tick", "check"} /\ ret' \in {ret, "type"}
        /\ UNCHANGED <<control, claimed>> /\ rpc = "pick"
    BY <1>10 DEF Pick, EndAs, CheckThen, loopHistory
  <2>2. meta' \in MetaFiles /\ meta'.phase # "paused"
    BY <2>1, <1>a, PhaseSet DEF PauseTypeOK, PausedPlaces
  <2>. QED
    BY <1>1, <2>1, <2>2 DEF PauseTypeOK, RunnerPlaces, PausedPlaces
<1>11. CASE Type
  <2>1. /\ Phase("action") /\ rpc' \in {"finish", "delay", "check", "pick"}
        /\ ret' \in {ret, "type"}
        /\ UNCHANGED <<control, claimed>> /\ rpc = "type"
    BY <1>11 DEF Type, NextStep, ItemDone, EndAs, CheckThen
  <2>2. meta' \in MetaFiles /\ meta'.phase # "paused"
    BY <2>1, <1>a, PhaseSet DEF PauseTypeOK
  <2>. QED
    BY <1>1, <2>1, <2>2 DEF PauseTypeOK, RunnerPlaces, PausedPlaces
<1>12. CASE DelayOver \/ ControlTick \/ PollTick
  <2>1. /\ rpc' \in {"check", "pick"} /\ ret' \in {ret, "type", "delay", "tick", "observe"}
        /\ UNCHANGED <<meta, control, claimed>> /\ rpc \in {"delay", "tick"}
    BY <1>12 DEF DelayOver, ControlTick, PollTick, NextStep, ItemDone, CheckThen,
        fileVars, loopHistory
  <2>. QED
    BY <1>1, <2>1 DEF PauseTypeOK, RunnerPlaces, PausedPlaces
<1>13. CASE Finish
  <2>1. meta' \in MetaFiles /\ meta'.phase # "paused"
    BY <1>13 DEF Finish, MetaFiles, Phases
  <2>. QED
    BY <1>1, <2>1, <1>13 DEF Finish, Exit, PauseTypeOK, RunnerPlaces,
        PausedPlaces, loopHistory
<1>14. CASE Interrupted \/ Killed
  BY <1>1, <1>14 DEF Interrupted, Killed, Exit, EndAs, PauseTypeOK, RunnerPlaces,
      PausedPlaces, loopHistory, fileVars
<1>. QED BY <1>2, <1>3, <1>4, <1>5, <1>6, <1>7, <1>8, <1>9, <1>10, <1>11, <1>12,
    <1>13, <1>14 DEF LoopStep

\* Time and the screen.
World == TimePasses \/ \E to \in {"plain", "prompt", "capacity"} : ScreenChanges(to)

\* Every step keeps PauseInv.
LEMMA PauseStep ==
    ASSUME PauseInv, [LoopNext]_loopVars
    PROVE  PauseInv'
<1>1. CASE World \/ UNCHANGED loopVars
  <2>1. UNCHANGED <<cmd, fresh, meta, control, rpc, ret, claimed>>
    BY <1>1 DEF World, TimePasses, ScreenChanges, loopVars, fileVars, runnerVars,
        operatorVars, loopHistory
  <2>. QED BY <2>1 DEF PauseInv, PauseTypeOK, FreshPause
<1>. QED BY <1>1, CommandsPause, RunnerPause DEF LoopNext, World

\* An input since the request: only a check lies ahead.
LateInv ==
    /\ late \in {0, 1}
    /\ late > 0 => /\ control # "running"
                   /\ rpc \notin {"type", "accept", "observe", "resuming"}

\* Every step keeps LateInv: the runner that typed after a pause meets a check
\* before it observes or types again.
LEMMA LateStep ==
    ASSUME PauseInv, LateInv, [LoopNext]_loopVars
    PROVE  LateInv'
<1>. USE DEF LateInv
<1>1. CASE RegisterRun \/ RegisterControl
  BY <1>1 DEF RegisterRun, RegisterControl, loopHistory
<1>2. CASE Check \/ Resuming \/ Pausing
  <2>1. UNCHANGED <<late, control>>
    BY <1>2 DEF Check, Resuming, Pausing, loopHistory, fileVars
  <2>2. late > 0 => rpc' \in {"finish", "pausing", "check"}
    BY <1>2 DEF Check, Resuming, Pausing, EndAs
  <2>. QED BY <2>1, <2>2
<1>3. CASE ObserveAtEnd \/ ObserveFails \/ Observe
  BY <1>3 DEF ObserveAtEnd, ObserveFails, Observe, EndAs, loopHistory, fileVars
<1>4. CASE Accept
  BY <1>4 DEF Accept, EndAs, fileVars
<1>5. CASE Pick
  BY <1>5 DEF Pick, EndAs, CheckThen, loopHistory
<1>6. CASE Type
  BY <1>6 DEF Type, NextStep, ItemDone, EndAs, CheckThen
<1>7. CASE DelayOver \/ ControlTick \/ PollTick
  BY <1>7 DEF DelayOver, ControlTick, PollTick, NextStep, ItemDone, CheckThen,
      loopHistory, fileVars
<1>8. CASE Finish \/ Interrupted \/ Killed
  BY <1>8 DEF Finish, Interrupted, Killed, Exit, EndAs, loopHistory, fileVars
<1>9. CASE OperatorStep
  <2>1. PICK o \in Operators : \/ \E do \in {"pause", "resume", "stop"} : Select(o, do)
                               \/ WriteControl(o) \/ Report(o) \/ GiveUp(o)
    BY <1>9 DEF OperatorStep
  <2>2. /\ rpc' = rpc
        /\ \/ UNCHANGED <<control, late>>
           \/ late' = IF control' = "running" THEN 0 ELSE late
    BY <2>1 DEF Select, WriteControl, Report, GiveUp, fileVars, runnerVars,
        loopHistory
  <2>. QED BY <2>2
<1>10. CASE World \/ UNCHANGED loopVars
  BY <1>10 DEF World, TimePasses, ScreenChanges, loopVars, fileVars, runnerVars,
      loopHistory
<1>. QED BY <1>1, <1>2, <1>3, <1>4, <1>5, <1>6, <1>7, <1>8, <1>9, <1>10
    DEF LoopNext, LoopStep, World

\* A capacity prompt that is on the screen and not accepted has not been counted
\* by `enters`; the flag that remembers it is dropped only when it is gone.
CapacityInv ==
    /\ enters \in Nat /\ shown \in Nat /\ enters <= shown
    /\ answered \in BOOLEAN
    /\ screen = "capacity" => shown > 0
    /\ ~StopOnPrompt => enters = 0 /\ rpc # "accept"
    /\ rpc = "accept" => enters < shown
    /\ screen = "capacity" /\ ~answered /\ Alive => enters < shown

\* Every step keeps CapacityInv.
LEMMA CapacityStep ==
    ASSUME PauseInv, CapacityInv, [LoopNext]_loopVars
    PROVE  CapacityInv'
<1>. USE DEF CapacityInv, Alive
<1>1. CASE RegisterRun \/ RegisterControl
  BY <1>1 DEF RegisterRun, RegisterControl, loopHistory, paneVars, gateVars
<1>2. CASE Check \/ Resuming \/ Pausing
  BY <1>2 DEF Check, Resuming, Pausing, EndAs, loopHistory, paneVars, gateVars,
      PauseInv, PauseTypeOK
<1>3. CASE ObserveAtEnd \/ ObserveFails
  BY <1>3 DEF ObserveAtEnd, ObserveFails, EndAs, loopHistory, paneVars, gateVars
<1>4. CASE Observe
  <2>1. UNCHANGED <<enters, shown, screen>> /\ rpc = "observe"
    BY <1>4 DEF Observe, loopHistory, paneVars
  <2>2. \/ /\ screen # "capacity" \/ ~StopOnPrompt
           /\ answered' = FALSE /\ rpc' \in {"finish", "pick"}
        \/ /\ screen = "capacity" /\ StopOnPrompt /\ answered' = answered
           /\ rpc' \in {"accept", "tick"} /\ (rpc' = "accept" => ~answered)
    BY <1>4 DEF Observe, EndAs
  <2>. QED BY <2>1, <2>2
<1>5. CASE Accept
  <2>1. UNCHANGED <<shown, screen>> /\ enters < shown
    BY <1>5 DEF Accept, paneVars
  <2>2. CASE enters' = enters + 1 /\ answered' = TRUE /\ rpc' = "tick"
    BY <2>1, <2>2, <1>5 DEF Accept
  <2>3. CASE rpc' = "finish" /\ UNCHANGED <<enters, answered>>
    BY <2>1, <2>3
  <2>. QED BY <1>5, <2>2, <2>3 DEF Accept, EndAs
<1>6. CASE Pick
  BY <1>6 DEF Pick, EndAs, CheckThen, loopHistory, paneVars, gateVars
<1>7. CASE Type
  BY <1>7 DEF Type, NextStep, ItemDone, EndAs, CheckThen, paneVars, gateVars
<1>8. CASE DelayOver \/ ControlTick \/ PollTick
  BY <1>8 DEF DelayOver, ControlTick, PollTick, NextStep, ItemDone, CheckThen,
      loopHistory, paneVars, gateVars
<1>9. CASE Finish \/ Interrupted \/ Killed
  BY <1>9 DEF Finish, Interrupted, Killed, Exit, EndAs, loopHistory, paneVars,
      gateVars
<1>10. CASE OperatorStep
  <2>1. UNCHANGED <<enters, shown, answered, screen, rpc>>
    BY <1>10 DEF OperatorStep, Select, WriteControl, Report, GiveUp, paneVars,
        runnerVars, gateVars, loopHistory
  <2>. QED BY <2>1
<1>11. CASE World \/ UNCHANGED loopVars
  <2>1. UNCHANGED <<enters, answered, rpc>>
    BY <1>11 DEF World, TimePasses, ScreenChanges, loopVars, runnerVars, gateVars,
        loopHistory
  <2>2. \/ UNCHANGED <<screen, shown>>
        \/ screen' # "capacity" /\ shown' = shown
        \/ shown' = shown + 1
    BY <1>11 DEF World, TimePasses, ScreenChanges, loopVars, paneVars
  <2>. QED BY <2>1, <2>2
<1>. QED BY <1>1, <1>2, <1>3, <1>4, <1>5, <1>6, <1>7, <1>8, <1>9, <1>10, <1>11
    DEF LoopNext, LoopStep, World

\* What LoopAssumption says of one item.
LEMMA ItemFacts ==
    ASSUME NEW i \in DOMAIN Items
    PROVE  /\ Items[i].steps \in Nat \ {0} /\ Items[i].every \in Nat
           /\ Items[i].flow \in BOOLEAN /\ (~Items[i].flow => Items[i].steps = 1)
           /\ MaxActions \in Nat /\ Items[i].delay \in Nat
<1>1. Items[i] \in ItemType
  BY LoopAssumption
<1>. QED BY <1>1, LoopAssumption DEF ItemType

\* The item that Pick chooses.
LEMMA PickChooses ==
    ASSUME item \in Nat \ {0}, Startable(item) # {}
    PROVE  /\ FirstOf(Startable(item)) \in DOMAIN Items
           /\ item <= FirstOf(Startable(item)) /\ item <= Len(Items)
           /\ MayStart(FirstOf(Startable(item)))
<1>1. Len(Items) \in Nat /\ DOMAIN Items = 1..Len(Items)
  BY LoopAssumption
<1>2. Startable(item) \subseteq Nat
  BY <1>1 DEF Startable
<1>3. PICK i \in Startable(item) : \A j \in Startable(item) : i <= j
  BY <1>2, Least
<1>4. FirstOf(Startable(item)) \in Startable(item)
  BY <1>3 DEF FirstOf
<1>. HIDE DEF Startable, FirstOf
<1>. DEFINE f == FirstOf(Startable(item))
<1>5. f \in item..Len(Items) /\ MayStart(f)
  <2>. HIDE DEF f
  <2>1. f \in Startable(item) BY <1>4 DEF f
  <2>. QED BY <2>1 DEF Startable
<1>. QED BY <1>1, <1>5

\* What was typed is what was counted and the steps of the item under way, and
\* the whole item fits into max_actions.
StepsInv ==
    /\ count \in Nat /\ step \in Nat /\ typed \in Nat /\ item \in Nat \ {0}
    /\ MaxActions > 0 => typed <= MaxActions
    /\ ~Over => /\ Bound = "delay" => typed = count + step + 1
                /\ Bound # "delay" => typed = count + step
                /\ Bound \notin {"type", "delay"} => step = 0
                /\ Bound \in {"type", "delay"} =>
                     /\ item \in DOMAIN Items /\ step < Items[item].steps
                     /\ MaxActions > 0 => count + Items[item].steps <= MaxActions

\* After a step was typed: the next one, or the item is done and counted.
LEMMA NextStepSteps ==
    ASSUME NEW n, n = count + step + 1, step \in Nat, count \in Nat,
           item \in DOMAIN Items, step < Items[item].steps,
           MaxActions > 0 => count + Items[item].steps <= MaxActions,
           NextStep
    PROVE  /\ n = count' + step' /\ count' \in Nat /\ step' \in Nat /\ item' \in Nat \ {0}
           /\ \/ rpc' = "pick" /\ step' = 0
              \/ /\ rpc' = "check" /\ ret' = "type" /\ item' = item
                 /\ step' < Items[item'].steps
                 /\ MaxActions > 0 => count' + Items[item'].steps <= MaxActions
<1>1. Items[item].steps \in Nat \ {0} /\ MaxActions \in Nat /\ item \in Nat \ {0}
  BY ItemFacts, LoopAssumption
<1>. QED
  BY <1>1 DEF NextStep, ItemDone, CheckThen

\* A step that was typed keeps StepsInv.
LEMMA StepTyped ==
    ASSUME typed' = count + step + 1, step \in Nat, count \in Nat,
           item \in DOMAIN Items, step < Items[item].steps,
           MaxActions > 0 => count + Items[item].steps <= MaxActions,
           NextStep
    PROVE  StepsInv'
<1>1. /\ typed' = count' + step' /\ count' \in Nat /\ step' \in Nat /\ item' \in Nat \ {0}
      /\ \/ rpc' = "pick" /\ step' = 0
         \/ /\ rpc' = "check" /\ ret' = "type" /\ item' = item
            /\ step' < Items[item'].steps
            /\ MaxActions > 0 => count' + Items[item'].steps <= MaxActions
  BY NextStepSteps
<1>6. typed' = count' + step' /\ count' \in Nat /\ step' \in Nat
  BY <1>1, Zenon
<1>2. typed' \in Nat
  BY <1>6
<1>3. MaxActions > 0 => typed' <= MaxActions
  BY ItemFacts
<1>7. (count \in Nat /\ step \in Nat /\ item \in Nat \ {0})'
  BY <1>1
<1>4. CASE rpc' = "pick" /\ step' = 0
  <2>1. Bound' = "pick"
    BY <1>4 DEF Bound
  <2>. HIDE DEF Bound
  <2>. QED BY <1>2, <1>3, <1>4, <1>6, <1>7, <2>1 DEF StepsInv
<1>5. CASE rpc' = "check" /\ ret' = "type"
  <2>1. Bound' = "type"
    BY <1>5 DEF Bound
  <2>2. /\ item' \in DOMAIN Items /\ step' < Items[item'].steps
        /\ MaxActions > 0 => count' + Items[item'].steps <= MaxActions
    BY <1>1, <1>5
  <2>. HIDE DEF Bound
  <2>. QED BY <1>2, <1>3, <1>6, <1>7, <2>1, <2>2 DEF StepsInv
<1>. QED BY <1>1, <1>4, <1>5

\* Every step keeps StepsInv: Pick begins only what fits into max_actions.
LEMMA StepsStep ==
    ASSUME PauseInv, StepsInv, [LoopNext]_loopVars
    PROVE  StepsInv'
<1>. USE DEF StepsInv, Over, Bound
<1>0. ret \in {"observe", "tick", "type", "delay"} /\ MaxActions \in Nat
  BY LoopAssumption DEF PauseInv, PauseTypeOK
<1>1. CASE RegisterRun \/ RegisterControl
  BY <1>0, <1>1 DEF RegisterRun, RegisterControl, loopHistory, planVars
<1>2. CASE Check \/ Resuming \/ Pausing
  BY <1>0, <1>2 DEF Check, Resuming, Pausing, EndAs, loopHistory, planVars
<1>3. CASE ObserveAtEnd \/ ObserveFails \/ Observe
  BY <1>0, <1>3 DEF ObserveAtEnd, ObserveFails, Observe, EndAs, loopHistory,
      planVars
<1>5. CASE Accept
  BY <1>0, <1>5 DEF Accept, EndAs, planVars
<1>6. CASE Pick
  <2>. DEFINE f == FirstOf(Startable(item))
  <2>1. UNCHANGED <<typed, count>> /\ step' = 0 /\ rpc = "pick" /\ typed = count
    BY <1>6 DEF Pick, loopHistory
  <2>2. CASE rpc' \in {"finish", "tick"} /\ item' \in Nat \ {0}
    BY <2>1, <2>2
  <2>3. CASE /\ item <= Len(Items) => ~BudgetSpent
             /\ Startable(item) # {} /\ item' = f
             /\ ~TooLong(f) /\ CheckThen("type")
    <3>1. f \in DOMAIN Items /\ item <= Len(Items)
      BY <2>3, PickChooses
    <3>2. /\ Items[f].steps \in Nat \ {0} /\ Items[f].flow \in BOOLEAN
          /\ ~Items[f].flow => Items[f].steps = 1
      BY <3>1, ItemFacts
    <3>. HIDE DEF f
    <3>3. MaxActions > 0 => count + Items[f].steps <= MaxActions
      BY <2>3, <3>1, <3>2, <1>0 DEF BudgetSpent, TooLong
    <3>4. f \in Nat \ {0}
      BY <3>1, LoopAssumption
    <3>. QED BY <2>1, <2>3, <3>1, <3>2, <3>3, <3>4 DEF CheckThen
  <2>4. Startable(item) # {} => f \in Nat \ {0}
    BY PickChooses, LoopAssumption
  <2>5. \/ /\ item <= Len(Items) => ~BudgetSpent
           /\ Startable(item) # {} /\ item' = f
           /\ ~TooLong(f) /\ CheckThen("type")
        \/ rpc' \in {"finish", "tick"} /\ item' \in Nat \ {0}
    <3>. HIDE DEF f
    <3>. QED BY <1>6, <2>4 DEF Pick, EndAs, f
  <2>. QED BY <2>2, <2>3, <2>5
<1>7. CASE Type
  <2>1. /\ rpc = "type"
        /\ \/ EndAs("error") /\ UNCHANGED <<planVars, typed>>
           \/ typed' = typed + 1 /\ rpc' = "delay" /\ UNCHANGED planVars
           \/ typed' = typed + 1 /\ NextStep
    BY <1>7 DEF Type
  <2>2. Items[item].steps \in Nat \ {0}
    BY <2>1, ItemFacts
  <2>3. CASE EndAs("error") /\ UNCHANGED <<planVars, typed>>
    BY <2>3 DEF EndAs, planVars
  <2>4. CASE typed' = typed + 1 /\ rpc' = "delay" /\ UNCHANGED planVars
    BY <1>0, <2>1, <2>2, <2>4 DEF planVars
  <2>5. CASE typed' = typed + 1 /\ NextStep
    <3>. HIDE DEF Over
    <3>1. /\ typed' = count + step + 1 /\ rpc = "type"
          /\ item \in DOMAIN Items /\ step < Items[item].steps
          /\ MaxActions > 0 => count + Items[item].steps <= MaxActions
      BY <2>1, <2>5 DEF Over
    <3>2. NextStep BY <2>5
    <3>. QED BY <3>1, <3>2, StepTyped
  <2>. QED BY <2>1, <2>3, <2>4, <2>5
<1>8. CASE DelayOver
  <2>1. typed' = typed /\ rpc = "delay" /\ NextStep
    BY <1>8 DEF DelayOver
  <2>2. /\ typed' = count + step + 1
        /\ item \in DOMAIN Items /\ step < Items[item].steps
        /\ MaxActions > 0 => count + Items[item].steps <= MaxActions
    BY <2>1
  <2>. QED BY <2>1, <2>2, StepTyped
<1>9. CASE ControlTick \/ PollTick
  BY <1>9 DEF ControlTick, PollTick, CheckThen, loopHistory, planVars
<1>10. CASE Finish \/ Interrupted \/ Killed
  BY <1>10 DEF Finish, Interrupted, Killed, Exit, EndAs, loopHistory, planVars
<1>11. CASE OperatorStep \/ World \/ UNCHANGED loopVars
  <2>1. UNCHANGED <<typed, count, step, item, rpc, ret>>
    BY <1>11 DEF OperatorStep, Select, WriteControl, Report, GiveUp, World,
        TimePasses, ScreenChanges, loopVars, runnerVars, planVars, loopHistory
  <2>. QED BY <2>1
<1>. QED BY <1>1, <1>2, <1>3, <1>5, <1>6, <1>7, <1>8, <1>9, <1>10, <1>11
    DEF LoopNext, LoopStep, World

Schedules == [next : Int, runs : Nat, limit : Int]
Working == Bound \in {"type", "delay"}
\* An item that has run is due an interval after the cycle that chose it, and the
\* cycle that chose the item under way was no earlier.
BurstInv ==
    /\ clock \in Int /\ cycle \in Int /\ cycle <= clock
    /\ sched \in [DOMAIN Items -> Schedules]
    /\ chosen \in [DOMAIN Items -> Int]
    /\ \A i \in DOMAIN Items :
          /\ chosen[i] <= cycle
          /\ sched[i].runs > 0 /\ Items[i].every > 0 =>
                sched[i].next = chosen[i] + Items[i].every
          /\ Working /\ item = i /\ sched[i].runs > 0 =>
                cycle >= chosen[i] + Items[i].every

\* A step that schedules nothing.
LEMMA BurstKept ==
    ASSUME BurstInv, UNCHANGED <<sched, chosen, cycle>>, clock' \in Int, clock' >= clock,
           Working' => Working /\ item' = item
    PROVE  BurstInv'
BY DEF BurstInv

\* What the end of an item schedules: the next run an interval after the cycle
\* that chose this one.
LEMMA Scheduled ==
    ASSUME BurstInv, item \in DOMAIN Items, Working, NextStep, UNCHANGED <<clock, cycle>>,
           Working' \in BOOLEAN
    PROVE  /\ BurstInv'
           /\ \A i \in DOMAIN Items :
                sched'[i].runs > sched[i].runs /\ sched[i].runs > 0 =>
                    chosen'[i] >= chosen[i] + Items[i].every
<1>1. CASE step + 1 < Items[item].steps /\ step' = step + 1 /\ CheckThen("type")
           /\ UNCHANGED <<sched, count, item, chosen>>
  <2>1. BurstInv'
    BY <1>1, BurstKept DEF BurstInv
  <2>. QED BY <1>1, <2>1 DEF BurstInv, Schedules
<1>2. CASE ItemDone
  <2>1. Items[item].every \in Nat
    BY ItemFacts
  <2>2. sched[item] \in Schedules
    BY DEF BurstInv
  <2>3. /\ NextRun(item) \in Int
        /\ Items[item].every > 0 => NextRun(item) = cycle + Items[item].every
    BY <2>1 DEF NextRun, BurstInv
  <2>4. PICK n \in Schedules : /\ n.next = NextRun(item) /\ n.runs = sched[item].runs + 1
                               /\ sched' = [sched EXCEPT ![item] = n]
    <3>. DEFINE n == [next |-> NextRun(item), runs |-> sched[item].runs + 1,
                      limit |-> IF Items[item].every > 0 THEN sched[item].limit
                                ELSE sched[item].runs + 1]
    <3>1. n \in Schedules
      BY <2>2, <2>3 DEF Schedules
    <3>2. sched' = [sched EXCEPT ![item] = n]
      BY <1>2 DEF ItemDone
    <3>. QED BY <3>1, <3>2
  <2>5. chosen' = [chosen EXCEPT ![item] = cycle] /\ ~Working'
    BY <1>2 DEF ItemDone, Working, Bound
  <2>. HIDE DEF Schedules
  <2>6. \A i \in DOMAIN Items : IF i = item THEN sched'[i] = n /\ chosen'[i] = cycle
                                ELSE sched'[i] = sched[i] /\ chosen'[i] = chosen[i]
    BY <2>4, <2>5 DEF BurstInv
  <2>7. sched' \in [DOMAIN Items -> Schedules] /\ chosen' \in [DOMAIN Items -> Int]
    BY <2>4, <2>5 DEF BurstInv
  <2>8. BurstInv'
    BY <2>1, <2>3, <2>4, <2>5, <2>6, <2>7 DEF BurstInv
  <2>9. ASSUME NEW i \in DOMAIN Items, sched'[i].runs > sched[i].runs, sched[i].runs > 0
        PROVE  chosen'[i] >= chosen[i] + Items[i].every
    <3>1. sched[i].runs \in Nat
      BY DEF BurstInv, Schedules
    <3>2. i = item
      BY <2>6, <2>9, <3>1
    <3>. QED BY <2>6, <2>9, <3>2 DEF BurstInv
  <2>. QED BY <2>8, <2>9
<1>. QED BY <1>1, <1>2 DEF NextStep

\* The action that NoCatchUpBurst forbids the opposite of: a run that follows
\* another was chosen an interval after it.
BurstStep ==
    \A i \in DOMAIN Items :
        sched'[i].runs > sched[i].runs /\ sched[i].runs > 0 =>
            chosen'[i] >= chosen[i] + Items[i].every

\* Nothing is run by a step that schedules nothing.
LEMMA BurstUnscheduled ==
    ASSUME BurstInv, \A i \in DOMAIN Items : sched'[i] = sched[i] \/ sched'[i].runs = 0
    PROVE  BurstStep
BY DEF BurstInv, BurstStep, Schedules

\* Every step keeps BurstInv and the intervals.
LEMMA BurstNext ==
    ASSUME PauseInv, StepsInv, BurstInv, [LoopNext]_loopVars
    PROVE  BurstInv' /\ BurstStep
<1>0. ret \in {"observe", "tick", "type", "delay"} /\ clock \in Int /\ item \in Nat \ {0}
  BY DEF PauseInv, PauseTypeOK, BurstInv, StepsInv
<1>1. CASE RegisterRun \/ Check \/ Resuming \/ Pausing \/ ObserveAtEnd \/ ObserveFails
  <2>1. UNCHANGED <<sched, chosen, cycle, clock, item>> /\ (Working' => Working)
    BY <1>0, <1>1 DEF RegisterRun, Check, Resuming, Pausing, ObserveAtEnd,
        ObserveFails, EndAs, planVars, loopHistory, paneVars, Working, Bound
  <2>. QED BY <1>0, <2>1, BurstKept, BurstUnscheduled
<1>2. CASE RegisterControl
  <2>1. UNCHANGED <<chosen, cycle, clock, item>> /\ ~Working'
    BY <1>2 DEF RegisterControl, paneVars, Working, Bound
  <2>2. /\ sched' \in [DOMAIN Items -> Schedules]
        /\ \A i \in DOMAIN Items : sched'[i].runs = 0
    <3>1. \A i \in DOMAIN Items :
            [next |-> clock + Items[i].delay, runs |-> 0,
             limit |-> Items[i].maxRuns] \in Schedules
      <4>1. \A i \in DOMAIN Items : Items[i] \in ItemType
        BY LoopAssumption
      <4>. QED BY <4>1, <1>0 DEF ItemType, Schedules
    <3>2. sched' = [i \in DOMAIN Items |->
                      [next |-> clock + Items[i].delay, runs |-> 0,
                       limit |-> Items[i].maxRuns]]
      BY <1>2 DEF RegisterControl
    <3>. QED BY <3>1, <3>2
  <2>3. BurstInv'
    BY <2>1, <2>2 DEF BurstInv
  <2>. QED BY <2>2, <2>3, BurstUnscheduled
<1>3. CASE Observe
  <2>1. UNCHANGED <<sched, chosen, clock>> /\ cycle' = clock /\ ~Working'
    BY <1>3 DEF Observe, EndAs, loopHistory, paneVars, Working, Bound
  <2>2. BurstInv'
    BY <2>1 DEF BurstInv
  <2>. QED BY <2>1, <2>2, BurstUnscheduled
<1>4. CASE Accept \/ ControlTick \/ PollTick \/ Finish \/ Interrupted \/ Killed
  <2>1. UNCHANGED <<sched, chosen, cycle, clock>> /\ (Working' => Working /\ item' = item)
    BY <1>4 DEF Accept, ControlTick, PollTick, Finish, Interrupted, Killed, Exit,
        EndAs, CheckThen, planVars, loopHistory, paneVars, Working, Bound
  <2>. QED BY <1>0, <2>1, BurstKept, BurstUnscheduled
<1>5. CASE Pick
  <2>. DEFINE f == FirstOf(Startable(item))
  <2>1. UNCHANGED <<sched, chosen, cycle, clock>> /\ rpc = "pick"
    BY <1>5 DEF Pick, loopHistory, paneVars
  <2>2. CASE ~Working'
    BY <1>0, <2>1, <2>2, BurstKept, BurstUnscheduled
  <2>3. CASE Startable(item) # {} /\ item' = f
    <3>1. f \in DOMAIN Items /\ MayStart(f)
      BY <1>0, <2>3, PickChooses
    <3>2. cycle >= sched[f].next
      BY <3>1 DEF MayStart, Due
    <3>3. Items[f].every \in Nat
      BY <3>1, ItemFacts
    <3>. HIDE DEF f
    <3>4. sched[f].runs > 0 => cycle >= chosen[f] + Items[f].every
      BY <3>1, <3>2, <3>3 DEF BurstInv
    <3>5. BurstInv'
      BY <2>1, <2>3, <3>4 DEF BurstInv
    <3>. QED BY <2>1, <3>5, BurstUnscheduled
  <2>4. ~Working' \/ (Startable(item) # {} /\ item' = f)
    <3>. HIDE DEF f
    <3>. QED BY <1>5 DEF Pick, EndAs, Working, Bound, f
  <2>. QED BY <2>2, <2>3, <2>4
<1>6. CASE Type
  <2>1. UNCHANGED <<clock, cycle>> /\ rpc = "type" /\ Working /\ item \in DOMAIN Items
    BY <1>6 DEF Type, paneVars, Working, Bound, StepsInv, Over
  <2>2. CASE NextStep
    BY <2>1, <2>2, Scheduled DEF BurstStep, Working
  <2>3. CASE UNCHANGED <<sched, chosen, item>>
    BY <1>0, <2>1, <2>3, BurstKept, BurstUnscheduled
  <2>. QED BY <1>6, <2>2, <2>3 DEF Type, planVars
<1>7. CASE DelayOver
  <2>1. /\ UNCHANGED <<clock, cycle>> /\ rpc = "delay" /\ Working
        /\ item \in DOMAIN Items /\ NextStep
    BY <1>7 DEF DelayOver, paneVars, Working, Bound, StepsInv, Over
  <2>. QED BY <2>1, Scheduled DEF BurstStep, Working
<1>8. CASE OperatorStep \/ World \/ UNCHANGED loopVars
  <2>1. UNCHANGED <<sched, chosen, cycle, item, rpc, ret>> /\ clock' \in {clock, clock + 1}
    BY <1>8 DEF OperatorStep, Select, WriteControl, Report, GiveUp, World,
        TimePasses, ScreenChanges, loopVars, runnerVars, planVars, paneVars,
        loopHistory
  <2>2. Working' => Working /\ item' = item
    BY <2>1 DEF Working, Bound
  <2>. QED BY <1>0, <2>1, <2>2, BurstKept, BurstUnscheduled
<1>. QED BY <1>1, <1>2, <1>3, <1>4, <1>5, <1>6, <1>7, <1>8 DEF LoopNext, LoopStep,
    World

\* All of it.
LoopInv == PauseInv /\ LateInv /\ CapacityInv /\ StepsInv /\ BurstInv

\* The first state.
LEMMA LoopInitially == LoopInit => LoopInv
<1>. SUFFICES ASSUME LoopInit PROVE LoopInv
  OBVIOUS
<1>1. PauseInv
  <2>1. cmd \in [Operators -> Commands]
    BY DEF LoopInit, Commands
  <2>2. meta \in MetaFiles /\ meta.phase = "none"
    BY DEF LoopInit, MetaFiles, Phases
  <2>. QED BY <2>1, <2>2 DEF LoopInit, PauseInv, PauseTypeOK, RunnerPlaces,
      FreshPause
<1>2. LateInv
  BY DEF LoopInit, LateInv
<1>5. CapacityInv
  <2>1. enters = 0 /\ shown = 0 /\ screen = "plain" /\ rpc = "register"
    BY DEF LoopInit
  <2>2. answered \in BOOLEAN
    BY DEF LoopInit
  <2>. QED BY <2>1, <2>2 DEF CapacityInv
<1>3. StepsInv
  BY LoopAssumption DEF LoopInit, StepsInv, Over, Bound
<1>4. BurstInv
  <2>1. [next |-> 0, runs |-> 0, limit |-> 0] \in Schedules
    BY DEF Schedules
  <2>. QED BY <2>1 DEF LoopInit, BurstInv, Working, Bound
<1>. QED BY <1>1, <1>2, <1>3, <1>4, <1>5 DEF LoopInv

\* Every step keeps the invariant.
LEMMA LoopInvNext == LoopInv /\ [LoopNext]_loopVars => LoopInv'
BY PauseStep, LateStep, CapacityStep, StepsStep, BurstNext DEF LoopInv

\* The inductive invariant of the runner and of those that command it.
THEOREM LoopInvariant == LoopSpec => []LoopInv
<1>. QED BY LoopInitially, LoopInvNext, PTL DEF LoopSpec

\* runner.go: after a pause or a stop at most one input, a capacity prompt
\* accepted once, max_actions never exceeded, whatever the items, the commands
\* and the moments at which the runner is interrupted or killed.
THEOREM InputsHaveACause == LoopSpec => []NoStrayInput
<1>1. LoopInv => NoStrayInput
  BY DEF LoopInv, LateInv, CapacityInv, StepsInv, NoStrayInput,
      AtMostOneLateInput, CapacityAnsweredOnce, BudgetKept
<1>. QED BY <1>1, LoopInvariant, PTL

\* Where a pause has been reported the runner is where it does not type.
LEMMA Quiet ==
    ASSUME LoopInv, [LoopNext]_loopVars, claimed
    PROVE  UNCHANGED <<typed, enters>>
<1>1. rpc \in {"check", "pausing", "finish", "gone"}
  BY DEF LoopInv, PauseInv, PausedPlaces
<1>2. CASE LoopStep
  BY <1>1, <1>2 DEF LoopStep, RegisterRun, RegisterControl, Check, Resuming,
      Pausing, ObserveAtEnd, ObserveFails, Observe, Accept, Pick, Type, DelayOver,
      ControlTick, PollTick, Finish, loopHistory
<1>3. CASE Interrupted \/ Killed \/ OperatorStep \/ World \/ UNCHANGED loopVars
  BY <1>3 DEF Interrupted, Killed, OperatorStep, Select, WriteControl, Report,
      GiveUp, World, TimePasses, ScreenChanges, loopHistory, loopVars
<1>. QED BY <1>2, <1>3 DEF LoopNext, World

\* Once `loop pause` said the loop is paused nothing is typed until somebody
\* resumes it.
THEOREM PauseHolds == LoopSpec => PausedMeansQuiet
<1>1. LoopInv /\ [LoopNext]_loopVars => [claimed => UNCHANGED <<typed, enters>>]_loopVars
  BY Quiet
<1>. QED BY <1>1, LoopInvariant, PTL DEF LoopSpec, PausedMeansQuiet

\* A schedule that was held up is not caught up on: the cycles that run an item
\* are its interval apart.
THEOREM IntervalsHold == LoopSpec => NoCatchUpBurst
<1>1. LoopInv /\ [LoopNext]_loopVars =>
        [\A i \in DOMAIN Items :
         sched'[i].runs > sched[i].runs /\ sched[i].runs > 0 =>
             chosen'[i] >= chosen[i] + Items[i].every]_loopVars
  BY BurstNext DEF LoopInv, BurstStep
<1>. QED BY <1>1, LoopInvariant, PTL DEF LoopSpec, NoCatchUpBurst

(***************************************************************************)
(* The commands that start a loop.                                         *)
(***************************************************************************)
\* A command that made the lock file, until it lets go of it.
Holds(s) == startAt[s] \in {"locked", "looking", "launching", "awaiting"}
Launching(s) == startAt[s] \in {"launching", "awaiting"}

LockFiles == [file : BOOLEAN, pid : Starters \cup {NoOne}, old : BOOLEAN]
Places == {"ready", "stopping", "locking", "again", "removing", "locked", "looking",
           "launching", "awaiting", "started", "already", "failed", "crashed"}

StartTypeOK ==
    /\ startAt \in [Starters -> Places]
    /\ lock \in [Locks -> LockFiles]
    /\ life \in [LoopRuns -> {"unused", "launched", "registered", "ended", "failed"}]
    /\ launched \in [Starters -> [run : SUBSET LoopRuns, old : SUBSET LoopRuns]]

\* Who holds a lock has its file to itself.
LocksExclude ==
    /\ \A s \in Starters : Holds(s) => lock[LockOf(s)].file
    /\ \A s, t \in Starters : Holds(s) /\ Holds(t) /\ LockOf(s) = LockOf(t) => s = t

\* One command at a time launches, whatever its lock.
LaunchersExclude == \A s, t \in Starters : Launching(s) /\ Launching(t) => s = t

\* A run that has not registered yet is awaited.
LaunchedIsAwaited ==
    \A r \in LoopRuns : life[r] = "launched" =>
        \E s \in Starters : startAt[s] = "awaiting" /\ launched[s].run = {r}

\* At most one run is alive, and none where one is about to be launched.
OneIsAlive ==
    /\ \A q, r \in LiveRuns : q = r
    /\ (\E s \in Starters : startAt[s] = "launching") => LiveRuns = {}

StartInv ==
    /\ StartTypeOK
    /\ excuses = {} => LocksExclude /\ LaunchersExclude /\ LaunchedIsAwaited /\ OneIsAlive

\* A command goes to another place; the others stay.
LEMMA Moved ==
    ASSUME StartTypeOK, NEW s \in Starters, NEW to \in Places, Goes(s, to)
    PROVE  /\ startAt' \in [Starters -> Places] /\ startAt'[s] = to
           /\ \A t \in Starters \ {s} : startAt'[t] = startAt[t]
BY DEF StartTypeOK, Goes

\* Letting go of a lock concerns that lock.
LEMMA Released ==
    ASSUME StartTypeOK, NEW s \in Starters, Release(s)
    PROVE  /\ lock' \in [Locks -> LockFiles]
           /\ \A l \in Locks \ {LockOf(s)} : lock'[l] = lock[l]
<1>1. NoFile \in LockFiles
  BY DEF NoFile, LockFiles
<1>. QED
  BY <1>1 DEF StartTypeOK, Release, Locks

\* A step that frees what it held, and launches nothing.
LEMMA LeavesInv ==
    ASSUME StartInv, NEW s \in Starters, NEW to \in Places, Goes(s, to),
           ~Holds(s)', excuses' = {} => excuses = {},
           \/ UNCHANGED lock
           \/ Holds(s) /\ Release(s),
           startAt[s] = "awaiting" /\ excuses' = {} =>
               \E r \in launched[s].run : life[r] # "launched",
           UNCHANGED <<life, launched>>
    PROVE  StartInv'
<1>. USE DEF StartInv
<1>1. /\ startAt' \in [Starters -> Places] /\ startAt'[s] = to
      /\ \A t \in Starters \ {s} : startAt'[t] = startAt[t]
  BY Moved
<1>2. StartTypeOK'
  BY <1>1, Released DEF StartTypeOK
<1>3. ASSUME excuses' = {}
      PROVE  LocksExclude'
  <2>1. LocksExclude BY <1>3
  <2>2. \A t \in Starters : Holds(t)' => t # s /\ Holds(t)
    BY <1>1 DEF Holds
  <2>3. \A t \in Starters : Holds(t)' => lock'[LockOf(t)].file
    BY <2>1, <2>2, Released DEF LocksExclude, LockOf, Locks
  <2>. QED BY <2>1, <2>2, <2>3 DEF LocksExclude, LockOf
<1>4. ASSUME excuses' = {}
      PROVE  LaunchersExclude' /\ LaunchedIsAwaited' /\ OneIsAlive'
  <2>1. \A t \in Starters : Launching(t)' => Launching(t)
    BY <1>1 DEF Launching, Holds
  <2>2. LaunchersExclude'
    BY <1>4, <2>1 DEF LaunchersExclude
  <2>3. LaunchedIsAwaited'
    BY <1>1, <1>4 DEF LaunchedIsAwaited
  <2>4. OneIsAlive'
    BY <1>1, <1>4 DEF OneIsAlive, LiveRuns, Holds
  <2>. QED BY <2>2, <2>3, <2>4
<1>. QED BY <1>2, <1>3, <1>4

\* A step that neither holds nor changes what others hold.
LEMMA UnlockedInv ==
    ASSUME StartInv, NEW s \in Starters,
           \/ RestartAsks(s) \/ RestartWaits(s) \/ StartBegins(s) \/ FindsLock(s)
    PROVE  StartInv'
<1>1. PICK to \in Places : /\ Goes(s, to)
                        /\ to \notin {"locked", "looking", "launching", "awaiting"}
  BY DEF RestartAsks, RestartWaits, StartBegins, FindsLock, Places
<1>2. startAt'[s] = to
  BY <1>1, Moved DEF StartInv
<1>3. /\ UNCHANGED <<lock, life, launched, excuses>> /\ startAt[s] # "awaiting"
  BY DEF RestartAsks, RestartWaits, StartBegins, FindsLock
<1>. QED
  BY <1>1, <1>2, <1>3, LeavesInv DEF Holds

\* The exclusive create is what excludes: nobody held the lock that was free.
LEMMA CreatesInv ==
    ASSUME StartInv, NEW s \in Starters, CreatesLock(s)
    PROVE  StartInv'
<1>. USE DEF StartInv
<1>1. /\ startAt' \in [Starters -> Places] /\ startAt'[s] = "locked"
      /\ \A t \in Starters \ {s} : startAt'[t] = startAt[t]
  BY Moved DEF CreatesLock, Places
<1>2. /\ lock' \in [Locks -> LockFiles] /\ lock'[LockOf(s)].file /\ ~lock[LockOf(s)].file
      /\ \A l \in Locks \ {LockOf(s)} : lock'[l] = lock[l]
  BY DEF CreatesLock, StartTypeOK, NoFile, LockFiles, Locks, LockOf
<1>3. UNCHANGED <<life, launched, excuses>> /\ startAt[s] \in {"locking", "again"}
  BY DEF CreatesLock
<1>4. StartTypeOK'
  BY <1>1, <1>2, <1>3 DEF StartTypeOK
<1>5. ASSUME excuses' = {}
      PROVE  LocksExclude'
  <2>1. LocksExclude BY <1>3, <1>5
  <2>2. \A t \in Starters : Holds(t) => LockOf(t) # LockOf(s)
    BY <1>2, <2>1 DEF LocksExclude
  <2>. QED
    BY <1>1, <1>2, <2>1, <2>2 DEF LocksExclude, Holds, LockOf, Locks
<1>6. ASSUME excuses' = {}
      PROVE  LaunchersExclude' /\ LaunchedIsAwaited' /\ OneIsAlive'
  BY <1>1, <1>3, <1>6 DEF LaunchersExclude, LaunchedIsAwaited, OneIsAlive,
      LiveRuns, Launching
<1>. QED BY <1>4, <1>5, <1>6

\* A lock taken for stale is an excuse.
LEMMA RemovesInv ==
    ASSUME StartInv, NEW s \in Starters, RemovesLock(s)
    PROVE  StartInv'
<1>1. excuses' # {}
  BY DEF RemovesLock
<1>2. startAt' \in [Starters -> Places]
  BY Moved DEF RemovesLock, StartInv, Places
<1>3. StartTypeOK'
  BY <1>2, Released DEF RemovesLock, StartInv, StartTypeOK, Release
<1>. QED
  BY <1>1, <1>3 DEF StartInv

\* The process id is written into a lock that is held.
LEMMA WritesInv ==
    ASSUME StartInv, NEW s \in Starters, WritesPid(s)
    PROVE  StartInv'
<1>. USE DEF StartInv
<1>1. /\ startAt' \in [Starters -> Places] /\ startAt'[s] = "looking"
      /\ \A t \in Starters \ {s} : startAt'[t] = startAt[t]
  BY Moved DEF WritesPid, Places
<1>2. /\ lock' \in [Locks -> LockFiles]
      /\ \A l \in Locks : lock'[l].file <=> lock[l].file
  BY ZenonT(60) DEF WritesPid, StartTypeOK, LockFiles
<1>3. UNCHANGED <<life, launched, excuses>> /\ startAt[s] = "locked"
  BY DEF WritesPid
<1>4. StartTypeOK'
  BY <1>1, <1>2, <1>3 DEF StartTypeOK
<1>5. ASSUME excuses' = {}
      PROVE  LocksExclude'
  BY <1>1, <1>2, <1>3, <1>5 DEF LocksExclude, Holds, LockOf, Locks
<1>6. ASSUME excuses' = {}
      PROVE  LaunchersExclude' /\ LaunchedIsAwaited' /\ OneIsAlive'
  BY <1>1, <1>3, <1>6 DEF LaunchersExclude, LaunchedIsAwaited, OneIsAlive,
      LiveRuns, Launching
<1>. QED BY <1>4, <1>5, <1>6

\* Under the lock, and with no other lock held, no run is active: none is alive.
LEMMA LooksInv ==
    ASSUME StartInv, NEW s \in Starters, LooksForActive(s)
    PROVE  StartInv'
<1>. USE DEF StartInv
<1>1. startAt[s] = "looking" /\ UNCHANGED <<life, asked, launched>> /\ Holds(s)
  BY DEF LooksForActive, Holds
<1>2. CASE \E to \in {"already", "failed"} : Goes(s, to) /\ Release(s) /\ UNCHANGED excuses
  <2>1. PICK to \in {"already", "failed"} : Goes(s, to) /\ Release(s) /\ UNCHANGED excuses
    BY <1>2
  <2>2. to \in Places
    BY DEF Places
  <2>3. ~Holds(s)'
    BY <2>1, <2>2, Moved DEF Holds
  <2>. QED
    BY <1>1, <2>1, <2>2, <2>3, LeavesInv
<1>3. CASE /\ ActiveRuns = {} /\ Goes(s, "launching") /\ UNCHANGED lock
           /\ excuses' = IF OtherLockHeld(s) THEN excuses \cup {"two locks"} ELSE excuses
  <2>1. /\ startAt' \in [Starters -> Places] /\ startAt'[s] = "launching"
        /\ \A t \in Starters \ {s} : startAt'[t] = startAt[t]
    BY <1>3, Moved DEF Places
  <2>2. StartTypeOK'
    BY <1>1, <1>3, <2>1 DEF StartTypeOK
  <2>3. ASSUME excuses' = {}
        PROVE  excuses = {} /\ ~OtherLockHeld(s)
    BY <1>3, <2>3
  <2>4. ASSUME excuses' = {}
        PROVE  LocksExclude'
    BY <1>1, <1>3, <2>1, <2>3, <2>4, ZenonT(60) DEF LocksExclude, Holds, LockOf
  <2>5. ASSUME excuses' = {}
        PROVE  \A t \in Starters \ {s} : ~Launching(t)
    BY <1>1, <2>3, <2>5 DEF LocksExclude, OtherLockHeld, Launching, Holds
  <2>6. ASSUME excuses' = {}
        PROVE  LiveRuns = {}
    BY <1>1, <1>3, <2>3, <2>5, <2>6 DEF LiveRuns, ActiveRuns, LaunchedIsAwaited,
        Launching
  <2>7. ASSUME excuses' = {}
        PROVE  LaunchersExclude' /\ LaunchedIsAwaited' /\ OneIsAlive'
    BY <1>1, <2>1, <2>5, <2>6, <2>7 DEF LaunchersExclude, LaunchedIsAwaited,
        OneIsAlive, LiveRuns, Launching
  <2>. QED
    BY <2>2, <2>4, <2>7
<1>. QED
  BY <1>2, <1>3 DEF LooksForActive

\* The run that is launched is the only one, and is awaited.
LEMMA LaunchInv ==
    ASSUME StartInv, NEW s \in Starters, Launches(s)
    PROVE  StartInv'
<1>. USE DEF StartInv
<1>1. /\ startAt' \in [Starters -> Places]
      /\ startAt'[s] = "awaiting" /\ startAt[s] = "launching"
      /\ \A t \in Starters \ {s} : startAt'[t] = startAt[t]
      /\ UNCHANGED <<lock, excuses>>
  BY Moved DEF Launches, Places
<1>2. PICK r \in LoopRuns, recent \in SUBSET LoopRuns :
        /\ life' = [life EXCEPT ![r] = "launched"]
        /\ launched' = [launched EXCEPT ![s] =
              [run |-> {r},
               old |-> {q \in LoopRuns : life[q] \in {"registered", "ended"}} \ recent]]
  BY DEF Launches, LaunchesRun
<1>3. /\ life' \in [LoopRuns -> {"unused", "launched", "registered", "ended", "failed"}]
      /\ launched' \in [Starters -> [run : SUBSET LoopRuns, old : SUBSET LoopRuns]]
      /\ launched'[s].run = {r}
  BY <1>2 DEF StartTypeOK
<1>4. StartTypeOK'
  BY <1>1, <1>3 DEF StartTypeOK
<1>5. ASSUME excuses' = {}
      PROVE  LocksExclude' /\ LaunchersExclude'
  BY <1>1, <1>5 DEF LocksExclude, LaunchersExclude, Launching, Holds, LockOf
<1>6. ASSUME excuses' = {}
      PROVE  /\ \A q \in LoopRuns : life'[q] \in {"launched", "registered"} => q = r
             /\ \A t \in Starters \ {s} : startAt[t] \notin {"launching", "awaiting"}
  BY <1>1, <1>2, <1>6 DEF OneIsAlive, LiveRuns, LaunchersExclude, Launching,
      StartTypeOK
<1>7. ASSUME excuses' = {}
      PROVE  LaunchedIsAwaited' /\ OneIsAlive'
  BY <1>1, <1>3, <1>6, <1>7 DEF LaunchedIsAwaited, OneIsAlive, LiveRuns
<1>. QED BY <1>4, <1>5, <1>7

\* A command lets go once its run has registered; to give up or to die before
\* that is an excuse.
LEMMA EndsInv ==
    ASSUME StartInv, NEW s \in Starters, Awaits(s) \/ TimesOut(s) \/ Crashes(s)
    PROVE  StartInv'
<1>1. PICK to \in Places : Goes(s, to) /\ to \in {"started", "failed", "crashed"}
  BY DEF Awaits, TimesOut, Crashes, Places
<1>2. startAt'[s] = to
  BY <1>1, Moved DEF StartInv
<1>3. UNCHANGED <<life, launched>> /\ (excuses' = {} => excuses = {})
  BY DEF Awaits, TimesOut, Crashes
<1>4. UNCHANGED lock \/ (Holds(s) /\ Release(s))
  <2>1. CASE Awaits(s) \/ TimesOut(s)
    BY <2>1 DEF Awaits, TimesOut, Holds
  <2>2. CASE Crashes(s)
    BY <2>2 DEF Crashes
  <2>. QED
    BY <2>1, <2>2
<1>5. ASSUME startAt[s] = "awaiting", excuses' = {}
      PROVE  \E r \in launched[s].run : life[r] # "launched"
  <2>1. Awaits(s)
    BY <1>5 DEF TimesOut, Crashes
  <2>. QED
    BY <1>5, <2>1 DEF Awaits
<1>. QED
  BY <1>1, <1>2, <1>3, <1>4, <1>5, LeavesInv DEF Holds

\* A lock ages.
LEMMA AgesInv ==
    ASSUME StartInv, NEW l \in Locks, LockAges(l)
    PROVE  StartInv'
<1>1. /\ lock' \in [Locks -> LockFiles]
      /\ \A k \in Locks : lock'[k].file <=> lock[k].file
  BY ZenonT(60) DEF LockAges, StartInv, StartTypeOK, LockFiles
<1>2. UNCHANGED <<startAt, life, launched, excuses>>
  BY DEF LockAges
<1>3. StartTypeOK' /\ (LocksExclude => LocksExclude')
  BY <1>1, <1>2 DEF StartInv, StartTypeOK, LocksExclude, Holds, Locks, LockOf
<1>. QED
  BY <1>2, <1>3 DEF StartInv, LaunchersExclude, LaunchedIsAwaited, OneIsAlive,
      LiveRuns, Launching

\* A run registers or ends.
LEMMA RunInv ==
    ASSUME StartInv, NEW r \in LoopRuns, RunRegisters(r) \/ RunEnds(r)
    PROVE  StartInv'
<1>. USE DEF StartInv
<1>1. UNCHANGED <<startAt, lock, launched, excuses>>
  BY DEF RunRegisters, RunEnds
<1>2. /\ life' \in [LoopRuns -> {"unused", "launched", "registered", "ended", "failed"}]
      /\ \A q \in LoopRuns : life'[q] = "launched" => life[q] = "launched"
      /\ \A q \in LiveRuns' : q \in LiveRuns
  BY DEF RunRegisters, RunEnds, StartTypeOK, LiveRuns
<1>3. StartTypeOK'
  BY <1>1, <1>2 DEF StartTypeOK
<1>4. LocksExclude /\ LaunchersExclude => LocksExclude' /\ LaunchersExclude'
  BY <1>1 DEF LocksExclude, LaunchersExclude, Holds, Launching
<1>5. LaunchedIsAwaited => LaunchedIsAwaited'
  BY <1>1, <1>2 DEF LaunchedIsAwaited
<1>6. OneIsAlive => OneIsAlive'
  BY <1>1, <1>2 DEF OneIsAlive
<1>. QED
  BY <1>1, <1>3, <1>4, <1>5, <1>6

\* The inductive invariant of the commands that start a loop.
THEOREM StartInvariant == StartSpec => []StartInv
<1>1. StartInit => StartInv
  BY DEF StartInit, StartInv, StartTypeOK, Places, LockFiles, NoFile,
      LocksExclude, LaunchersExclude, LaunchedIsAwaited, OneIsAlive, LiveRuns,
      Holds, Launching, Locks
<1>2. StartInv /\ [StartNext]_startVars => StartInv'
  <2>1. ASSUME StartInv, UNCHANGED startVars
        PROVE  StartInv'
    BY <2>1 DEF StartInv, StartTypeOK, LocksExclude, LaunchersExclude,
        LaunchedIsAwaited, OneIsAlive, LiveRuns, Holds, Launching, startVars
  <2>. QED
    BY <2>1, UnlockedInv, CreatesInv, RemovesInv, WritesInv, LooksInv, LaunchInv,
        EndsInv, AgesInv, RunInv DEF StartNext, StartCommand
<1>. QED
  BY <1>1, <1>2, PTL DEF StartSpec

\* lifecycle: without an excuse (a lock judged stale, two lock names, a launch
\* given up) no two runs of a loop are alive, for any number of commands.
THEOREM NoDuplicate == StartSpec => []NoUnexcusedDuplicate
<1>1. StartInv => NoUnexcusedDuplicate
  <2>1. SUFFICES ASSUME StartInv, excuses = {} PROVE ~(Cardinality(LiveRuns) > 1)
    BY DEF NoUnexcusedDuplicate
  <2>2. CASE LiveRuns = {}
    BY <2>2, FS_EmptySet
  <2>3. CASE LiveRuns # {}
    <3>1. PICK r : LiveRuns = {r}
      BY <2>1, <2>3 DEF StartInv, OneIsAlive
    <3>. QED
      BY <3>1, FS_Singleton
  <2>. QED
    BY <2>2, <2>3
<1>. QED
  BY <1>1, StartInvariant, PTL

(***************************************************************************)
(* The calendar, in a zone that keeps its offset: a day and a second of it *)
(* are the quotient and the remainder of the local time, so that the days  *)
(* NextOpen looks at come in the order of their openings.                  *)
(***************************************************************************)
CalInv ==
    /\ calNow \in Nat
    /\ calDays \subseteq 0..(WeekLength - 1) /\ calDays # {}
    /\ calWindows \in Compiled

\* A quotient and a remainder that give a number are the only ones that do.
LEMMA DivMod ==
    ASSUME NEW d \in Nat \ {0}, NEW q \in Int, NEW r \in 0..(d - 1)
    PROVE  (q * d + r) \div d = q /\ (q * d + r) % d = r
OBVIOUS

\* Later days come later.
LEMMA DaysInOrder ==
    ASSUME NEW d \in Nat \ {0}, NEW q \in Int, NEW p \in Int, q < p,
           NEW r \in 0..(d - 1), NEW s \in Nat
    PROVE  q * d + r < p * d + s
OBVIOUS

\* Every integer has them.
LEMMA Decomposes ==
    ASSUME NEW d \in Nat \ {0}, NEW x \in Int
    PROVE  /\ x \div d \in Int /\ x % d \in 0..(d - 1)
           /\ x = (x \div d) * d + (x % d)
OBVIOUS

\* Every day of the week is one of the next w.
LEMMA WeekComesRound ==
    ASSUME NEW w \in Nat \ {0}, NEW q \in Int, NEW k \in 0..(w - 1)
    PROVE  \E c \in 1..w : (q + c) % w = k
<1>. DEFINE a == q \div w
            b == q % w
<1>1. a \in Int /\ b \in 0..(w - 1) /\ q = a * w + b
  BY Decomposes
<1>. HIDE DEF a, b
<1>2. CASE k > b
  <2>1. q + (k - b) = a * w + k /\ k - b \in 1..w
    BY <1>1, <1>2
  <2>2. (a * w + k) % w = k
    BY <1>1, DivMod
  <2>3. (q + (k - b)) % w = k
    BY <2>1, <2>2
  <2>. QED
    BY <2>1, <2>3
<1>3. CASE k =< b
  <2>1. q + (k - b + w) = (a + 1) * w + k /\ k - b + w \in 1..w /\ a + 1 \in Int
    BY <1>1, <1>3
  <2>2. ((a + 1) * w + k) % w = k
    BY <2>1, DivMod
  <2>3. (q + (k - b + w)) % w = k
    BY <2>1, <2>2
  <2>. QED
    BY <2>1, <2>3
<1>. QED
  BY <1>1, <1>2, <1>3

SameOffset == OffsetBefore = OffsetAfter
Second(t) == LocalTime(t) % DayLength

\* The windows of a compiled calendar are apart: an earlier one ends before a
\* later one starts, however many lie between them.
LEMMA WindowsInOrder ==
    ASSUME CalInv
    PROVE  \E n \in Nat \ {0} :
               /\ calWindows \in [1..n -> Windows]
               /\ \A i, j \in 1..n : i < j => calWindows[i].end =< calWindows[j].start
<1>1. PICK n \in Nat \ {0} :
          /\ calWindows \in [1..n -> Windows]
          /\ \A i \in 2..n : calWindows[i].start >= calWindows[i - 1].end
  <2>1. PICK n \in 1..MaxWindows : calWindows \in [1..n -> Windows]
    BY DEF CalInv, Compiled
  <2>2. \A i \in DOMAIN calWindows \ {1} : calWindows[i].start >= calWindows[i - 1].end
    BY DEF CalInv, Compiled
  <2>3. n \in Nat \ {0}
    BY CalendarAssumption
  <2>4. 2..n \subseteq DOMAIN calWindows \ {1}
    BY <2>1, <2>3
  <2>. QED
    BY <2>1, <2>2, <2>3, <2>4
<1>2. \A i \in 1..n : /\ calWindows[i].start \in Nat /\ calWindows[i].end \in Nat
                      /\ calWindows[i].start < calWindows[i].end
  BY <1>1, CalendarAssumption DEF Windows, Clock
<1>3. ASSUME NEW i \in 1..n
      PROVE  \A j \in 1..n : i < j => calWindows[i].end =< calWindows[j].start
  <2>. DEFINE S == {j \in 1..n : i < j /\ ~(calWindows[i].end =< calWindows[j].start)}
  <2>1. SUFFICES ASSUME S # {} PROVE FALSE
    OBVIOUS
  <2>2. PICK j \in S : \A k \in S : j =< k
    <3>1. S \subseteq Nat
      OBVIOUS
    <3>. HIDE DEF S
    <3>. QED
      BY <2>1, <3>1, Least
  <2>3. j \in 2..n /\ j - 1 \in 1..n /\ calWindows[j].start >= calWindows[j - 1].end
    BY <1>1, <2>2
  <2>4. CASE j = i + 1
    BY <2>2, <2>3, <2>4
  <2>5. CASE j > i + 1
    <3>1. j - 1 \notin S
      BY <2>2
    <3>2. calWindows[i].end =< calWindows[j - 1].start
      BY <2>3, <2>5, <3>1
    <3>. QED
      BY <1>2, <2>2, <2>3, <3>2
  <2>. QED
    BY <2>2, <2>4, <2>5
<1>. QED
  BY <1>1, <1>3

\* The time of day of an instant, and the instant of a time of day.
LEMMA LocalIs ==
    ASSUME SameOffset, NEW t \in Int
    PROVE  /\ LocalDay(t) \in Int /\ Second(t) \in 0..(DayLength - 1)
           /\ t = LocalDay(t) * DayLength + Second(t) - OffsetBefore
<1>. DEFINE x == LocalTime(t)
<1>1. x \in Int /\ t = x - OffsetBefore
  BY CalendarAssumption DEF SameOffset, LocalTime, OffsetAt
<1>2. /\ x \div DayLength \in Int /\ x % DayLength \in 0..(DayLength - 1)
      /\ x = (x \div DayLength) * DayLength + (x % DayLength)
  <2>. HIDE DEF x
  <2>. QED
    BY <1>1, Decomposes, CalendarAssumption
<1>3. LocalDay(t) = x \div DayLength /\ Second(t) = x % DayLength
  BY DEF LocalDay, Second
<1>. HIDE DEF x
<1>. QED
  BY <1>1, <1>2, <1>3, CalendarAssumption

LEMMA AtIs ==
    ASSUME SameOffset, NEW q \in Int, NEW s \in Int
    PROVE  At(q, s) = q * DayLength + s - OffsetBefore /\ At(q, s) \in Int
BY CalendarAssumption DEF SameOffset, At, OffsetAt

LEMMA LocalOf ==
    ASSUME SameOffset, NEW q \in Int, NEW s \in 0..(DayLength - 1)
    PROVE  LET u == q * DayLength + s - OffsetBefore
           IN u \in Int /\ LocalDay(u) = q /\ Second(u) = s
<1>. DEFINE u == q * DayLength + s - OffsetBefore
<1>1. u \in Int /\ LocalTime(u) = q * DayLength + s
  BY CalendarAssumption DEF SameOffset, LocalTime, OffsetAt
<1>2. LocalTime(u) \div DayLength = q /\ LocalTime(u) % DayLength = s
  <2>. HIDE DEF u
  <2>. QED
    BY <1>1, DivMod, CalendarAssumption
<1>. QED
  BY <1>1, <1>2 DEF LocalDay, Second

\* Where windows stand in a day.
LEMMA WindowIs ==
    ASSUME CalInv, NEW i \in DOMAIN calWindows
    PROVE  /\ i \in Nat \ {0}
           /\ calWindows[i].start \in 0..(DayLength - 1)
           /\ calWindows[i].end \in 0..DayLength
           /\ calWindows[i].start < calWindows[i].end
BY WindowsInOrder DEF Windows, Clock

\* A window of an open day is open when it starts.
LEMMA OpenAtStart ==
    ASSUME CalInv, SameOffset, NEW q \in Int, q % WeekLength \in calDays,
           NEW i \in DOMAIN calWindows
    PROVE  IsOpen(At(q, calWindows[i].start))
<1>. DEFINE u == At(q, calWindows[i].start)
<1>1. /\ calWindows[i].start \in 0..(DayLength - 1) /\ calWindows[i].start < calWindows[i].end
      /\ calWindows[i].start \in Int
  BY WindowIs
<1>2. u = q * DayLength + calWindows[i].start - OffsetBefore
  BY <1>1, AtIs, CalendarAssumption, Zenon
<1>3. LocalDay(u) = q /\ Second(u) = calWindows[i].start
  BY <1>1, <1>2, LocalOf
<1>4. i \in OpenWindows(u)
  BY <1>1, <1>3 DEF OpenWindows, Second
<1>. QED
  BY <1>4 DEF IsOpen

\* What NextOpen looks at finds the windows of every open day that start after t.
LEMMA Candidate ==
    ASSUME CalInv, SameOffset, NEW t \in Int,
           NEW k \in 0..(WeekLength + 1), NEW i \in DOMAIN calWindows
    PROVE  <<k, i>> \in Candidates(t) <=>
               /\ (LocalDay(t) + k) % WeekLength \in calDays
               /\ At(LocalDay(t) + k, calWindows[i].start) > t
<1>1. LocalDay(t) + k \in Int
  BY LocalIs, CalendarAssumption
<1>2. (LocalDay(t) + k) % WeekLength \in calDays
          => IsOpen(At(LocalDay(t) + k, calWindows[i].start))
  BY <1>1, OpenAtStart
<1>. QED
  BY <1>2 DEF Candidates

\* A day of the calendar comes round within the days it looks at.
LEMMA SomeCandidate ==
    ASSUME CalInv, SameOffset, NEW t \in Int
    PROVE  Candidates(t) # {}
<1>1. LocalDay(t) \in Int /\ Second(t) \in 0..(DayLength - 1)
      /\ t = LocalDay(t) * DayLength + Second(t) - OffsetBefore
  BY LocalIs
<1>2. PICK day \in calDays : day \in 0..(WeekLength - 1)
  BY DEF CalInv
<1>3. PICK k \in 1..WeekLength : (LocalDay(t) + k) % WeekLength = day
  BY <1>1, <1>2, WeekComesRound, CalendarAssumption
<1>4. 1 \in DOMAIN calWindows
  BY WindowsInOrder
<1>. DEFINE q == LocalDay(t)
            s == calWindows[1].start
<1>5. s \in 0..(DayLength - 1) /\ s \in Int
  BY <1>4, WindowIs
<1>6. At(q + k, s) = (q + k) * DayLength + s - OffsetBefore
  <2>1. q + k \in Int
    BY <1>1
  <2>. HIDE DEF s, q
  <2>. QED
    BY <1>5, <2>1, AtIs, Zenon
<1>7. q * DayLength + Second(t) < (q + k) * DayLength + s
  <2>1. q \in Int /\ q + k \in Int /\ q < q + k /\ s \in Nat
    BY <1>1, <1>5
  <2>. HIDE DEF q, s
  <2>. QED
    BY <1>1, <2>1, DaysInOrder, CalendarAssumption
<1>8. At(q + k, s) > t
  <2>1. (q + k) * DayLength \in Int /\ q * DayLength \in Int /\ OffsetBefore \in Int
    BY <1>1, CalendarAssumption
  <2>2. t = q * DayLength + Second(t) - OffsetBefore
    BY <1>1
  <2>. HIDE DEF q, s
  <2>. QED
    BY <1>1, <1>5, <1>6, <1>7, <2>1, <2>2
<1>9. <<k, 1>> \in Candidates(t)
  <2>1. k \in 0..(WeekLength + 1)
    BY CalendarAssumption
  <2>. QED
    BY <1>2, <1>3, <1>4, <1>8, <2>1, Candidate
<1>. QED
  BY <1>9

\* The first of them, in the order of the days and of the windows of a day.
LEMMA EarliestIn ==
    ASSUME NEW C, C # {}, C \subseteq Nat \X Nat
    PROVE  /\ EarliestOf(C) \in C
           /\ \A c \in C : c # EarliestOf(C) => Before(EarliestOf(C), c)
<1>. DEFINE Days == {c[1] : c \in C}
<1>1. PICK k \in Days : \A l \in Days : k =< l
  <2>1. Days \subseteq Nat /\ Days # {}
    OBVIOUS
  <2>. HIDE DEF Days
  <2>. QED
    BY <2>1, Least
<1>. DEFINE Wins == {c[2] : c \in {d \in C : d[1] = k}}
<1>2. PICK i \in Wins : \A j \in Wins : i =< j
  <2>1. Wins \subseteq Nat /\ Wins # {}
    OBVIOUS
  <2>. HIDE DEF Wins
  <2>. QED
    BY <2>1, Least
<1>3. PICK e \in C : e[1] = k /\ e[2] = i
  OBVIOUS
<1>4. ASSUME NEW d \in C \ {e}
      PROVE  Before(e, d)
  <2>1. e \in Nat \X Nat /\ d \in Nat \X Nat
    OBVIOUS
  <2>2. k =< d[1] /\ (d[1] = k => i =< d[2])
    BY <1>1, <1>2
  <2>3. e[1] # d[1] \/ e[2] # d[2]
    BY <2>1
  <2>. QED
    BY <1>3, <2>1, <2>2, <2>3 DEF Before
<1>5. \E c \in C : \A d \in C \ {c} : Before(c, d)
  BY <1>4
<1>. QED
  BY <1>5 DEF EarliestOf

\* What opens a day is not after what opens a later one, nor, on one day, after
\* what a later window opens; an instant of a day is not before the day.
LEMMA OpeningsInOrder ==
    ASSUME SameOffset, NEW p \in Int, NEW q \in Int,
           NEW r \in 0..(DayLength - 1), NEW s \in 0..(DayLength - 1)
    PROVE  /\ At(p, r) =< At(q, s) => p =< q
           /\ p = q => (At(p, r) =< At(q, s) <=> r =< s)
<1>1. At(p, r) = p * DayLength + r - OffsetBefore /\ At(q, s) = q * DayLength + s - OffsetBefore
  <2>1. r \in Int /\ s \in Int
    BY CalendarAssumption
  <2>. QED
    BY <2>1, AtIs, Zenon
<1>2. q < p => q * DayLength + s < p * DayLength + r
  <2>1. r \in Nat
    BY CalendarAssumption
  <2>. QED
    BY <2>1, DaysInOrder, CalendarAssumption
<1>3. p * DayLength \in Int /\ q * DayLength \in Int /\ OffsetBefore \in Int
  BY CalendarAssumption
<1>. QED
  BY <1>1, <1>2, <1>3

\* An instant is that of its day and its second.
LEMMA AtLocal ==
    ASSUME SameOffset, NEW t \in Int
    PROVE  /\ t = At(LocalDay(t), Second(t))
           /\ LocalDay(t) \in Int /\ Second(t) \in 0..(DayLength - 1)
<1>1. /\ LocalDay(t) \in Int /\ Second(t) \in 0..(DayLength - 1)
      /\ t = LocalDay(t) * DayLength + Second(t) - OffsetBefore
  BY LocalIs
<1>2. Second(t) \in Int
  BY <1>1, CalendarAssumption
<1>. QED
  BY <1>1, <1>2, AtIs, Zenon

\* What NextOpen returns when the calendar is closed.
LEMMA NextOpenIs ==
    ASSUME CalInv, SameOffset, NEW t \in Int, ~IsOpen(t)
    PROVE  \E k \in 0..(WeekLength + 1), i \in DOMAIN calWindows :
               /\ NextOpen(t) = At(LocalDay(t) + k, calWindows[i].start)
               /\ NextOpen(t) > t /\ IsOpen(NextOpen(t))
               /\ \A l \in 0..(WeekLength + 1), j \in DOMAIN calWindows :
                      <<l, j>> \in Candidates(t) => k < l \/ (k = l /\ i =< j)
<1>. DEFINE C == Candidates(t)
            e == EarliestOf(C)
<1>1. C # {} /\ C \subseteq (0..(WeekLength + 1)) \X DOMAIN calWindows
  BY SomeCandidate DEF Candidates
<1>2. C \subseteq Nat \X Nat
  BY <1>1, WindowIs, CalendarAssumption
<1>3. e \in C /\ \A c \in C : c # e => Before(e, c)
  <2>. HIDE DEF C
  <2>. QED
    BY <1>1, <1>2, EarliestIn
<1>4. NextOpen(t) = At(LocalDay(t) + e[1], calWindows[e[2]].start)
  BY <1>1, Zenon DEF NextOpen
<1>5. NextOpen(t) > t /\ IsOpen(NextOpen(t))
  BY <1>3, <1>4, Zenon DEF Candidates
<1>6. ASSUME NEW l \in 0..(WeekLength + 1), NEW j \in DOMAIN calWindows, <<l, j>> \in C
      PROVE  e[1] < l \/ (e[1] = l /\ e[2] =< j)
  <2>1. CASE <<l, j>> = e
    <3>1. e[1] = l /\ e[2] = j /\ j \in Nat
      BY <2>1, WindowIs
    <3>. QED
      BY <3>1
  <2>2. CASE <<l, j>> # e
    <3>1. Before(e, <<l, j>>)
      BY <1>3, <1>6, <2>2
    <3>2. e[2] \in Nat /\ j \in Nat
      BY <1>2, <1>3, WindowIs
    <3>. QED
      BY <3>1, <3>2 DEF Before
  <2>. QED
    BY <2>1, <2>2
<1>7. e[1] \in 0..(WeekLength + 1) /\ e[2] \in DOMAIN calWindows
  BY <1>1, <1>3
<1>. QED
  BY <1>4, <1>5, <1>6, <1>7

\* Nothing is open before it: the window of such an instant starts after t, and
\* NextOpen looks at it before the one it took, or holds t as well.
LEMMA NothingPassedOver ==
    ASSUME CalInv, SameOffset, NEW t \in Int, ~IsOpen(t),
           NEW u \in Int, t < u, u < NextOpen(t)
    PROVE  ~IsOpen(u)
<1>1. SUFFICES ASSUME IsOpen(u) PROVE FALSE
  OBVIOUS
<1>. DEFINE q == LocalDay(t)
            p == LocalDay(u)
<1>2. PICK k \in 0..(WeekLength + 1), i \in DOMAIN calWindows :
          /\ NextOpen(t) = At(q + k, calWindows[i].start)
          /\ \A l \in 0..(WeekLength + 1), j \in DOMAIN calWindows :
                 <<l, j>> \in Candidates(t) => k < l \/ (k = l /\ i =< j)
  BY NextOpenIs
<1>3. PICK j \in DOMAIN calWindows :
          /\ p % WeekLength \in calDays
          /\ Second(u) >= calWindows[j].start /\ Second(u) < calWindows[j].end
  BY <1>1 DEF IsOpen, OpenWindows, Second
<1>4. /\ t = At(q, Second(t)) /\ q \in Int /\ Second(t) \in 0..(DayLength - 1)
      /\ u = At(p, Second(u)) /\ p \in Int /\ Second(u) \in 0..(DayLength - 1)
  BY AtLocal
<1>5. /\ i \in Nat /\ calWindows[i].start \in 0..(DayLength - 1)
      /\ j \in Nat /\ calWindows[j].start \in 0..(DayLength - 1)
  BY WindowIs
<1>6. q + k \in Int /\ p - q \in Int /\ q + (p - q) = p /\ WeekLength \in Nat
  BY <1>4, CalendarAssumption
<1>. DEFINE o == At(p, calWindows[j].start)
<1>7. o \in Int /\ At(q + k, calWindows[i].start) \in Int
  <2>1. calWindows[j].start \in Int /\ calWindows[i].start \in Int
    BY <1>5, CalendarAssumption
  <2>. QED
    BY <1>4, <1>6, <2>1, AtIs, Zenon
<1>. HIDE DEF q, p
<1>8. q =< p
  <2>1. At(q, Second(t)) =< At(p, Second(u))
    BY <1>4
  <2>. QED
    BY <1>4, <2>1, OpeningsInOrder
<1>9. p =< q + k
  <2>1. At(p, Second(u)) =< At(q + k, calWindows[i].start)
    BY <1>2, <1>4, <1>7
  <2>. QED
    BY <1>4, <1>5, <1>6, <2>1, OpeningsInOrder
<1>10. o =< u
  <2>1. calWindows[j].start =< Second(u)
    BY <1>3, <1>4, <1>5, CalendarAssumption
  <2>. QED
    BY <1>4, <1>5, <2>1, OpeningsInOrder
<1>11. CASE o > t
  <2>1. p - q \in 0..(WeekLength + 1)
    BY <1>4, <1>6, <1>8, <1>9
  <2>2. <<p - q, j>> \in Candidates(t)
    BY <1>3, <1>6, <1>11, <2>1, Candidate DEF q
  <2>3. k < p - q \/ (k = p - q /\ i =< j)
    BY <1>2, <2>1, <2>2
  <2>4. p = q + k /\ i =< j
    BY <1>4, <1>9, <2>3
  <2>5. calWindows[i].start =< calWindows[j].start
    <3>1. CASE i = j
      BY <1>5, <3>1, CalendarAssumption
    <3>2. CASE i < j
      <4>1. calWindows[i].end =< calWindows[j].start
        BY <3>2, WindowsInOrder
      <4>2. calWindows[i].start < calWindows[i].end /\ calWindows[i].end \in Nat
        BY WindowIs, CalendarAssumption
      <4>. QED
        BY <1>5, <4>1, <4>2, CalendarAssumption
    <3>. QED
      BY <1>5, <2>4, <3>1, <3>2
  <2>6. At(q + k, calWindows[i].start) =< o
    BY <1>4, <1>5, <2>4, <2>5, OpeningsInOrder
  <2>. QED
    BY <1>2, <1>7, <1>10, <2>6
<1>12. CASE o =< t
  <2>1. p = q
    <3>1. p =< q
      BY <1>4, <1>5, <1>12, OpeningsInOrder
    <3>. QED
      BY <1>4, <1>8, <3>1
  <2>2. calWindows[j].start =< Second(t)
    BY <1>4, <1>5, <1>12, <2>1, OpeningsInOrder
  <2>3. Second(t) =< Second(u)
    <3>1. At(q, Second(t)) =< At(p, Second(u))
      BY <1>4
    <3>. QED
      BY <1>4, <2>1, <3>1, OpeningsInOrder
  <2>4. calWindows[j].end \in Nat
    BY WindowIs, CalendarAssumption
  <2>5. Second(t) >= calWindows[j].start /\ Second(t) < calWindows[j].end
    BY <1>3, <1>4, <1>5, <2>2, <2>3, <2>4, CalendarAssumption
  <2>6. j \in OpenWindows(t)
    BY <1>3, <2>1, <2>5 DEF OpenWindows, Second, p, q
  <2>. QED
    BY <2>6 DEF IsOpen
<1>. QED
  BY <1>7, <1>11, <1>12

\* OpenUntil is the end of a window of today, which t is in.
LEMMA OpenToTheEnd ==
    ASSUME CalInv, SameOffset, NEW t \in Int, IsOpen(t),
           NEW u \in Int, t =< u, u < OpenUntil(t)
    PROVE  IsOpen(u)
<1>. DEFINE q == LocalDay(t)
            j == Min(OpenWindows(t))
<1>1. j \in OpenWindows(t)
  <2>1. OpenWindows(t) \subseteq Nat /\ OpenWindows(t) # {}
    BY WindowIs DEF IsOpen, OpenWindows
  <2>. QED
    BY <2>1, MinIn
<1>2. /\ j \in DOMAIN calWindows /\ q % WeekLength \in calDays
      /\ Second(t) >= calWindows[j].start
  BY <1>1 DEF OpenWindows, Second
<1>3. calWindows[j].start \in 0..(DayLength - 1) /\ calWindows[j].end \in 0..DayLength
  BY <1>2, WindowIs
<1>4. /\ q \in Int /\ Second(t) \in 0..(DayLength - 1)
      /\ t = q * DayLength + Second(t) - OffsetBefore
  BY LocalIs
<1>5. OpenUntil(t) = q * DayLength + calWindows[j].end - OffsetBefore
  <2>1. calWindows[j].end \in Int
    BY <1>3, CalendarAssumption
  <2>2. OpenUntil(t) = At(q, calWindows[j].end)
    BY DEF OpenUntil
  <2>. QED
    BY <1>4, <2>1, <2>2, AtIs, Zenon
<1>. DEFINE b == q * DayLength
            s == u - b + OffsetBefore
<1>6. b \in Int /\ OffsetBefore \in Int /\ DayLength \in Nat
  BY <1>4, CalendarAssumption
<1>7. /\ s \in Int /\ Second(t) =< s /\ s < calWindows[j].end
      /\ u = b + s - OffsetBefore
  <2>1. t = b + Second(t) - OffsetBefore /\ OpenUntil(t) = b + calWindows[j].end - OffsetBefore
    BY <1>4, <1>5
  <2>. HIDE DEF b, j
  <2>. QED
    BY <1>3, <1>4, <1>6, <2>1
<1>8. s \in 0..(DayLength - 1)
  <2>. HIDE DEF s, j
  <2>. QED
    BY <1>3, <1>4, <1>6, <1>7
<1>9. LocalDay(u) = q /\ Second(u) = s
  <2>1. u = q * DayLength + s - OffsetBefore
    BY <1>7
  <2>. HIDE DEF q, s
  <2>. QED
    BY <1>4, <1>8, <2>1, LocalOf
<1>10. j \in OpenWindows(u)
  <2>1. s >= calWindows[j].start
    <3>. HIDE DEF s, j
    <3>. QED
      BY <1>2, <1>3, <1>4, <1>6, <1>7
  <2>2. /\ LocalDay(u) % WeekLength \in calDays
        /\ Second(u) >= calWindows[j].start /\ Second(u) < calWindows[j].end
    <3>. HIDE DEF s, j, q
    <3>. QED
      BY <1>2, <1>7, <1>9, <2>1
  <2>. HIDE DEF j, s, q
  <2>. QED
    BY <1>2, <2>2 DEF OpenWindows, Second
<1>. QED
  BY <1>10 DEF IsOpen

\* The instants of a window are whole.
LEMMA InstantOfWindow ==
    ASSUME CalInv, SameOffset, NEW t \in Int, NEW i \in DOMAIN calWindows
    PROVE  /\ At(LocalDay(t), calWindows[i].end) \in Int
           /\ \A k \in 0..(WeekLength + 1) : At(LocalDay(t) + k, calWindows[i].start) \in Int
<1>. DEFINE w == calWindows[i]
<1>1. w.start \in Int /\ w.end \in Int
  BY WindowIs, CalendarAssumption
<1>2. LocalDay(t) \in Int /\ \A k \in 0..(WeekLength + 1) : LocalDay(t) + k \in Int
  <2>1. LocalDay(t) \in Int
    BY LocalIs, Zenon
  <2>. QED
    BY <2>1, CalendarAssumption
<1>. HIDE DEF w
<1>3. At(LocalDay(t), w.end) \in Int
  BY <1>1, <1>2, AtIs, Zenon
<1>4. \A k \in 0..(WeekLength + 1) : At(LocalDay(t) + k, w.start) \in Int
  BY <1>1, <1>2, AtIs, Zenon
<1>. QED
  BY <1>3, <1>4 DEF w

\* In a zone that keeps its offset NextOpen finds the earliest instant at which
\* the calendar is open, for every compiled calendar and every instant, and
\* what OpenUntil promises open stays open (calendar.go:222-246).
THEOREM CalendarOpens == CalSpec => []NextOpenIsEarliest
<1>1. CalInit => CalInv
  BY DEF CalInit, CalInv
<1>2. CalInv /\ [CalNext]_calVars => CalInv'
  <2>1. SUFFICES ASSUME CalInv, [CalNext]_calVars PROVE CalInv'
    OBVIOUS
  <2>2. calDays' = calDays /\ calWindows' = calWindows /\ calNow' \in {calNow, calNow + 1}
    BY <2>1 DEF CalNext, calVars
  <2>3. Compiled' = Compiled
    BY DEF Compiled, Windows, Clock
  <2>4. calNow' \in Nat
    BY <2>1, <2>2 DEF CalInv
  <2>. QED
    BY <2>1, <2>2, <2>3, <2>4 DEF CalInv
<1>3. CalInv => NextOpenIsEarliest
  <2>1. SUFFICES ASSUME CalInv, SameOffset
                 PROVE  /\ NextOpen(calNow) >= calNow /\ IsOpen(NextOpen(calNow))
                        /\ \A t \in calNow..(NextOpen(calNow) - 1) : ~IsOpen(t)
                        /\ IsOpen(calNow) => \A t \in calNow..(OpenUntil(calNow) - 1) : IsOpen(t)
    BY DEF NextOpenIsEarliest, SameOffset
  <2>2. calNow \in Int
    BY <2>1 DEF CalInv
  <2>3. CASE IsOpen(calNow)
    <3>1. NextOpen(calNow) = calNow
      BY <2>3 DEF NextOpen
    <3>2. ASSUME NEW t \in calNow..(OpenUntil(calNow) - 1)
          PROVE  IsOpen(t)
      <4>1. OpenUntil(calNow) \in Int
        <5>1. OpenWindows(calNow) \subseteq Nat /\ OpenWindows(calNow) # {}
          BY <2>1, <2>3, WindowIs DEF IsOpen, OpenWindows
        <5>2. Min(OpenWindows(calNow)) \in DOMAIN calWindows
          BY <5>1, MinIn DEF OpenWindows
        <5>. QED
          BY <2>1, <2>2, <5>2, InstantOfWindow DEF OpenUntil
      <4>2. t \in Int /\ calNow =< t /\ t < OpenUntil(calNow)
        BY <2>2, <4>1
      <4>. QED
        BY <2>1, <2>2, <2>3, <4>2, OpenToTheEnd
    <3>3. \A t \in calNow..(NextOpen(calNow) - 1) : ~IsOpen(t)
      BY <2>2, <3>1
    <3>. QED
      BY <2>2, <2>3, <3>1, <3>2, <3>3
  <2>4. CASE ~IsOpen(calNow)
    <3>1. PICK k \in 0..(WeekLength + 1), i \in DOMAIN calWindows :
              /\ NextOpen(calNow) = At(LocalDay(calNow) + k, calWindows[i].start)
              /\ NextOpen(calNow) > calNow /\ IsOpen(NextOpen(calNow))
      BY <2>1, <2>2, <2>4, NextOpenIs
    <3>2. NextOpen(calNow) \in Int
      BY <2>1, <2>2, <3>1, InstantOfWindow
    <3>3. ASSUME NEW t \in calNow..(NextOpen(calNow) - 1)
          PROVE  ~IsOpen(t)
      <4>1. t \in Int /\ calNow =< t /\ t < NextOpen(calNow)
        BY <2>2, <3>2
      <4>2. CASE t = calNow
        BY <2>4, <4>2
      <4>3. CASE calNow < t
        BY <2>1, <2>2, <2>4, <4>1, <4>3, NothingPassedOver
      <4>. QED
        BY <2>2, <4>1, <4>2, <4>3
    <3>. QED
      BY <2>2, <2>4, <3>1, <3>2, <3>3
  <2>. QED
    BY <2>3, <2>4
<1>. QED
  BY <1>1, <1>2, <1>3, PTL DEF CalSpec
=============================================================================
