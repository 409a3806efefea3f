----------------------------- MODULE PaneProofs -----------------------------
(***************************************************************************)
(* Proofs about what is known of a pane: whether a limit it shows has its  *)
(* turn typed again, which command its shell runs, when its screen         *)
(* changed, whether its question is answered, which agent runs in it, what *)
(* browsers show of it, what they type into it, and how its row is read.   *)
(* These share no state; the theorems hold for any bounds.                 *)
(***************************************************************************)
EXTENDS QuotaWait, ShellHooks, PaneActivity, WatchRules, PaneRuntime, PanePatches,
        PaneInput, PaneRows, MinMaxLemmas, FiniteSetTheorems, SequenceTheorems, TLAPS

(***************************************************************************)
(* QuotaWait: a limit has the prompt of its turn typed once more.  The     *)
(* invariant says how the code knows that it was: the record of the turn   *)
(* is "sending" until the wait is taken out of the state, and only a tick  *)
(* that was refused, or a kill, leaves a wait behind that is as good as    *)
(* new.                                                                    *)
(***************************************************************************)
Panes == [shows : {"work", "ready", "dialog", "gone", "menu", "notice"}, reset : Nat]
DevTurns == [id : {0, 1, 2}, record : {"sent", "sending"}]
Waits == [turn : {0, 1, 2}, reset : Nat, next : Nat, answered : BOOLEAN]
TickSteps == {"idle", "dead", "select", "selected", "again", "resume", "typed",
              "recorded"}
Ticks == [at : TickSteps, refused : BOOLEAN]
Typings == [times : Nat, unknown : BOOLEAN]

QuotaTypeOK ==
    /\ provider \in Providers /\ devStage \in {"running", "blocked"}
    /\ agentPane \in Panes /\ devTurn \in DevTurns /\ quotaWait \in Waits
    /\ tick \in Ticks /\ onceMore \in Typings
    /\ quotaOps \in Nat /\ quotaKills \in Nat /\ limits \in Nat /\ quotaTime \in Nat

\* A wait is for a turn, and is looked at again no sooner than its limit ends.
WaitNamesTurn ==
    /\ quotaWait # NoWait => quotaWait.turn # 0
    /\ quotaWait.next >= quotaWait.reset

\* What the runner knows of the state it works on: between ticks nothing is
\* refused; in a wait there is a wait, and a turn unless it was changed; and a
\* turn that is being typed is recorded as such.
TickKnows ==
    /\ tick.at \in {"idle", "dead"} => ~tick.refused
    /\ tick.at \notin {"idle", "dead"} => quotaWait.turn # 0
    /\ tick.at \notin {"idle", "dead"} /\ ~tick.refused => devTurn.id # 0
    /\ tick.at \in {"resume", "typed"} => devTurn.record = "sending" \/ devTurn.id = 0

\* The prompt was typed once more, and the state will say so.
Spent == onceMore.times > 0 /\ ~onceMore.unknown

\* Then the runner is still at it, or no tick takes the wait for a current one.
SpentIsOver ==
    Spent => \/ tick.at \in {"typed", "recorded"}
             \/ devTurn.record = "sending"
             \/ quotaWait = NoWait \/ quotaWait.turn # devTurn.id

\* What is about to be typed is due, and was not typed before.
ResumeIsDue == At("resume") => ~Spent /\ Now >= quotaWait.reset

QuotaInv == QuotaTypeOK /\ WaitNamesTurn /\ TickKnows /\ SpentIsOver /\ ResumeIsDue
-----------------------------------------------------------------------------
(* Types *)

LEMMA TickAt ==
    ASSUME tick \in Ticks, NEW s \in TickSteps
    PROVE  [tick EXCEPT !.at = s] \in Ticks
BY DEF Ticks

LEMMA TickMade ==
    ASSUME NEW s \in TickSteps, NEW b \in BOOLEAN
    PROVE  [at |-> s, refused |-> b] \in Ticks
BY DEF Ticks

LEMMA TickRefused ==
    ASSUME tick \in Ticks, NEW b \in BOOLEAN
    PROVE  [tick EXCEPT !.refused = b] \in Ticks
BY DEF Ticks

LEMMA WaitAnswered ==
    ASSUME quotaWait \in Waits
    PROVE  [quotaWait EXCEPT !.answered = TRUE] \in Waits
BY DEF Waits

LEMMA WaitNext ==
    ASSUME quotaWait \in Waits, NEW t \in Nat
    PROVE  [quotaWait EXCEPT !.next = t] \in Waits
BY DEF Waits

LEMMA OnceUnknown ==
    ASSUME onceMore \in Typings, NEW b \in BOOLEAN
    PROVE  [onceMore EXCEPT !.unknown = b] \in Typings
BY DEF Typings

LEMMA OnceTyped ==
    ASSUME onceMore \in Typings
    PROVE  [onceMore EXCEPT !.times = @ + 1] \in Typings
BY DEF Typings

LEMMA SteppedTypes ==
    ASSUME QuotaTypeOK
    PROVE  /\ QuotaTickEnds => tick' \in Ticks
           /\ \A s \in TickSteps : TickGoes(s) => tick' \in Ticks
           /\ StateChanges => tick' \in Ticks
           /\ EnterIsPressed => agentPane' \in Panes
<1>0. tick \in Ticks /\ agentPane \in Panes
  BY DEF QuotaTypeOK
<1>1. QuotaTickEnds => tick' \in Ticks
  <2>1. "idle" \in TickSteps BY DEF TickSteps
  <2>. QED
    BY <2>1, TickMade DEF QuotaTickEnds
<1>2. \A s \in TickSteps : TickGoes(s) => tick' \in Ticks
  BY <1>0, TickAt DEF TickGoes
<1>3. StateChanges => tick' \in Ticks
  <2>. DEFINE b == tick.at \notin {"idle", "dead"}
  <2>1. b \in BOOLEAN OBVIOUS
  <2>. HIDE DEF b
  <2>2. [tick EXCEPT !.refused = b] \in Ticks BY <1>0, <2>1, TickRefused
  <2>. QED
    BY <2>2 DEF StateChanges, b
<1>4. EnterIsPressed => agentPane' \in Panes
  BY <1>0 DEF EnterIsPressed, Panes, Shows
<1>. QED
  BY <1>1, <1>2, <1>3, <1>4

LEMMA BeginWaitTypes ==
    ASSUME QuotaTypeOK, BeginWait
    PROVE  quotaWait' \in Waits /\ tick' \in Ticks /\ onceMore' \in Typings
BY
DEF QuotaTypeOK, BeginWait, NotTyped, Now, Panes, DevTurns, Waits, TickSteps,
    Ticks, Typings

\* Every step keeps the types.
LEMMA TypesKept ==
    ASSUME QuotaTypeOK, [QuotaNext]_quotaVars
    PROVE  QuotaTypeOK'
<1>. USE QuotaAssumption DEF QuotaTypeOK, At, Now
<1>1. CASE TickSeesLimit
  BY <1>1
  DEF TickSeesLimit, NotTyped, quotaBounds, aroundRunner, BeginWait, LimitShown,
      NoWait, DevTurns, Panes, Waits, Ticks, TickSteps, Typings
<1>2. CASE RecoverBlocked
  BY <1>2
  DEF RecoverBlocked, NotTyped, quotaBounds, aroundRunner, BeginWait, LimitShown,
      DevTurns, Panes, Waits, Ticks, TickSteps, Typings
<1>3. CASE TickSeesPrompt
  BY <1>3
  DEF TickSeesPrompt, QuotaTickEnds, BlockStage, quotaBounds, aroundRunner,
      NoWait, Ticks, TickSteps
<1>4. CASE Select
  <2>1. "selected" \in TickSteps
    BY DEF TickSteps
  <2>. QED
    BY <1>4, <2>1, SteppedTypes DEF Select, BlockStage, quotaBounds
<1>5. CASE Selected
  BY <1>5
  DEF Selected, QuotaTickEnds, quotaBounds, aroundRunner, Waits, Ticks, TickSteps
<1>6. CASE TickFindsOther
  BY <1>6
  DEF TickFindsOther, Waiting, WaitIsCurrent, QuotaTickEnds, BlockStage,
      quotaBounds, aroundRunner, NoWait, Ticks, TickSteps
<1>7. CASE TickSelectsAgain
  <2>1. "again" \in TickSteps
    BY DEF TickSteps
  <2>. QED
    BY <1>7, <2>1, SteppedTypes, WaitAnswered
    DEF TickSelectsAgain, BlockStage, aroundRunner, quotaBounds
<1>8. CASE SelectAgain
  BY <1>8, SteppedTypes, WaitAnswered DEF SelectAgain, BlockStage, quotaBounds
<1>9. CASE TickExtends
  <2>1. Now + Recheck \in Nat
    OBVIOUS
  <2>. QED
    BY <1>9, <2>1, SteppedTypes, WaitNext
    DEF TickExtends, BlockStage, aroundRunner, quotaBounds
<1>10. CASE TickResumes
  BY <1>10
  DEF TickResumes, Waiting, WaitIsCurrent, Due, TickGoes, quotaBounds,
      aroundRunner, RecordTurn, NoWait, DevTurns, Ticks, TickSteps
<1>11. CASE TypeAgain
  BY <1>11
  DEF TypeAgain, TickGoes, quotaBounds, TakesPrompt, Shows, Ticks, TickSteps,
      Typings, Panes
<1>12. CASE ResumedRunning
  BY <1>12 DEF ResumedRunning, TickGoes, quotaBounds, aroundRunner, Ticks, TickSteps
<1>13. CASE ResumeFails
  <2>1. devTurn' \in DevTurns
    BY <1>13 DEF ResumeFails, RecordTurn, DevTurns
  <2>2. UNCHANGED aroundRunner
    BY <1>13 DEF ResumeFails
  <2>3. CASE BeginWait
    BY <2>1, <2>2, <2>3, BeginWaitTypes DEF BeginWait, aroundRunner, quotaBounds
  <2>4. CASE ~BeginWait
    <3>1. /\ QuotaTickEnds /\ UNCHANGED <<quotaWait, onceMore>>
          /\ devStage' \in {"running", "blocked"}
      BY <1>13, <2>4 DEF ResumeFails, BlockStage
    <3>. QED
      BY <2>1, <2>2, <3>1, SteppedTypes DEF aroundRunner, quotaBounds
  <2>. QED
    BY <2>3, <2>4
<1>14. CASE TypedIsRecorded
  BY <1>14
  DEF TypedIsRecorded, TickGoes, quotaBounds, aroundRunner, RecordTurn, DevTurns,
      Ticks, TickSteps
<1>15. CASE ResumeEnds
  <2>1. quotaWait' \in Waits
    <3>1. NoWait \in Waits
      BY DEF NoWait, Waits
    <3>. QED
      BY <1>15, <3>1 DEF ResumeEnds
  <2>2. onceMore' \in Typings
    BY <1>15, OnceUnknown DEF ResumeEnds
  <2>. QED
    BY <1>15, <2>1, <2>2, SteppedTypes DEF ResumeEnds, aroundRunner, quotaBounds
<1>16. CASE RunnerDies
  <2>. DEFINE b == onceMore.unknown \/ At("recorded")
  <2>1. b \in BOOLEAN /\ onceMore' = [onceMore EXCEPT !.unknown = b]
    BY <1>16 DEF RunnerDies
  <2>. HIDE DEF b
  <2>2. onceMore' \in Typings
    BY <2>1, OnceUnknown
  <2>3. tick' \in Ticks
    BY <1>16, TickMade DEF RunnerDies, TickSteps
  <2>. QED
    BY <1>16, <2>2, <2>3 DEF RunnerDies
<1>17. CASE RunnerStarts
  BY <1>17, SteppedTypes DEF RunnerStarts, BlockStage, aroundRunner, quotaBounds
<1>18. CASE LimitHits
  BY <1>18 DEF LimitHits, Panes
<1>19. CASE PaneGoesOn
  BY <1>19 DEF PaneGoesOn, quotaBounds, Shows, Panes
<1>20. CASE ReportSettles
  BY <1>20
  DEF ReportSettles, quotaBounds, aroundRunner, StateChanges, DevTurns, Ticks,
      TickSteps
<1>21. CASE NextTurn
  BY <1>21
  DEF NextTurn, NotTyped, quotaBounds, Shows, NoWait, DevTurns, Typings, Panes
<1>22. CASE QuotaAcknowledge \/ QuotaRetry \/ QuotaPause
  <2>1. tick' \in Ticks /\ quotaOps' \in Nat
    BY <1>22, SteppedTypes DEF QuotaAcknowledge, QuotaRetry, QuotaPause, Operates
  <2>2. [id |-> 0, record |-> "sent"] \in DevTurns
    BY DEF DevTurns
  <2>. QED
    BY <1>22, <2>1, <2>2 DEF QuotaAcknowledge, QuotaRetry, QuotaPause
<1>23. CASE QuotaTimePasses
  BY <1>23 DEF QuotaTimePasses
<1>24. CASE UNCHANGED quotaVars
  BY <1>24 DEF quotaVars
<1>. QED
  BY <1>1, <1>2, <1>3, <1>4, <1>5, <1>6, <1>7, <1>8, <1>9, <1>10, <1>11, <1>12,
     <1>13, <1>14, <1>15, <1>16, <1>17, <1>18, <1>19, <1>20, <1>21, <1>22, <1>23,
     <1>24
  DEF QuotaNext

-----------------------------------------------------------------------------
(* The rest of the invariant *)

\* Enter was pressed: the wait stays the one it was.
LEMMA Answering ==
    ASSUME quotaWait \in Waits, quotaWait.turn # 0,
           quotaWait' = [quotaWait EXCEPT !.answered = TRUE]
    PROVE  /\ quotaWait'.turn = quotaWait.turn /\ quotaWait'.reset = quotaWait.reset
           /\ quotaWait'.next = quotaWait.next
           /\ quotaWait # NoWait
BY DEF Waits, NoWait

\* Every step keeps what the runner and the state know of each other.
LEMMA PlacesKept ==
    ASSUME QuotaTypeOK, WaitNamesTurn, TickKnows, SpentIsOver, ResumeIsDue,
           [QuotaNext]_quotaVars, QuotaTypeOK'
    PROVE  WaitNamesTurn' /\ TickKnows' /\ SpentIsOver' /\ ResumeIsDue'
<1>. USE QuotaAssumption
     DEF QuotaTypeOK, Panes, DevTurns, Waits, Ticks, TickSteps, Typings,
         WaitNamesTurn, TickKnows, SpentIsOver, ResumeIsDue, Spent, At, Now
<1>1. CASE TickSeesLimit
  BY <1>1
  DEF TickSeesLimit, NotTyped, quotaBounds, aroundRunner, BeginWait, LimitShown,
      NoWait
<1>2. CASE RecoverBlocked
  BY <1>2
  DEF RecoverBlocked, NotTyped, quotaBounds, aroundRunner, BeginWait, LimitShown
<1>3. CASE TickSeesPrompt
  BY <1>3
  DEF TickSeesPrompt, QuotaTickEnds, BlockStage, quotaBounds, aroundRunner, NoWait
<1>4. CASE Select
  BY <1>4
  DEF Select, TickGoes, QuotaTickEnds, BlockStage, quotaBounds, EnterIsPressed,
      Shows
<1>5. CASE Selected
  <2>1. quotaWait.turn # 0 /\ quotaWait' = [quotaWait EXCEPT !.answered = TRUE]
    BY <1>5 DEF Selected
  <2>2. /\ quotaWait'.turn = quotaWait.turn /\ quotaWait'.reset = quotaWait.reset
        /\ quotaWait'.next = quotaWait.next /\ quotaWait # NoWait
    BY <2>1, Answering
  <2>. QED
    BY <1>5, <2>2 DEF Selected, QuotaTickEnds, quotaBounds, aroundRunner
<1>6. CASE TickFindsOther
  BY <1>6
  DEF TickFindsOther, Waiting, WaitIsCurrent, QuotaTickEnds, BlockStage,
      quotaBounds, aroundRunner, NoWait
<1>7. CASE TickSelectsAgain
  BY <1>7
  DEF TickSelectsAgain, Waiting, WaitIsCurrent, TickGoes, QuotaTickEnds,
      BlockStage, quotaBounds, aroundRunner, NoWait
<1>8. CASE SelectAgain
  <2>1. quotaWait' # quotaWait =>
            /\ quotaWait'.turn = quotaWait.turn /\ quotaWait'.reset = quotaWait.reset
            /\ quotaWait'.next = quotaWait.next /\ quotaWait # NoWait
    BY <1>8, Answering DEF SelectAgain, BlockStage
  <2>2. At("again") /\ QuotaTickEnds /\ UNCHANGED <<devTurn, onceMore, quotaTime>>
    BY <1>8 DEF SelectAgain, BlockStage, quotaBounds
  <2>3. CASE quotaWait' = quotaWait
    BY <2>2, <2>3 DEF QuotaTickEnds
  <2>4. CASE quotaWait' # quotaWait
    BY <2>1, <2>2, <2>4 DEF QuotaTickEnds
  <2>. QED
    BY <2>3, <2>4
<1>9. CASE TickExtends
  BY <1>9
  DEF TickExtends, Waiting, WaitIsCurrent, Due, QuotaTickEnds, BlockStage,
      quotaBounds, aroundRunner, NoWait
<1>10. CASE TickResumes
  BY <1>10
  DEF TickResumes, Waiting, WaitIsCurrent, Due, TickGoes, quotaBounds,
      aroundRunner, RecordTurn, NoWait
<1>11. CASE TypeAgain
  BY <1>11 DEF TypeAgain, TickGoes, quotaBounds, TakesPrompt, Shows
<1>12. CASE ResumedRunning
  BY <1>12 DEF ResumedRunning, TickGoes, quotaBounds, aroundRunner
<1>13. CASE ResumeFails
  BY <1>13
  DEF ResumeFails, QuotaTickEnds, NotTyped, BlockStage, quotaBounds, aroundRunner,
      BeginWait, RecordTurn, TakesPrompt, LimitShown
<1>14. CASE TypedIsRecorded
  BY <1>14 DEF TypedIsRecorded, TickGoes, quotaBounds, aroundRunner, RecordTurn
<1>15. CASE ResumeEnds
  BY <1>15 DEF ResumeEnds, QuotaTickEnds, quotaBounds, aroundRunner, NoWait
<1>16. CASE RunnerDies
  BY <1>16 DEF RunnerDies
<1>17. CASE RunnerStarts
  BY <1>17 DEF RunnerStarts, QuotaTickEnds, BlockStage, quotaBounds, aroundRunner
<1>18. CASE LimitHits
  BY <1>18 DEF LimitHits
<1>19. CASE PaneGoesOn
  BY <1>19 DEF PaneGoesOn, quotaBounds, Shows
<1>20. CASE ReportSettles
  BY <1>20 DEF ReportSettles, quotaBounds, aroundRunner, StateChanges
<1>21. CASE NextTurn
  BY <1>21 DEF NextTurn, NotTyped, quotaBounds, Shows, NoWait
<1>22. CASE QuotaAcknowledge
  BY <1>22 DEF QuotaAcknowledge, StateChanges, Operates
<1>23. CASE QuotaRetry
  BY <1>23 DEF QuotaRetry, StateChanges, Operates
<1>24. CASE QuotaPause
  BY <1>24 DEF QuotaPause, StateChanges, Operates
<1>25. CASE QuotaTimePasses
  BY <1>25 DEF QuotaTimePasses
<1>26. CASE UNCHANGED quotaVars
  BY <1>26 DEF quotaVars
<1>. QED
  BY <1>1, <1>2, <1>3, <1>4, <1>5, <1>6, <1>7, <1>8, <1>9, <1>10, <1>11, <1>12,
     <1>13, <1>14, <1>15, <1>16, <1>17, <1>18, <1>19, <1>20, <1>21, <1>22, <1>23,
     <1>24, <1>25, <1>26
  DEF QuotaNext

-----------------------------------------------------------------------------
\* The inductive invariant holds in every state.
THEOREM QuotaInvariant == QuotaSpec => []QuotaInv
<1>1. QuotaInit => QuotaInv
  BY QuotaAssumption
  DEF QuotaInit, QuotaInv, QuotaTypeOK, Panes, DevTurns, Waits, TickSteps, Ticks,
      Typings, WaitNamesTurn, TickKnows, SpentIsOver, Spent, ResumeIsDue, NoWait,
      NotTyped, Shows, At
<1>2. QuotaInv /\ [QuotaNext]_quotaVars => QuotaInv'
  BY TypesKept, PlacesKept DEF QuotaInv
<1>. QED
  BY <1>1, <1>2, PTL DEF QuotaSpec

\* ResumedOnce: only TypeAgain counts, and it is due and the first.
THEOREM TypedOnce == QuotaSpec => ResumedOnce
<1>. DEFINE Once == onceMore'.times > onceMore.times =>
         Now >= quotaWait.reset /\ (onceMore.times = 0 \/ onceMore.unknown)
<1>1. ASSUME QuotaInv, [QuotaNext]_quotaVars PROVE [Once]_quotaVars
  <2>1. CASE TypeAgain
    BY <1>1, <2>1 DEF TypeAgain, QuotaInv, ResumeIsDue, Spent, QuotaTypeOK, Typings
  <2>2. CASE onceMore' = NotTyped \/ onceMore'.times = onceMore.times
    BY <1>1, <2>2 DEF NotTyped, QuotaInv, QuotaTypeOK, Typings
  <2>3. CASE TickSeesLimit \/ RecoverBlocked \/ ResumeFails \/ NextTurn
    BY <2>2, <2>3 DEF TickSeesLimit, RecoverBlocked, ResumeFails, NextTurn, BeginWait
  <2>4. CASE RunnerDies \/ ResumeEnds
    <3>. DEFINE b == onceMore.unknown \/ At("recorded")
    <3>1. onceMore \in Typings /\ b \in BOOLEAN
      BY <1>1 DEF QuotaInv, QuotaTypeOK
    <3>2. \/ onceMore' = onceMore \/ onceMore' = [onceMore EXCEPT !.unknown = TRUE]
          \/ onceMore' = [onceMore EXCEPT !.unknown = b]
      BY <2>4 DEF RunnerDies, ResumeEnds
    <3>. HIDE DEF b
    <3>3. onceMore'.times = onceMore.times
      BY <3>1, <3>2 DEF Typings
    <3>. QED
      BY <2>2, <3>3
  <2>5. CASE UNCHANGED onceMore
    BY <2>2, <2>5
  <2>6. CASE \/ TickSeesPrompt \/ Select \/ Selected
             \/ TickFindsOther \/ TickSelectsAgain \/ SelectAgain
    BY <2>5, <2>6
    DEF TickSeesPrompt, Select, Selected, TickFindsOther, TickSelectsAgain,
        SelectAgain
  <2>7. CASE \/ TickExtends \/ TickResumes \/ ResumedRunning
             \/ TypedIsRecorded \/ RunnerStarts
    BY <2>5, <2>7
    DEF TickExtends, TickResumes, ResumedRunning, TypedIsRecorded, RunnerStarts
  <2>8. CASE LimitHits \/ PaneGoesOn \/ ReportSettles
    BY <2>5, <2>8 DEF LimitHits, PaneGoesOn, ReportSettles
  <2>9. CASE QuotaAcknowledge \/ QuotaRetry \/ QuotaPause \/ QuotaTimePasses
    BY <2>5, <2>9 DEF QuotaAcknowledge, QuotaRetry, QuotaPause, QuotaTimePasses
  <2>10. CASE UNCHANGED quotaVars
    BY <2>5, <2>10 DEF quotaVars
  <2>. QED
    BY <1>1, <2>1, <2>3, <2>4, <2>6, <2>7, <2>8, <2>9, <2>10 DEF QuotaNext
<1>. QED
  BY <1>1, QuotaInvariant, PTL DEF QuotaSpec, ResumedOnce

-----------------------------------------------------------------------------
(***************************************************************************)
(* The commands that a shell reports.  Ids and stamps are handed out in    *)
(* the order of the commands, so the end of an earlier command, however    *)
(* late it comes, is known by its stamp.                                   *)
(***************************************************************************)
HookEvents == [type : {"preexec", "precmd"}, id : Nat \ {0}, stamp : Nat, at : Nat,
               session : Nat, asked : BOOLEAN]
ActiveCommands == [id : Nat, stamp : Nat, started : Nat]
StoredHooks == [session : Nat, active : ActiveCommands, completed : BOOLEAN, updated : Nat,
                at : Nat]

HooksTypeOK ==
    /\ paneOwner \in Nat /\ commandsRun \in Nat /\ stamps \in Nat /\ hookTime \in Nat
    /\ shellRuns \in {NoShellCommand, commandsRun}
    /\ emits \subseteq HookEvents /\ hook \in StoredHooks
    /\ told \subseteq 1..commandsRun

\* What was sent so far was stamped by now, and a command whose end is on its way
\* is over.
SentBefore ==
    \A e \in emits : /\ e.id <= commandsRun /\ e.stamp <= stamps
                     /\ e.type = "precmd" => e.id # shellRuns

\* The end of a command is stamped before the start of a later one.
EndsBefore(id, stamp) ==
    \A e \in emits : e.type = "precmd" /\ e.id < id => e.stamp < stamp
StampsInOrder ==
    /\ \A s \in emits : s.type = "preexec" => EndsBefore(s.id, s.stamp)
    /\ hook.active # NotActive =>
           /\ EndsBefore(hook.active.id, hook.active.stamp)
           /\ hook.active.id <= commandsRun /\ hook.active.stamp <= stamps

KnowsActive == shellRuns \in told => hook.active.id = shellRuns

HooksInv == HooksTypeOK /\ SentBefore /\ StampsInOrder /\ KnowsActive

-----------------------------------------------------------------------------
LEMMA HookRecords ==
    /\ NotActive \in ActiveCommands /\ NoHook \in StoredHooks
    /\ NoHook.active = NotActive /\ NotActive.id = 0
BY DEF NotActive, NoHook, ActiveCommands, StoredHooks, NoShellCommand, Nobody

LEMMA HookFields ==
    ASSUME hook \in StoredHooks
    PROVE  /\ hook.active \in ActiveCommands
           /\ hook.active.id \in Nat /\ hook.active.stamp \in Nat
BY DEF StoredHooks, ActiveCommands

LEMMA EventFields ==
    ASSUME NEW e \in HookEvents
    PROVE  /\ e.type \in {"preexec", "precmd"} /\ e.id \in Nat \ {0} /\ e.stamp \in Nat
           /\ e.at \in Nat /\ e.session \in Nat /\ e.asked \in BOOLEAN
BY DEF HookEvents

\* The events that wait are of those that waited.
LEMMA NoNewEvents ==
    ASSUME HooksInv,
           \A e \in emits' : \E f \in emits : e.type = f.type /\ e.id = f.id /\ e.stamp = f.stamp,
           UNCHANGED <<commandsRun, stamps>>, shellRuns' \in {shellRuns, NoShellCommand},
           emits' \subseteq HookEvents
    PROVE  /\ SentBefore'
           /\ \A s \in emits' : s.type = "preexec" => EndsBefore(s.id, s.stamp)'
           /\ \A id, stamp : EndsBefore(id, stamp) => EndsBefore(id, stamp)'
<1>1. SentBefore'
  <2>1. SUFFICES ASSUME NEW e \in emits'
                 PROVE  /\ e.id <= commandsRun /\ e.stamp <= stamps
                        /\ e.type = "precmd" => e.id # shellRuns'
    BY DEF SentBefore
  <2>2. PICK f \in emits : e.type = f.type /\ e.id = f.id /\ e.stamp = f.stamp
    BY <2>1
  <2>3. e.id # 0
    BY <2>1, EventFields
  <2>. QED
    BY <2>2, <2>3 DEF HooksInv, SentBefore, NoShellCommand
<1>2. \A id, stamp : EndsBefore(id, stamp) => EndsBefore(id, stamp)'
  BY DEF EndsBefore
<1>3. \A s \in emits' : s.type = "preexec" => EndsBefore(s.id, s.stamp)'
  <2>1. SUFFICES ASSUME NEW s \in emits', s.type = "preexec"
                 PROVE  EndsBefore(s.id, s.stamp)'
    OBVIOUS
  <2>2. PICK f \in emits : s.type = f.type /\ s.id = f.id /\ s.stamp = f.stamp
    BY <2>1
  <2>3. EndsBefore(f.id, f.stamp)
    BY <2>1, <2>2 DEF HooksInv, StampsInOrder
  <2>. QED
    BY <1>2, <2>2, <2>3
<1>. QED
  BY <1>1, <1>2, <1>3

-----------------------------------------------------------------------------
LEMMA HooksStart == HooksInit => HooksInv
BY HookRecords
   DEF HooksInit, HooksInv, HooksTypeOK, SentBefore, StampsInOrder, KnowsActive, NoShellCommand

\* A step that sends nothing and stores nothing, or forgets what was stored.
LEMMA QuietKeeps ==
    ASSUME HooksInv, UNCHANGED <<emits, stamps, commandsRun>>,
           paneOwner' \in Nat, hookTime' \in Nat, shellRuns' \in {shellRuns, NoShellCommand},
           \/ UNCHANGED <<hook, told>>
           \/ hook' = NoHook /\ told' = {}
    PROVE  HooksInv'
<1>1. HooksTypeOK /\ StampsInOrder /\ KnowsActive
  BY DEF HooksInv
<1>2. HooksTypeOK'
  BY <1>1, HookRecords DEF HooksTypeOK
<1>3. /\ SentBefore'
      /\ \A s \in emits' : s.type = "preexec" => EndsBefore(s.id, s.stamp)'
      /\ \A id, stamp : EndsBefore(id, stamp) => EndsBefore(id, stamp)'
  <2>1. \A e \in emits' : \E f \in emits : e.type = f.type /\ e.id = f.id /\ e.stamp = f.stamp
    OBVIOUS
  <2>. QED
    BY <1>1, <2>1, NoNewEvents DEF HooksTypeOK
<1>4. CASE UNCHANGED <<hook, told>>
  <2>1. StampsInOrder'
    BY <1>1, <1>3, <1>4 DEF StampsInOrder
  <2>2. KnowsActive'
    BY <1>1, <1>4 DEF KnowsActive, HooksTypeOK, NoShellCommand
  <2>. QED
    BY <1>2, <1>3, <2>1, <2>2 DEF HooksInv
<1>5. CASE hook' = NoHook /\ told' = {}
  <2>1. StampsInOrder'
    BY <1>3, <1>5, HookRecords DEF StampsInOrder
  <2>2. KnowsActive'
    BY <1>5 DEF KnowsActive
  <2>. QED
    BY <1>2, <1>3, <2>1, <2>2 DEF HooksInv
<1>. QED
  BY <1>4, <1>5

\* The shell sends an event, which is stamped after all that were sent.
LEMMA EmitKeeps ==
    ASSUME HooksInv, StampsAtOnce, NEW type \in {"preexec", "precmd"}, NEW id \in Nat \ {0},
           Emits(type, id), id <= commandsRun', commandsRun' \in Nat, commandsRun <= commandsRun',
           shellRuns' \in {NoShellCommand, commandsRun'} \ told,
           type = "precmd" => shellRuns' = NoShellCommand /\ id = commandsRun',
           type = "preexec" => shellRuns' = commandsRun + 1 /\ id = commandsRun + 1,
           UNCHANGED <<paneOwner, hookTime, hook, told>>
    PROVE  HooksInv'
<1>. DEFINE new == [type |-> type, id |-> id, stamp |-> stamps + 1, at |-> hookTime,
                    session |-> Nobody, asked |-> FALSE]
<1>1. HooksTypeOK /\ SentBefore /\ StampsInOrder
  BY DEF HooksInv
<1>2. emits' = emits \cup {new} /\ stamps' = stamps + 1
  BY DEF Emits, Emit
<1>3. stamps \in Nat /\ commandsRun \in Nat /\ hookTime \in Nat
  BY <1>1 DEF HooksTypeOK
<1>4. /\ new \in HookEvents
      /\ new.type = type /\ new.id = id /\ new.stamp = stamps + 1
  BY <1>3 DEF HookEvents, Nobody
<1>. HIDE DEF new
<1>5. \A e \in emits : /\ e.id \in Nat \ {0} /\ e.stamp \in Nat
                       /\ e.id <= commandsRun /\ e.stamp <= stamps
  BY <1>1, EventFields DEF HooksTypeOK, SentBefore
<1>6. HooksTypeOK'
  BY <1>1, <1>2, <1>3, <1>4 DEF HooksTypeOK
<1>7. SentBefore'
  <2>1. SUFFICES ASSUME NEW e \in emits'
                 PROVE  /\ e.id <= commandsRun' /\ e.stamp <= stamps'
                        /\ e.type = "precmd" => e.id # shellRuns'
    BY DEF SentBefore
  <2>2. CASE e = new
    BY <1>2, <1>3, <1>4, <2>2 DEF NoShellCommand
  <2>3. CASE e \in emits
    BY <1>2, <1>3, <1>5, <2>3 DEF NoShellCommand
  <2>. QED
    BY <1>2, <2>2, <2>3
\* The end of a command is of the last one; its start is stamped last.
<1>8. ASSUME NEW c \in Nat, NEW stamp \in Nat, EndsBefore(c, stamp), c <= commandsRun
      PROVE  EndsBefore(c, stamp)'
  <2>1. ~(type = "precmd" /\ id < c)
    BY <1>3, <1>8
  <2>. QED
    BY <1>2, <1>4, <1>8, <2>1 DEF EndsBefore
<1>9. ASSUME type = "preexec", NEW e \in emits', e.type = "precmd"
      PROVE  e.stamp < stamps + 1
  BY <1>2, <1>3, <1>4, <1>5, <1>9
<1>10. StampsInOrder'
  <2>1. \A s \in emits' : s.type = "preexec" => EndsBefore(s.id, s.stamp)'
    <3>1. SUFFICES ASSUME NEW s \in emits', s.type = "preexec"
                   PROVE  EndsBefore(s.id, s.stamp)'
      OBVIOUS
    <3>2. CASE s = new
      BY <1>4, <1>9, <3>1, <3>2 DEF EndsBefore
    <3>3. CASE s \in emits
      <4>1. EndsBefore(s.id, s.stamp)
        BY <1>1, <3>1, <3>3 DEF StampsInOrder
      <4>. QED
        BY <1>5, <1>8, <3>3, <4>1
    <3>. QED
      BY <1>2, <3>2, <3>3
  <2>2. hook.active # NotActive =>
            /\ EndsBefore(hook.active.id, hook.active.stamp)'
            /\ hook.active.id <= commandsRun' /\ hook.active.stamp <= stamps'
    <3>1. hook.active.id \in Nat /\ hook.active.stamp \in Nat
      BY <1>1, HookFields DEF HooksTypeOK
    <3>. QED
      BY <1>1, <1>2, <1>3, <1>8, <3>1 DEF StampsInOrder
  <2>. QED
    BY <2>1, <2>2 DEF StampsInOrder
<1>11. KnowsActive'
  BY DEF KnowsActive
<1>. QED
  BY <1>6, <1>7, <1>10, <1>11 DEF HooksInv

LEMMA ShellKeeps ==
    ASSUME HooksInv, StampsAtOnce, Preexec \/ Precmd
    PROVE  HooksInv'
<1>1. HooksTypeOK
  BY DEF HooksInv
<1>2. /\ commandsRun \in Nat /\ told \subseteq 1..commandsRun
      /\ shellRuns \in {NoShellCommand, commandsRun}
  BY <1>1 DEF HooksTypeOK
<1>3. CASE Preexec
  <2>1. /\ commandsRun' = commandsRun + 1 /\ shellRuns' = commandsRun + 1
        /\ Emits("preexec", commandsRun + 1)
        /\ UNCHANGED <<paneOwner, hookTime, hook, told>>
    BY <1>3 DEF Preexec
  <2>2. commandsRun + 1 \in Nat \ {0} /\ commandsRun + 1 \notin told
    BY <1>2
  <2>. QED
    BY <1>2, <2>1, <2>2, EmitKeeps
<1>4. CASE Precmd
  <2>1. /\ shellRuns # NoShellCommand /\ shellRuns' = NoShellCommand
        /\ Emits("precmd", shellRuns)
        /\ UNCHANGED <<paneOwner, hookTime, hook, told, commandsRun>>
    BY <1>4 DEF Precmd
  <2>2. shellRuns = commandsRun /\ commandsRun # 0 /\ NoShellCommand \notin told
    BY <1>2, <2>1 DEF NoShellCommand
  <2>. QED
    BY <1>2, <2>1, <2>2, EmitKeeps
<1>. QED
  BY <1>3, <1>4

LEMMA LookUpKeeps ==
    ASSUME HooksInv, StampsAtOnce, NEW e \in emits, LookUpOwner(e)
    PROVE  HooksInv'
<1>1. HooksTypeOK /\ StampsInOrder /\ KnowsActive
  BY DEF HooksInv
<1>2. PICK session \in {paneOwner, Nobody} :
          emits' = (emits \ {e}) \cup {[e EXCEPT !.asked = TRUE, !.session = session,
                    !.stamp = IF StampsAtOnce THEN @ ELSE stamps + 1]}
  BY DEF LookUpOwner
<1>3. UNCHANGED <<paneOwner, shellRuns, stamps, hookTime, hook, told, commandsRun>>
  BY DEF LookUpOwner, shellVars
<1>. DEFINE known == [e EXCEPT !.asked = TRUE, !.session = session,
                      !.stamp = IF StampsAtOnce THEN @ ELSE stamps + 1]
<1>4. /\ known \in HookEvents
      /\ known.type = e.type /\ known.id = e.id /\ known.stamp = e.stamp
  <2>1. e \in HookEvents /\ session \in Nat
    BY <1>1, <1>2 DEF HooksTypeOK, Nobody
  <2>. QED
    BY <2>1 DEF HookEvents
<1>. HIDE DEF known
<1>5. emits' = (emits \ {e}) \cup {known}
  BY <1>2 DEF known
<1>6. emits' \subseteq HookEvents
  BY <1>1, <1>4, <1>5 DEF HooksTypeOK
<1>7. \A f \in emits' : \E g \in emits : f.type = g.type /\ f.id = g.id /\ f.stamp = g.stamp
  BY <1>4, <1>5
<1>8. /\ SentBefore'
      /\ \A s \in emits' : s.type = "preexec" => EndsBefore(s.id, s.stamp)'
      /\ \A id, stamp : EndsBefore(id, stamp) => EndsBefore(id, stamp)'
  BY <1>3, <1>6, <1>7, NoNewEvents
<1>9. HooksTypeOK'
  BY <1>1, <1>3, <1>6 DEF HooksTypeOK
<1>10. StampsInOrder'
  BY <1>1, <1>3, <1>8 DEF StampsInOrder
<1>11. KnowsActive'
  BY <1>1, <1>3 DEF KnowsActive
<1>. QED
  BY <1>8, <1>9, <1>10, <1>11 DEF HooksInv

-----------------------------------------------------------------------------
\* What is stored for an event has its session, if it has one, and its times.
LEMMA KeptIsTyped ==
    ASSUME NEW state \in StoredHooks, NEW session \in Nat, NEW updated \in Nat, NEW at \in Nat
    PROVE  [state EXCEPT !.session = IF session # Nobody THEN session ELSE @,
                         !.updated = updated, !.at = at] \in StoredHooks
BY DEF StoredHooks

LEMMA WithActive ==
    ASSUME NEW state \in StoredHooks, NEW active \in ActiveCommands
    PROVE  /\ [state EXCEPT !.active = active] \in StoredHooks
           /\ [state EXCEPT !.active = active].active = active
           /\ [state EXCEPT !.active = active, !.completed = TRUE] \in StoredHooks
           /\ [state EXCEPT !.active = active, !.completed = TRUE].active = active
BY DEF StoredHooks

\* The daemon stores an event.  The end of a command that is not the one that
\* runs was stamped before the one that runs began.
LEMMA RecordKeeps ==
    ASSUME HooksInv, NEW e \in emits, RecordEvent(e)
    PROVE  HooksInv'
<1>. DEFINE state == IF OtherSession(e) THEN NoHook ELSE hook
            kept == [state EXCEPT
                !.session = IF e.session # Nobody THEN e.session ELSE @,
                !.updated = e.stamp, !.at = e.at]
            knew == IF OtherSession(e) THEN {} ELSE told
            begun == [id |-> e.id, stamp |-> e.stamp, started |-> e.at]
<1>1. HooksTypeOK /\ SentBefore /\ StampsInOrder /\ KnowsActive
  BY DEF HooksInv
<1>2. /\ emits' = emits \ {e}
      /\ UNCHANGED <<paneOwner, shellRuns, stamps, hookTime, commandsRun>>
      /\ IF Outdated(e, state) THEN UNCHANGED <<hook, told>>
         ELSE IF e.type = "preexec"
         THEN hook' = [kept EXCEPT !.active = begun] /\ told' = {e.id}
         ELSE hook' = [kept EXCEPT !.active = NotActive, !.completed = TRUE]
              /\ told' = knew \ {e.id}
  BY DEF RecordEvent, shellVars
<1>3. /\ e \in HookEvents /\ emits' \subseteq HookEvents
      /\ e.type \in {"preexec", "precmd"} /\ e.id \in Nat \ {0} /\ e.stamp \in Nat /\ e.at \in Nat
      /\ e.id <= commandsRun /\ e.stamp <= stamps /\ commandsRun \in Nat
  BY <1>1, <1>2, EventFields DEF HooksTypeOK, SentBefore
<1>4. begun \in ActiveCommands /\ begun.id = e.id /\ begun.stamp = e.stamp
  BY <1>3 DEF ActiveCommands
<1>. HIDE DEF begun
<1>5. /\ [kept EXCEPT !.active = begun] \in StoredHooks
      /\ [kept EXCEPT !.active = begun].active = begun
      /\ [kept EXCEPT !.active = NotActive, !.completed = TRUE] \in StoredHooks
      /\ [kept EXCEPT !.active = NotActive, !.completed = TRUE].active = NotActive
  <2>1. state \in StoredHooks /\ NotActive \in ActiveCommands
    BY <1>1, HookRecords DEF HooksTypeOK
  <2>2. e.session \in Nat
    BY <1>3, EventFields
  <2>3. kept \in StoredHooks
    BY <1>3, <2>1, <2>2, KeptIsTyped, ZenonT(60)
  <2>. HIDE DEF kept
  <2>. QED
    BY <1>4, <2>1, <2>3, WithActive
<1>6. \A f \in emits' : \E g \in emits : f.type = g.type /\ f.id = g.id /\ f.stamp = g.stamp
  BY <1>2
<1>7. /\ SentBefore'
      /\ \A s \in emits' : s.type = "preexec" => EndsBefore(s.id, s.stamp)'
      /\ \A id, stamp : EndsBefore(id, stamp) => EndsBefore(id, stamp)'
  BY <1>2, <1>3, <1>6, NoNewEvents
<1>. HIDE DEF kept
<1>8. CASE Outdated(e, state)
  <2>1. UNCHANGED <<hook, told>>
    BY <1>2, <1>8
  <2>2. HooksTypeOK'
    BY <1>1, <1>2, <1>3, <2>1 DEF HooksTypeOK
  <2>3. StampsInOrder' /\ KnowsActive'
    BY <1>1, <1>2, <1>7, <2>1 DEF StampsInOrder, KnowsActive
  <2>. QED
    BY <1>7, <2>2, <2>3 DEF HooksInv
<1>9. CASE ~Outdated(e, state) /\ e.type = "preexec"
  <2>1. hook' = [kept EXCEPT !.active = begun] /\ told' = {e.id}
    BY <1>2, <1>9
  <2>2. hook' \in StoredHooks /\ hook'.active = begun
    BY <1>5, <2>1
  <2>3. HooksTypeOK'
    BY <1>1, <1>2, <1>3, <2>1, <2>2 DEF HooksTypeOK
  <2>4. EndsBefore(e.id, e.stamp)
    BY <1>1, <1>9 DEF StampsInOrder
  <2>5. StampsInOrder'
    BY <1>2, <1>3, <1>4, <1>7, <2>2, <2>4 DEF StampsInOrder
  <2>6. KnowsActive'
    BY <1>4, <2>1, <2>2 DEF KnowsActive
  <2>. QED
    BY <1>7, <2>3, <2>5, <2>6 DEF HooksInv
<1>10. CASE ~Outdated(e, state) /\ e.type = "precmd"
  <2>1. hook' = [kept EXCEPT !.active = NotActive, !.completed = TRUE] /\ told' = knew \ {e.id}
    BY <1>2, <1>10
  <2>2. hook' \in StoredHooks /\ hook'.active = NotActive
    BY <1>5, <2>1
  <2>3. HooksTypeOK'
    BY <1>1, <1>2, <1>3, <2>1, <2>2 DEF HooksTypeOK
  <2>4. StampsInOrder'
    BY <1>7, <2>2 DEF StampsInOrder
  <2>5. shellRuns \notin knew \ {e.id}
    <3>1. SUFFICES ASSUME shellRuns \in knew PROVE FALSE
      <4>1. e.id # shellRuns
        BY <1>1, <1>10 DEF SentBefore
      <4>. QED
        BY <3>1
    <3>2. ~OtherSession(e) /\ shellRuns \in told /\ state = hook
      BY <3>1
    <3>3. hook.active.id = shellRuns /\ shellRuns = commandsRun /\ shellRuns # 0
      BY <1>1, <3>2 DEF KnowsActive, HooksTypeOK, NoShellCommand
    <3>4. hook.active # NotActive
      BY <3>3, HookRecords
    <3>5. e.id # hook.active.id /\ e.id < hook.active.id
      BY <1>1, <1>3, <1>10, <3>3 DEF SentBefore
    <3>6. e.stamp < hook.active.stamp
      BY <1>1, <1>10, <3>4, <3>5 DEF StampsInOrder, EndsBefore
    <3>. QED
      BY <1>10, <3>2, <3>4, <3>5, <3>6 DEF Outdated
  <2>6. KnowsActive'
    BY <1>2, <2>1, <2>5 DEF KnowsActive
  <2>. QED
    BY <1>7, <2>3, <2>4, <2>6 DEF HooksInv
<1>. QED
  BY <1>3, <1>8, <1>9, <1>10

-----------------------------------------------------------------------------
\* For any numbers of commands and events, in any order, when a process stamps its
\* event as it starts: a command that runs, and whose start the daemon was told,
\* is the active one (shellhook/store.go:66-123).
THEOREM RunningIsKept ==
    ASSUME StampsAtOnce
    PROVE  HooksSpec => []ActiveIsKept
<1>1. ASSUME HooksInv, [HooksNext]_hookVars PROVE HooksInv'
  <2>. HooksTypeOK
    BY <1>1 DEF HooksInv
  <2>1. CASE Preexec \/ Precmd
    BY <1>1, <2>1, ShellKeeps
  <2>2. CASE CommandShows \/ HookTick \/ HookScanBegins \/ HookScanCaptures \/ ApplyShellHooks
    <3>1. paneOwner \in Nat /\ hookTime \in Nat
      BY DEF HooksTypeOK
    <3>2. CASE CommandShows
      BY <1>1, <3>1, <3>2, QuietKeeps DEF CommandShows
    <3>3. CASE HookTick
      BY <1>1, <3>1, <3>3, QuietKeeps DEF HookTick, shellVars
    <3>4. CASE HookScanBegins
      BY <1>1, <3>1, <3>4, QuietKeeps DEF HookScanBegins, shellVars
    <3>5. CASE HookScanCaptures
      BY <1>1, <3>1, <3>5, QuietKeeps DEF HookScanCaptures, shellVars
    <3>6. CASE ApplyShellHooks
      BY <1>1, <3>1, <3>6, QuietKeeps DEF ApplyShellHooks, shellVars
    <3>. QED
      BY <2>2, <3>2, <3>3, <3>4, <3>5, <3>6
  <2>3. CASE OwnerChanges
    BY <1>1, <2>3, QuietKeeps DEF OwnerChanges, HooksTypeOK
  <2>4. CASE HooksRestart \/ Prune \/ DeleteIfUpdatedAt
    BY <1>1, <2>4, QuietKeeps DEF HooksRestart, Prune, DeleteIfUpdatedAt, shellVars, HooksTypeOK
  <2>5. CASE \E e \in emits : LookUpOwner(e) \/ RecordEvent(e)
    BY <1>1, <2>5, LookUpKeeps, RecordKeeps
  <2>6. CASE UNCHANGED hookVars
    BY <1>1, <2>6, QuietKeeps DEF hookVars, shellVars, HooksTypeOK
  <2>. QED
    BY <1>1, <2>1, <2>2, <2>3, <2>4, <2>5, <2>6 DEF HooksNext
<1>2. HooksInv => ActiveIsKept
  <2>1. SUFFICES ASSUME HooksInv, shellRuns \in told
                 PROVE  /\ hook.active.id = shellRuns
                        /\ hookScan.step = "merged" /\ hookScan.shows # "ready"
                               => Reports # "ready"
    BY DEF ActiveIsKept
  <2>2. hook.active.id = shellRuns /\ shellRuns # 0
    BY <2>1 DEF HooksInv, KnowsActive, HooksTypeOK
  <2>3. hook.active # NotActive
    BY <2>2, HookRecords
  <2>. QED
    BY <2>2, <2>3 DEF Reports
<1>. QED
  BY <1>1, <1>2, HooksStart, PTL DEF HooksSpec

-----------------------------------------------------------------------------
(***************************************************************************)
(* When a pane's screen changed.  What a daemon remembers, or has saved, of *)
(* a screen that is still there is not later than the change and the time  *)
(* without a capture before it, unless that is no longer recent, and not   *)
(* earlier than a scan and a restart.                                      *)
(***************************************************************************)
Entries == [screen : Int, changed : Int, restored : BOOLEAN, oldHash : BOOLEAN]
Watchers == [up : BOOLEAN, step : {"wait", "sample", "capture"}, scanned : BOOLEAN,
             began : Int, last : Int, sample : Int, count : Int, hidden : BOOLEAN,
             seen : Int, unseen : Nat]
PaneReports == [running : BOOLEAN, changed : Int, state : {"none", "working", "idle", "blocked",
                "unknown", "waiting_input"}, at : Int, busy : BOOLEAN]

MemoryTypeOK ==
    /\ screenNow \in Nat /\ changedNow \in Int /\ nowTime \in Int
    /\ says \in {"working", "unknown", "waiting_input"}
    /\ watcher \in Watchers /\ memory \in Entries /\ saved \in Entries
    /\ reported \in PaneReports

ClockOK ==
    /\ 1 <= changedNow /\ changedNow <= nowTime
    /\ 1 <= watcher.seen /\ watcher.seen <= watcher.began /\ watcher.began <= nowTime
    /\ watcher.last <= nowTime
    /\ watcher.up => nowTime <= watcher.last + ScanGap
    /\ watcher.step # "wait" => watcher.up /\ watcher.last <= watcher.began

\* What is remembered is of a screen that was there.
EntryOK(entry) ==
    /\ entry.screen <= screenNow /\ entry.changed <= nowTime
    /\ entry.screen < 0 => entry = NoEntry
    /\ entry.screen # screenNow => entry.changed <= changedNow
MemoryOK ==
    /\ EntryOK(memory) /\ EntryOK(saved)
    /\ memory.restored => memory.changed # Unset
    /\ saved # NoEntry => saved.changed # Unset
    /\ memory.oldHash => watcher.hidden
    /\ watcher.up => saved.screen <= memory.screen

\* A screen that is not the one captured last has come since.
ChangedSinceSeen ==
    /\ memory # NoEntry /\ ~memory.restored /\ memory.screen # screenNow
           => watcher.seen <= changedNow
    /\ watcher.step # "capture" => watcher.sample = -1
    /\ watcher.sample \notin {-1, screenNow} => watcher.began <= changedNow

NotLate(entry) ==
    entry.screen = screenNow /\ entry.changed # Unset =>
        \/ entry.changed <= changedNow + watcher.unseen
        \/ entry.changed + Debounce < watcher.began
        \/ says = "working"
NotEarly(entry) ==
    entry.screen = screenNow /\ entry.changed # Unset /\ ~watcher.hidden =>
        changedNow <= entry.changed + ScanGap + Debounce + 1
EntriesAreTrue ==
    NotLate(memory) /\ NotLate(saved) /\ NotEarly(memory) /\ NotEarly(saved)

\* What was reported last is what is remembered.
ReportIsOfMemory ==
    /\ reported.changed \in {Unset, memory.changed}
    /\ ~watcher.up => reported.changed = Unset
    /\ reported.running /\ ~reported.busy =>
           reported.at - changedNow <= Debounce + watcher.unseen

MemoryInv ==
    /\ MemoryTypeOK /\ ClockOK /\ MemoryOK /\ ChangedSinceSeen /\ EntriesAreTrue
    /\ ReportIsOfMemory

-----------------------------------------------------------------------------
LEMMA NoEntryIs ==
    /\ NoEntry \in Entries /\ NoEntry.screen = -1 /\ NoEntry.changed = Unset
    /\ ~NoEntry.restored /\ ~NoEntry.oldHash
BY DEF NoEntry, Entries, Unset

LEMMA EntryMade ==
    ASSUME NEW screen \in Int, NEW changed \in Int
    PROVE  /\ PaneEntry(screen, changed) \in Entries
           /\ PaneEntry(screen, changed).screen = screen
           /\ PaneEntry(screen, changed).changed = changed
           /\ ~PaneEntry(screen, changed).restored /\ ~PaneEntry(screen, changed).oldHash
BY NoEntryIs DEF PaneEntry, Entries

LEMMA NothingReported ==
    /\ NoPaneReport \in PaneReports /\ NoPaneReport.changed = Unset /\ ~NoPaneReport.running
BY DEF NoPaneReport, PaneReports, Unset

LEMMA Fields ==
    ASSUME MemoryTypeOK
    PROVE  /\ watcher.up \in BOOLEAN /\ watcher.step \in {"wait", "sample", "capture"}
           /\ watcher.began \in Int /\ watcher.last \in Int /\ watcher.sample \in Int
           /\ watcher.seen \in Int /\ watcher.unseen \in Nat /\ watcher.hidden \in BOOLEAN
           /\ watcher.count \in Int /\ watcher.scanned \in BOOLEAN
           /\ memory.screen \in Int /\ memory.changed \in Int
           /\ memory.restored \in BOOLEAN /\ memory.oldHash \in BOOLEAN
           /\ saved.screen \in Int /\ saved.changed \in Int
           /\ reported.changed \in Int /\ reported.at \in Int
           /\ Debounce \in Nat /\ ScanGap \in Nat /\ DownTime \in Nat
           /\ nowTime \in Int /\ changedNow \in Int /\ screenNow \in Nat
BY ActivityAssumption DEF MemoryTypeOK, Watchers, Entries, PaneReports

-----------------------------------------------------------------------------
LEMMA MemoryStarts == MemoryInit => MemoryInv
<1>. SUFFICES ASSUME MemoryInit PROVE MemoryInv
  OBVIOUS
<1>1. /\ screenNow = 0 /\ changedNow = 1 /\ says = "unknown" /\ nowTime = 1
      /\ memory = NoEntry /\ saved = NoEntry /\ reported = NoPaneReport
  BY DEF MemoryInit
<1>2. /\ watcher \in Watchers /\ ~watcher.up /\ watcher.step = "wait" /\ watcher.began = 1
      /\ watcher.last = 1 /\ watcher.sample = -1 /\ watcher.seen = 1 /\ watcher.unseen = 0
  BY DEF MemoryInit, Watchers
<1>3. MemoryTypeOK
  BY <1>1, <1>2, NoEntryIs, NothingReported DEF MemoryTypeOK
<1>4. ClockOK
  BY <1>1, <1>2 DEF ClockOK
<1>5. MemoryOK
  BY <1>1, <1>2, NoEntryIs DEF MemoryOK, EntryOK, Unset
<1>6. ChangedSinceSeen
  BY <1>1, <1>2 DEF ChangedSinceSeen
<1>7. EntriesAreTrue
  BY <1>1, NoEntryIs DEF EntriesAreTrue, NotLate, NotEarly
<1>8. ReportIsOfMemory
  BY <1>1, NothingReported DEF ReportIsOfMemory
<1>. QED
  BY <1>3, <1>4, <1>5, <1>6, <1>7, <1>8 DEF MemoryInv

\* The screen changes: what was remembered is of another.
LEMMA ScreenKeeps ==
    ASSUME MemoryInv, PaneScreenChanges
    PROVE  MemoryInv'
<1>1. MemoryTypeOK /\ ClockOK /\ MemoryOK /\ ChangedSinceSeen /\ ReportIsOfMemory
  BY DEF MemoryInv
<1>2. /\ screenNow' = screenNow + 1 /\ changedNow' = nowTime
      /\ says' \in {"working", "unknown", "waiting_input"}
      /\ UNCHANGED <<nowTime, watcher, memory, saved, reported>>
  BY DEF PaneScreenChanges
<1>. USE <1>1, <1>2, Fields
<1>3. MemoryTypeOK'
  BY DEF MemoryTypeOK
<1>4. ClockOK'
  BY DEF ClockOK
<1>5. MemoryOK'
  BY DEF MemoryOK, EntryOK
<1>6. ChangedSinceSeen'
  BY DEF ChangedSinceSeen, ClockOK
<1>7. EntriesAreTrue'
  BY DEF EntriesAreTrue, NotLate, NotEarly, MemoryOK, EntryOK
<1>8. ReportIsOfMemory'
  BY DEF ReportIsOfMemory, ClockOK
<1>. QED
  BY <1>3, <1>4, <1>5, <1>6, <1>7, <1>8 DEF MemoryInv

LEMMA ActivityTimeKeeps ==
    ASSUME MemoryInv, ActivityTimePasses
    PROVE  MemoryInv'
<1>1. MemoryTypeOK /\ ClockOK /\ MemoryOK /\ ChangedSinceSeen /\ EntriesAreTrue
      /\ ReportIsOfMemory
  BY DEF MemoryInv
<1>2. /\ watcher.up => nowTime < watcher.last + ScanGap
      /\ nowTime' = nowTime + 1
      /\ UNCHANGED <<screenNow, changedNow, says, watcher, memory, saved, reported>>
  BY DEF ActivityTimePasses
<1>. USE <1>1, <1>2, Fields
<1>3. MemoryTypeOK'
  BY DEF MemoryTypeOK
<1>4. ClockOK'
  BY DEF ClockOK
<1>5. MemoryOK'
  BY DEF MemoryOK, EntryOK
<1>6. ChangedSinceSeen' /\ EntriesAreTrue' /\ ReportIsOfMemory'
  BY DEF ChangedSinceSeen, EntriesAreTrue, NotLate, NotEarly, ReportIsOfMemory
<1>. QED
  BY <1>3, <1>4, <1>5, <1>6 DEF MemoryInv

-----------------------------------------------------------------------------
(* A scan. *)

LEMMA ScanStartKeeps ==
    ASSUME MemoryInv, ScanStarts \/ FirstSample
    PROVE  MemoryInv'
<1>1. MemoryTypeOK /\ ClockOK /\ MemoryOK /\ ChangedSinceSeen /\ EntriesAreTrue
      /\ ReportIsOfMemory
  BY DEF MemoryInv
<1>2. UNCHANGED <<screenNow, changedNow, says, nowTime, memory, saved, reported>>
  BY DEF ScanStarts, FirstSample
<1>3. /\ watcher.up
      /\ watcher' \in Watchers
      /\ watcher'.up = watcher.up /\ watcher'.last = watcher.last
      /\ watcher'.hidden = watcher.hidden /\ watcher'.seen = watcher.seen
      /\ watcher'.unseen = watcher.unseen
      /\ \/ /\ watcher'.began = nowTime /\ watcher'.step \in {"sample", "capture"}
            /\ watcher'.sample = watcher.sample /\ watcher.sample = -1
         \/ /\ watcher'.began = watcher.began /\ watcher'.step = "capture"
            /\ watcher'.sample = screenNow /\ watcher.step = "sample"
  <2>1. CASE ScanStarts
    <3>1. watcher.up /\ watcher.step = "wait" /\ watcher.sample = -1
      BY <1>1, <2>1 DEF ScanStarts, ChangedSinceSeen
    <3>2. watcher' = [watcher EXCEPT
              !.step = IF watcher.scanned THEN "capture" ELSE "sample", !.began = nowTime]
      BY <2>1 DEF ScanStarts
    <3>3. watcher \in Watchers /\ nowTime \in Int
      BY <1>1 DEF MemoryTypeOK
    <3>. QED
      BY <3>1, <3>2, <3>3 DEF Watchers
  <2>2. CASE FirstSample
    <3>1. watcher.step = "sample" /\ watcher.up
      BY <1>1, <2>2 DEF FirstSample, ClockOK
    <3>2. watcher' = [watcher EXCEPT !.step = "capture", !.sample = screenNow]
      BY <2>2 DEF FirstSample
    <3>3. watcher \in Watchers /\ screenNow \in Int
      BY <1>1 DEF MemoryTypeOK
    <3>. QED
      BY <3>1, <3>2, <3>3 DEF Watchers
  <2>. QED
    BY <2>1, <2>2
<1>. USE <1>1, <1>2, <1>3, Fields
<1>4. MemoryTypeOK'
  BY DEF MemoryTypeOK
<1>5. ClockOK'
  BY DEF ClockOK
<1>6. MemoryOK'
  BY DEF MemoryOK, EntryOK
<1>7. ChangedSinceSeen'
  BY DEF ChangedSinceSeen
<1>8. EntriesAreTrue'
  BY DEF EntriesAreTrue, NotLate, NotEarly, ClockOK
<1>9. ReportIsOfMemory'
  BY DEF ReportIsOfMemory
<1>. QED
  BY <1>4, <1>5, <1>6, <1>7, <1>8, <1>9 DEF MemoryInv

\* After a scan the daemon waits for the next.
LEMMA ScanIsOver ==
    ASSUME MemoryTypeOK
    PROVE  /\ Scanned \in Watchers
           /\ Scanned.up = watcher.up /\ Scanned.step = "wait" /\ Scanned.sample = -1
           /\ Scanned.began = watcher.began /\ Scanned.last = nowTime
           /\ Scanned.hidden = watcher.hidden /\ Scanned.seen = watcher.seen
           /\ Scanned.unseen = watcher.unseen
<1>1. watcher \in Watchers /\ nowTime \in Int
  BY DEF MemoryTypeOK
<1>2. -1 \in Int
  OBVIOUS
<1>. QED
  BY <1>1, <1>2 DEF Scanned, Watchers

LEMMA ReportIsOver ==
    ASSUME MemoryTypeOK, NEW began \in Int, NEW unseen \in Nat, NEW w,
           w = [Scanned EXCEPT !.seen = began, !.unseen = unseen]
    PROVE  /\ w \in Watchers
           /\ w.up = watcher.up /\ w.step = "wait" /\ w.sample = -1
           /\ w.began = watcher.began /\ w.last = nowTime /\ w.hidden = watcher.hidden
           /\ w.seen = began /\ w.unseen = unseen
BY ScanIsOver DEF Watchers

LEMMA ScanErrKeeps ==
    ASSUME MemoryInv, ScanErrs
    PROVE  MemoryInv'
<1>1. MemoryTypeOK /\ ClockOK /\ MemoryOK /\ ChangedSinceSeen /\ EntriesAreTrue
  BY DEF MemoryInv
<1>2. /\ watcher.step = "capture" /\ watcher' = Scanned
      /\ reported' = [NoPaneReport EXCEPT !.state = "blocked", !.at = watcher.began]
      /\ UNCHANGED <<screenNow, changedNow, says, nowTime, memory, saved>>
  BY DEF ScanErrs
<1>3. /\ reported' \in PaneReports /\ reported'.changed = Unset /\ ~reported'.running
  BY <1>1, <1>2, Fields, NothingReported DEF PaneReports
<1>4. /\ watcher' \in Watchers
      /\ watcher'.up = watcher.up /\ watcher'.step = "wait" /\ watcher'.sample = -1
      /\ watcher'.began = watcher.began /\ watcher'.last = nowTime
      /\ watcher'.hidden = watcher.hidden /\ watcher'.seen = watcher.seen
      /\ watcher'.unseen = watcher.unseen
  BY <1>1, <1>2, ScanIsOver
<1>. USE <1>1, <1>2, <1>3, <1>4, Fields
<1>5. MemoryTypeOK'
  BY DEF MemoryTypeOK
<1>6. ClockOK'
  BY DEF ClockOK
<1>7. MemoryOK'
  BY DEF MemoryOK, EntryOK
<1>8. ChangedSinceSeen'
  BY DEF ChangedSinceSeen
<1>9. EntriesAreTrue'
  BY DEF EntriesAreTrue, NotLate, NotEarly
<1>10. ReportIsOfMemory'
  BY DEF ReportIsOfMemory
<1>. QED
  BY <1>5, <1>6, <1>7, <1>8, <1>9, <1>10 DEF MemoryInv

\* The time of the change that a scan settles on.
Settled ==
    IF memory = NoEntry THEN IF Inspected = "working" THEN watcher.began ELSE Unset
    ELSE IF memory.restored \/ memory.screen = screenNow THEN RestoredPane.changed
    ELSE watcher.began

LEMMA RestoredTime ==
    ASSUME MemoryInv
    PROVE  /\ RestoredPane.changed \in Int
           /\ ~memory.restored \/ memory.screen = screenNow \/ memory.oldHash
                  => RestoredPane.changed = memory.changed
           /\ memory.restored /\ memory.screen # screenNow /\ ~memory.oldHash
                  => /\ RestoredPane.changed \in {1, watcher.began - Debounce - 1}
                     /\ RestoredPane.changed >= watcher.began - Debounce - 1
<1>1. MemoryTypeOK
  BY DEF MemoryInv
<1>2. CASE ~memory.restored \/ memory.screen = screenNow \/ memory.oldHash
  BY <1>1, <1>2, Fields DEF RestoredPane
<1>3. CASE memory.restored /\ memory.screen # screenNow /\ ~memory.oldHash
  <2>. DEFINE back == Max({Unset + 1, watcher.began - Debounce - 1})
  <2>1. RestoredPane = [memory EXCEPT !.changed = back]
    BY <1>3 DEF RestoredPane
  <2>2. back \in {1, watcher.began - Debounce - 1} /\ back >= watcher.began - Debounce - 1
    <3>1. Unset + 1 = 1
      BY DEF Unset
    <3>2. watcher.began - Debounce - 1 \in Int
      BY <1>1, Fields
    <3>. QED
      BY <3>1, <3>2, MaxOfTwo
  <2>. HIDE DEF back
  <2>3. RestoredPane.changed = back
    BY <1>1, <2>1 DEF MemoryTypeOK, Entries
  <2>. QED
    BY <1>1, <1>3, <2>2, <2>3, Fields
<1>. QED
  BY <1>2, <1>3

LEMMA RecentlyIs ==
    ASSUME NEW changed
    PROVE  /\ Recently(changed) \in BOOLEAN
           /\ Recently(changed) => watcher.began - changed <= Debounce
BY DEF Recently

LEMMA JudgedSo ==
    ASSUME MemoryInv
    PROVE  /\ Settled \in Int /\ RunningState.entry = PaneEntry(screenNow, Settled)
           /\ RunningState.running \in BOOLEAN
           /\ RunningState.running =>
                \/ Inspected = "working"
                \/ /\ memory # NoEntry /\ Settled # Unset
                   /\ watcher.began - Settled <= Debounce
<1>1. MemoryTypeOK /\ MemoryOK
  BY DEF MemoryInv
<1>2. watcher.began \in Int /\ Debounce \in Nat
  BY <1>1, Fields
<1>3. CASE memory = NoEntry
  <2>1. RunningState = Judged(PaneEntry(screenNow, Settled), Inspected = "working", FALSE)
    BY <1>3 DEF RunningState, Settled
  <2>2. Settled \in Int
    BY <1>2, <1>3 DEF Settled, Unset
  <2>3. /\ RunningState.entry = PaneEntry(screenNow, Settled)
        /\ RunningState.running = (Inspected = "working")
    BY <2>1 DEF Judged
  <2>. QED
    BY <2>2, <2>3
<1>4. CASE memory # NoEntry /\ memory.restored
  <2>1. Settled = RestoredPane.changed /\ Settled \in Int
    BY <1>4, RestoredTime DEF Settled
  <2>2. memory.screen = screenNow => Settled # Unset
    BY <1>1, <1>4, <2>1, RestoredTime DEF MemoryOK
  <2>3. CASE memory.screen # screenNow \/ memory.oldHash
    <3>1. RunningState = Judged(PaneEntry(screenNow, Settled), Inspected = "working", FALSE)
      BY <1>4, <2>1, <2>3 DEF RunningState
    <3>2. /\ RunningState.entry = PaneEntry(screenNow, Settled)
          /\ RunningState.running = (Inspected = "working")
      BY <3>1 DEF Judged
    <3>. QED
      BY <2>1, <3>2
  <2>4. CASE memory.screen = screenNow /\ ~memory.oldHash
    <3>1. RunningState = Judged(PaneEntry(screenNow, Settled), Recently(Settled), TRUE)
      BY <1>4, <2>1, <2>4 DEF RunningState
    <3>2. /\ RunningState.entry = PaneEntry(screenNow, Settled)
          /\ RunningState.running = Recently(Settled)
      BY <3>1 DEF Judged
    <3>. QED
      BY <1>4, <2>1, <2>2, <2>4, <3>2, RecentlyIs
  <2>. QED
    BY <2>3, <2>4
<1>5. CASE memory # NoEntry /\ ~memory.restored
  <2>1. /\ Settled \in Int
        /\ Settled = IF memory.restored \/ memory.screen = screenNow
                     THEN RestoredPane.changed ELSE watcher.began
    BY <1>2, <1>5, RestoredTime DEF Settled
  <2>2. CASE Settled = Unset
    <3>1. RunningState = Judged(PaneEntry(screenNow, Settled), Inspected = "working", TRUE)
      BY <1>5, <2>1, <2>2 DEF RunningState
    <3>2. /\ RunningState.entry = PaneEntry(screenNow, Settled)
          /\ RunningState.running = (Inspected = "working")
      BY <3>1 DEF Judged
    <3>. QED
      BY <2>1, <3>2
  <2>3. CASE Settled # Unset
    <3>1. RunningState = Judged(PaneEntry(screenNow, Settled), Recently(Settled), TRUE)
      BY <1>5, <2>1, <2>3 DEF RunningState
    <3>2. /\ RunningState.entry = PaneEntry(screenNow, Settled)
          /\ RunningState.running = Recently(Settled)
      BY <3>1 DEF Judged
    <3>. QED
      BY <1>5, <2>1, <2>3, <3>2, RecentlyIs
  <2>. QED
    BY <2>2, <2>3
<1>. QED
  BY <1>3, <1>4, <1>5

LEMMA ScanReportKeeps ==
    ASSUME MemoryInv, ScanReports
    PROVE  MemoryInv'
<1>. DEFINE unseen == IF memory.screen # screenNow /\ Settled = watcher.began
                      THEN watcher.began - watcher.seen ELSE watcher.unseen
<1>1. MemoryTypeOK /\ ClockOK /\ MemoryOK /\ ChangedSinceSeen /\ EntriesAreTrue
      /\ ReportIsOfMemory
  BY DEF MemoryInv
<1>2. /\ Settled \in Int /\ RunningState.entry = PaneEntry(screenNow, Settled)
      /\ RunningState.running \in BOOLEAN
      /\ RunningState.running =>
           \/ Inspected = "working"
           \/ memory # NoEntry /\ Settled # Unset /\ watcher.began - Settled <= Debounce
  BY JudgedSo
<1>3. PaneEntry(screenNow, Settled).changed = Settled
  BY <1>1, <1>2, Fields, EntryMade, SMTT(60)
<1>4. /\ watcher.step = "capture" /\ memory' = PaneEntry(screenNow, Settled)
      /\ UNCHANGED <<screenNow, changedNow, says, nowTime, saved>>
      /\ watcher' = [Scanned EXCEPT !.seen = watcher.began, !.unseen = unseen]
  <2>1. /\ watcher.step = "capture" /\ memory' = RunningState.entry
        /\ UNCHANGED <<screenNow, changedNow, says, nowTime, saved>>
    BY DEF ScanReports
  <2>2. watcher' = [Scanned EXCEPT !.seen = watcher.began,
              !.unseen = IF memory.screen # screenNow /\ RunningState.entry.changed = watcher.began
                         THEN watcher.began - watcher.seen ELSE @]
    BY DEF ScanReports
  <2>3. Scanned.unseen = watcher.unseen
    BY <1>1, Fields, ScanIsOver
  <2>4. Scanned \in Watchers
    BY <1>1, Fields, ScanIsOver
  <2>. QED
    BY <1>2, <1>3, <2>1, <2>2, <2>3, <2>4 DEF Watchers
<1>5. unseen \in Nat
  BY <1>1, Fields DEF ClockOK
<1>6. /\ watcher' \in Watchers
      /\ watcher'.up = watcher.up /\ watcher'.step = "wait" /\ watcher'.sample = -1
      /\ watcher'.began = watcher.began /\ watcher'.last = nowTime
      /\ watcher'.hidden = watcher.hidden
      /\ watcher'.seen = watcher.began /\ watcher'.unseen = unseen
  <2>. HIDE DEF unseen
  <2>1. watcher.began \in Int
    BY <1>1, Fields
  <2>2. watcher' = [Scanned EXCEPT !.seen = watcher.began, !.unseen = unseen]
    BY <1>4
  <2>3. /\ Scanned \in Watchers
        /\ Scanned.up = watcher.up /\ Scanned.step = "wait" /\ Scanned.sample = -1
        /\ Scanned.began = watcher.began /\ Scanned.last = nowTime
        /\ Scanned.hidden = watcher.hidden
    BY <1>1, ScanIsOver
  <2>. QED
    BY <1>5, <2>1, <2>2, <2>3 DEF Watchers
<1>7. /\ memory' \in Entries /\ memory'.screen = screenNow /\ memory'.changed = Settled
      /\ ~memory'.restored /\ ~memory'.oldHash
  <2>1. screenNow \in Int
    BY <1>1, Fields
  <2>. QED
    BY <1>2, <1>4, <2>1, EntryMade, Zenon
<1>8. Inspected \in {"working", "unknown", "waiting_input"}
  BY <1>1 DEF Inspected, MemoryTypeOK
<1>9. /\ reported' \in PaneReports /\ reported'.running = RunningState.running
      /\ reported'.changed = Settled /\ reported'.at = watcher.began
      /\ reported'.busy = (Inspected = "working")
  <2>1. reported' = [running |-> RunningState.running, changed |-> RunningState.entry.changed,
                     at |-> watcher.began, busy |-> Inspected = "working",
                     state |-> IF RunningState.running THEN "working"
                               ELSE IF RunningState.history /\ Inspected = "unknown" THEN "idle"
                               ELSE Inspected]
    BY DEF ScanReports
  <2>2. watcher.began \in Int /\ RunningState.entry.changed = Settled
    BY <1>1, <1>2, <1>3, Fields
  <2>. QED
    BY <1>2, <1>8, <2>1, <2>2 DEF PaneReports
\* Where the time comes from.
<1>10. \/ memory.screen = screenNow /\ Settled = memory.changed
       \/ Settled = Unset
       \/ /\ memory.screen # screenNow /\ Settled = watcher.began
          /\ memory # NoEntry => ~memory.restored
          /\ memory = NoEntry => Inspected = "working"
       \/ /\ memory.screen # screenNow /\ Settled = memory.changed /\ memory.oldHash
       \/ /\ memory.screen # screenNow
          /\ Settled \in {1, watcher.began - Debounce - 1}
          /\ Settled >= watcher.began - Debounce - 1
  <2>1. CASE memory = NoEntry
    <3>1. memory.screen # screenNow
      BY <1>1, <2>1, Fields, NoEntryIs
    <3>. QED
      BY <2>1, <3>1 DEF Settled
  <2>2. CASE memory # NoEntry
    BY <2>2, RestoredTime DEF Settled
  <2>. QED
    BY <2>1, <2>2
<1>11. Inspected = "working" =>
           says = "working" \/ watcher.began <= changedNow
  BY <1>1 DEF Inspected, ChangedSinceSeen
<1>. HIDE DEF unseen, Settled
<1>12. Settled # Unset =>
           \/ Settled <= changedNow + unseen
           \/ Settled + Debounce < watcher.began
           \/ says = "working"
  <2>1. CASE memory.screen = screenNow
    <3>1. unseen = watcher.unseen
      BY <2>1 DEF unseen
    <3>. QED
      BY <1>1, <1>10, <2>1, <3>1 DEF EntriesAreTrue, NotLate
  <2>2. CASE memory.screen # screenNow
    <3>1. CASE Settled = watcher.began
      <4>1. unseen = watcher.began - watcher.seen
        BY <2>2, <3>1 DEF unseen
      <4>2. memory # NoEntry /\ ~memory.restored => watcher.seen <= changedNow
        BY <1>1, <2>2 DEF ChangedSinceSeen
      <4>3. watcher.seen <= watcher.began /\ 1 <= changedNow /\ 1 <= watcher.seen
        BY <1>1 DEF ClockOK
      <4>5. memory.changed <= changedNow
        BY <1>1, <2>2 DEF MemoryOK, EntryOK
      <4>. QED
        <5>1. CASE memory # NoEntry /\ ~memory.restored
          BY <1>1, <3>1, <4>1, <4>2, <5>1, Fields
        <5>2. CASE memory = NoEntry /\ Inspected = "working"
          BY <1>1, <1>11, <3>1, <4>1, <4>3, <5>2, Fields
        <5>3. CASE Settled = memory.changed
          BY <1>1, <2>2, <1>5, <4>5, <5>3, Fields
        <5>4. CASE Settled = 1
          BY <1>1, <1>5, <4>3, <5>4, Fields
        <5>5. CASE Settled = watcher.began - Debounce - 1
          BY <1>1, <3>1, <5>5, Fields
        <5>. QED
          BY <1>10, <2>2, <5>1, <5>2, <5>3, <5>4, <5>5
    <3>2. CASE Settled # watcher.began
      <4>1. memory.changed <= changedNow /\ 1 <= changedNow
        BY <1>1, <2>2 DEF MemoryOK, EntryOK, ClockOK
      <4>. QED
        BY <1>1, <1>2, <1>5, <1>10, <2>2, <3>2, <4>1, Fields
    <3>. QED
      BY <3>1, <3>2
  <2>. QED
    BY <2>1, <2>2
<1>13. Settled # Unset /\ ~watcher.hidden => changedNow <= Settled + ScanGap + Debounce + 1
  <2>1. CASE memory.screen = screenNow
    BY <1>1, <1>10, <2>1 DEF EntriesAreTrue, NotEarly
  <2>2. CASE memory.screen # screenNow
    <3>1. changedNow <= watcher.began + ScanGap
      BY <1>1, <1>4, Fields DEF ClockOK
    <3>2. memory.oldHash => watcher.hidden
      BY <1>1 DEF MemoryOK
    <3>. QED
      BY <1>1, <1>2, <1>10, <2>2, <3>1, <3>2, Fields
  <2>. QED
    BY <2>1, <2>2
<1>14. Settled <= nowTime
  BY <1>1, <1>2, <1>10, Fields DEF ClockOK, MemoryOK, EntryOK, Unset
<1>. HIDE DEF RunningState, Inspected
<1>15. MemoryTypeOK'
  BY <1>1, <1>4, <1>6, <1>7, <1>9 DEF MemoryTypeOK
<1>16. ClockOK'
  BY <1>1, <1>4, <1>6, Fields DEF ClockOK
<1>17. MemoryOK'
  BY <1>1, <1>4, <1>6, <1>7, <1>14, Fields DEF MemoryOK, EntryOK
<1>18. ChangedSinceSeen'
  BY <1>4, <1>6, <1>7 DEF ChangedSinceSeen
<1>19. EntriesAreTrue'
  <2>1. NotLate(memory)' /\ NotEarly(memory)'
    BY <1>4, <1>6, <1>7, <1>12, <1>13 DEF NotLate, NotEarly
  <2>2. NotLate(saved)'
    <3>1. CASE unseen = watcher.unseen
      BY <1>1, <1>4, <1>6, <3>1 DEF EntriesAreTrue, NotLate
    <3>2. CASE unseen # watcher.unseen
      <4>1. memory.screen # screenNow
        BY <3>2 DEF unseen
      <4>2. saved.screen # screenNow
        BY <1>1, <1>4, <4>1, Fields DEF MemoryOK, EntryOK, ClockOK
      <4>. QED
        BY <1>4, <4>2 DEF NotLate
    <3>. QED
      BY <3>1, <3>2
  <2>3. NotEarly(saved)'
    BY <1>1, <1>4, <1>6 DEF EntriesAreTrue, NotEarly
  <2>. QED
    BY <2>1, <2>2, <2>3 DEF EntriesAreTrue
<1>20. ReportIsOfMemory'
  <2>1. reported'.running /\ ~reported'.busy =>
            reported'.at - changedNow' <= Debounce + watcher'.unseen
    <3>1. SUFFICES ASSUME RunningState.running, Inspected # "working"
                   PROVE  watcher.began - changedNow <= Debounce + unseen
      BY <1>4, <1>6, <1>9
    <3>2. Settled # Unset /\ watcher.began - Settled <= Debounce
      BY <1>2, <3>1
    <3>3. says = "working" => watcher.began <= changedNow
      BY <1>1, <3>1 DEF Inspected, ChangedSinceSeen
    <3>. QED
      BY <1>1, <1>2, <1>5, <1>12, <3>2, <3>3, Fields
  <2>2. watcher.up
    BY <1>1, <1>4 DEF ClockOK
  <2>. QED
    BY <1>6, <1>7, <1>9, <2>1, <2>2 DEF ReportIsOfMemory
<1>. QED
  BY <1>15, <1>16, <1>17, <1>18, <1>19, <1>20 DEF MemoryInv

-----------------------------------------------------------------------------
(* The memory on disk. *)

\* What is saved is as true as what is remembered.
LEMMA SavedIsTrue ==
    ASSUME MemoryInv
    PROVE  /\ SavedEntry \in Entries /\ EntryOK(SavedEntry)
           /\ SavedEntry # NoEntry => SavedEntry.changed # Unset
           /\ SavedEntry.screen <= memory.screen
           /\ NotLate(SavedEntry) /\ NotEarly(SavedEntry)
<1>1. MemoryTypeOK /\ ClockOK /\ MemoryOK /\ EntriesAreTrue
  BY DEF MemoryInv
<1>2. CASE memory.changed = Unset
  <2>1. SavedEntry = NoEntry
    BY <1>2 DEF SavedEntry
  <2>2. -1 <= memory.screen
    BY <1>1, Fields, NoEntryIs DEF MemoryOK, EntryOK
  <2>. QED
    BY <1>1, <2>1, <2>2, Fields, NoEntryIs DEF EntryOK, NotLate, NotEarly, ClockOK, Unset
<1>3. CASE memory.changed # Unset
  <2>1. SavedEntry = PaneEntry(memory.screen, memory.changed)
    BY <1>3 DEF SavedEntry
  <2>2. /\ SavedEntry \in Entries /\ SavedEntry.screen = memory.screen
        /\ SavedEntry.changed = memory.changed
    BY <1>1, <2>1, Fields, EntryMade, SMTT(60)
  <2>3. ~(memory.screen < 0)
    BY <1>1, <1>3, NoEntryIs DEF MemoryOK, EntryOK
  <2>. QED
    BY <1>1, <1>3, <2>2, <2>3, Fields
       DEF MemoryOK, EntryOK, EntriesAreTrue, NotLate, NotEarly
<1>. QED
  BY <1>2, <1>3

LEMMA SaveKeeps ==
    ASSUME MemoryInv, SavePaneMemory
    PROVE  MemoryInv'
<1>1. MemoryTypeOK /\ ClockOK /\ MemoryOK /\ ChangedSinceSeen /\ EntriesAreTrue
      /\ ReportIsOfMemory
  BY DEF MemoryInv
<1>2. /\ saved' = SavedEntry
      /\ UNCHANGED <<screenNow, changedNow, says, nowTime, watcher, memory, reported>>
  BY DEF SavePaneMemory
<1>3. /\ saved' \in Entries /\ EntryOK(saved)' /\ (saved' # NoEntry => saved'.changed # Unset)
      /\ saved'.screen <= memory.screen /\ NotLate(saved)' /\ NotEarly(saved)'
  BY <1>2, SavedIsTrue DEF EntryOK, NotLate, NotEarly
<1>4. MemoryTypeOK' /\ ClockOK' /\ ChangedSinceSeen' /\ ReportIsOfMemory'
  BY <1>1, <1>2, <1>3 DEF MemoryTypeOK, ClockOK, ChangedSinceSeen, ReportIsOfMemory
<1>5. MemoryOK'
  BY <1>1, <1>2, <1>3 DEF MemoryOK, EntryOK
<1>6. EntriesAreTrue'
  BY <1>1, <1>2, <1>3 DEF EntriesAreTrue, NotLate, NotEarly
<1>. QED
  BY <1>4, <1>5, <1>6 DEF MemoryInv

LEMMA EndKeeps ==
    ASSUME MemoryInv, DaemonEnds
    PROVE  MemoryInv'
<1>1. MemoryTypeOK /\ ClockOK /\ MemoryOK /\ ChangedSinceSeen /\ EntriesAreTrue
  BY DEF MemoryInv
<1>2. /\ saved' \in {saved, SavedEntry}
      /\ watcher' = [watcher EXCEPT !.up = FALSE, !.step = "wait", !.scanned = FALSE,
                                    !.sample = -1, !.last = nowTime]
      /\ memory' = NoEntry /\ reported' = NoPaneReport
      /\ UNCHANGED <<screenNow, changedNow, says, nowTime>>
  BY DEF DaemonEnds
<1>3. /\ watcher' \in Watchers
      /\ ~watcher'.up /\ watcher'.step = "wait" /\ watcher'.sample = -1
      /\ watcher'.began = watcher.began /\ watcher'.last = nowTime
      /\ watcher'.hidden = watcher.hidden /\ watcher'.seen = watcher.seen
      /\ watcher'.unseen = watcher.unseen
  <2>1. watcher \in Watchers /\ nowTime \in Int
    BY <1>1 DEF MemoryTypeOK
  <2>2. -1 \in Int
    OBVIOUS
  <2>. QED
    BY <1>2, <2>1, <2>2 DEF Watchers
<1>4. /\ saved' \in Entries /\ EntryOK(saved)' /\ (saved' # NoEntry => saved'.changed # Unset)
      /\ NotLate(saved)' /\ NotEarly(saved)'
  <2>1. /\ saved \in Entries /\ EntryOK(saved) /\ (saved # NoEntry => saved.changed # Unset)
        /\ NotLate(saved) /\ NotEarly(saved)
    BY <1>1 DEF MemoryTypeOK, MemoryOK, EntriesAreTrue
  <2>2. /\ SavedEntry \in Entries /\ EntryOK(SavedEntry)
        /\ SavedEntry # NoEntry => SavedEntry.changed # Unset
        /\ NotLate(SavedEntry) /\ NotEarly(SavedEntry)
    BY SavedIsTrue
  <2>. QED
    BY <1>2, <1>3, <2>1, <2>2 DEF EntryOK, NotLate, NotEarly
<1>5. MemoryTypeOK'
  BY <1>1, <1>2, <1>3, <1>4, NoEntryIs, NothingReported DEF MemoryTypeOK
<1>6. ClockOK'
  BY <1>1, <1>2, <1>3, Fields DEF ClockOK
<1>7. EntryOK(memory)'
  BY <1>1, <1>2, Fields, NoEntryIs DEF EntryOK, ClockOK, Unset
<1>8. MemoryOK'
  BY <1>2, <1>3, <1>4, <1>7, NoEntryIs DEF MemoryOK
<1>9. ChangedSinceSeen'
  BY <1>2, <1>3 DEF ChangedSinceSeen
<1>10. EntriesAreTrue'
  BY <1>2, <1>4, NoEntryIs DEF EntriesAreTrue, NotLate, NotEarly
<1>11. ReportIsOfMemory'
  BY <1>2, NothingReported DEF ReportIsOfMemory
<1>. QED
  BY <1>5, <1>6, <1>8, <1>9, <1>10, <1>11 DEF MemoryInv

LEMMA LoadKeeps ==
    ASSUME MemoryInv, LoadPaneMemory
    PROVE  MemoryInv'
<1>1. MemoryTypeOK /\ ClockOK /\ MemoryOK /\ ChangedSinceSeen /\ EntriesAreTrue
      /\ ReportIsOfMemory
  BY DEF MemoryInv
<1>2. PICK old \in BOOLEAN :
          memory' = IF saved = NoEntry THEN NoEntry
                    ELSE [saved EXCEPT !.restored = TRUE, !.oldHash = old]
  BY DEF LoadPaneMemory
<1>3. /\ ~watcher.up
      /\ watcher' = [watcher EXCEPT !.up = TRUE, !.count = @ + 1, !.last = nowTime,
                                    !.hidden = @ \/ memory'.oldHash]
      /\ UNCHANGED <<screenNow, changedNow, says, nowTime, saved, reported>>
  BY DEF LoadPaneMemory
<1>4. /\ memory' \in Entries /\ memory'.screen = saved.screen /\ memory'.changed = saved.changed
      /\ saved # NoEntry => memory'.restored
      /\ saved = NoEntry => memory' = NoEntry
  <2>1. CASE saved = NoEntry
    BY <1>2, <2>1, NoEntryIs
  <2>2. CASE saved # NoEntry
    <3>1. memory' = [saved EXCEPT !.restored = TRUE, !.oldHash = old] /\ saved \in Entries
      BY <1>1, <1>2, <2>2 DEF MemoryTypeOK
    <3>. QED
      BY <2>2, <3>1 DEF Entries
  <2>. QED
    BY <2>1, <2>2
<1>5. memory'.oldHash \in BOOLEAN
  BY <1>4 DEF Entries
<1>6. /\ watcher' \in Watchers
      /\ watcher'.up /\ watcher'.step = watcher.step /\ watcher'.sample = watcher.sample
      /\ watcher'.began = watcher.began /\ watcher'.last = nowTime
      /\ watcher'.hidden = (watcher.hidden \/ memory'.oldHash)
      /\ watcher'.seen = watcher.seen /\ watcher'.unseen = watcher.unseen
  <2>1. watcher \in Watchers /\ nowTime \in Int
    BY <1>1 DEF MemoryTypeOK
  <2>2. watcher.count + 1 \in Int /\ (watcher.hidden \/ memory'.oldHash) \in BOOLEAN
    BY <1>1, Fields
  <2>. QED
    BY <1>3, <2>1, <2>2 DEF Watchers
<1>7. watcher.step = "wait"
  BY <1>1, <1>3 DEF ClockOK
<1>8. MemoryTypeOK'
  BY <1>1, <1>3, <1>4, <1>6 DEF MemoryTypeOK
<1>9. ClockOK'
  BY <1>1, <1>3, <1>6, <1>7, Fields DEF ClockOK
<1>10. EntryOK(memory)' /\ EntryOK(saved)'
  <2>1. saved.screen < 0 => memory' = NoEntry
    BY <1>1, <1>4 DEF MemoryOK, EntryOK
  <2>. QED
    BY <1>1, <1>3, <1>4, <2>1 DEF MemoryOK, EntryOK
<1>11. MemoryOK'
  <2>1. memory'.restored => memory'.changed # Unset
    BY <1>1, <1>4, NoEntryIs DEF MemoryOK
  <2>2. memory'.oldHash => watcher'.hidden
    BY <1>6
  <2>3. saved'.screen <= memory'.screen
    BY <1>1, <1>3, <1>4, Fields
  <2>. QED
    BY <1>1, <1>3, <1>10, <2>1, <2>2, <2>3 DEF MemoryOK
<1>12. ChangedSinceSeen'
  BY <1>1, <1>3, <1>4, <1>6, <1>7 DEF ChangedSinceSeen
<1>13. EntriesAreTrue'
  BY <1>1, <1>3, <1>4, <1>6 DEF EntriesAreTrue, NotLate, NotEarly
<1>14. ReportIsOfMemory'
  BY <1>1, <1>3, <1>6 DEF ReportIsOfMemory
<1>. QED
  BY <1>8, <1>9, <1>11, <1>12, <1>13, <1>14 DEF MemoryInv

-----------------------------------------------------------------------------
\* For any debounce, scans, restarts and screens: a pane is reported running only
\* for what its screen says or did recently, and what is reported unchanged is
\* (statusd/snapshot.go:268-311).
THEOREM ActivityHolds == MemorySpec => []ActivityIsTrue
<1>1. ASSUME MemoryInv, [MemoryNext]_activityVars PROVE MemoryInv'
  <2>1. CASE UNCHANGED activityVars
    BY <1>1, <2>1
       DEF activityVars, MemoryInv, MemoryTypeOK, ClockOK, MemoryOK, EntryOK, ChangedSinceSeen,
           EntriesAreTrue, NotLate, NotEarly, ReportIsOfMemory
  <2>. QED
    BY <1>1, <2>1, ScreenKeeps, ActivityTimeKeeps, ScanStartKeeps, ScanReportKeeps,
       ScanErrKeeps, SaveKeeps, EndKeeps, LoadKeeps DEF MemoryNext
<1>2. MemoryInv => ActivityIsTrue
  <2>1. SUFFICES ASSUME MemoryInv PROVE ActivityIsTrue
    OBVIOUS
  <2>. QED
    BY <2>1 DEF MemoryInv, ReportIsOfMemory, EntriesAreTrue, NotEarly, ActivityIsTrue
<1>. QED
  BY <1>1, <1>2, MemoryStarts, PTL DEF MemorySpec

-----------------------------------------------------------------------------
(***************************************************************************)
(* Proofs about WatchRules for any rules, questions and times.  A key is   *)
(* pressed for the question on the screen only, and at most one at a time  *)
(* waits to be read: until it is, the rule that pressed it has answered    *)
(* the same question too recently to press again, since its cooldown       *)
(* outlasts the look and the reading of the key, and no other rule allows  *)
(* that question.                                                          *)
(***************************************************************************)
WatchTypeOK ==
    /\ ruleSet \in RuleSets
    /\ asked \in Seq(Questions) /\ unanswered \in BOOLEAN /\ keys \in Seq(Nat)
    /\ watch \in {NotLooking} \cup [at : Nat, seen : DOMAIN asked, rule : DOMAIN ruleSet]
    /\ lastAccepted \in [DOMAIN ruleSet -> SUBSET [question : Questions, at : Nat]]
    /\ runs \in [DOMAIN ruleSet -> Nat]
    /\ accepted \subseteq DOMAIN asked
    /\ hands \in Nat /\ watchTime \in Nat
    /\ unanswered => asked # << >>

Looking == watch # NotLooking
LastAsked == Asks(Len(asked))

\* The time that a look and a key have taken is bounded.
InTime ==
    /\ Looking => watch.at <= watchTime /\ watchTime - watch.at <= LookTakes
    /\ \A i \in DOMAIN keys : keys[i] <= watchTime /\ watchTime - keys[i] <= ReadsWithin

\* Rule i pressed the key that waits, for the question on the screen.
PressedBy(i) ==
    /\ Allows(ruleSet[i], LastAsked)
    /\ \E t \in lastAccepted[i] : t.question = LastAsked /\ keys[1] - t.at <= LookTakes

\* At most one key waits, and a rule pressed it for what is still on the screen.
OneKey ==
    /\ Len(keys) <= 1
    /\ keys # << >> => unanswered /\ \E i \in DOMAIN ruleSet : PressedBy(i)

\* What the watcher saw is on the screen and no key was pressed for it, or the
\* rules that are left have nothing to press.
NothingSeen == watch.seen = Len(asked) /\ unanswered /\ keys = << >>
RestIsDone ==
    \A k \in DOMAIN ruleSet :
        k >= watch.rule /\ Allows(ruleSet[k], Asks(watch.seen)) => RanRecently(k)
LookIsCurrent == Looking => NothingSeen \/ RestIsDone

\* What was accepted is no longer asked, and a rule allows it.
AcceptedOnce ==
    /\ unanswered => Len(asked) \notin accepted
    /\ \A n \in accepted : \E i \in DOMAIN ruleSet : Allows(ruleSet[i], Asks(n))

\* Each question accepted, and the one that a key is about to accept, is a run of
\* the rule that allows it.
AcceptedBy(i) == {n \in accepted : Allows(ruleSet[i], Asks(n))}
ToCome(i) == IF keys # << >> /\ Allows(ruleSet[i], LastAsked) THEN 1 ELSE 0
RunsCount ==
    \A i \in DOMAIN ruleSet :
        /\ Cardinality(AcceptedBy(i)) + ToCome(i) <= runs[i]
        /\ ruleSet[i].maxRuns # 0 => runs[i] <= ruleSet[i].maxRuns

Unaided == hands = 0 /\ Apart
WatchInv ==
    /\ WatchTypeOK /\ InTime
    /\ Unaided => OneKey /\ LookIsCurrent /\ AcceptedOnce /\ RunsCount

-----------------------------------------------------------------------------
\* The rules in force are numbered from 1, there is one, and each has a cooldown
\* longer than a look and the reading of its key.
LEMMA RulesInForce ==
    ASSUME ruleSet \in RuleSets
    PROVE  /\ Len(ruleSet) \in Nat /\ Len(ruleSet) >= 1
           /\ DOMAIN ruleSet = 1 .. Len(ruleSet)
           /\ ReadsWithin \in Nat /\ LookTakes \in Nat
           /\ \A i \in DOMAIN ruleSet :
                /\ ruleSet[i].cooldown \in Nat /\ ruleSet[i].maxRuns \in Nat
                /\ ruleSet[i].cooldown > ReadsWithin + LookTakes
<1>. DEFINE Rule == [paths : SUBSET Seq(STRING), patterns : SUBSET Seq(STRING),
                     cooldown : Nat, maxRuns : Nat]
<1>1. ruleSet \in Seq(Rule) /\ ruleSet # << >>
  BY WatchAssumption
<1>2. \A i \in DOMAIN ruleSet : ruleSet[i].cooldown > ReadsWithin + LookTakes
  BY WatchAssumption
<1>3. ReadsWithin \in Nat /\ LookTakes \in Nat
  BY WatchAssumption
<1>4. \A i \in DOMAIN ruleSet : ruleSet[i] \in Rule
  BY <1>1, ElementOfSeq, LenProperties
<1>5. \A r \in Rule : r.cooldown \in Nat /\ r.maxRuns \in Nat
  OBVIOUS
<1>. HIDE DEF Rule
<1>6. Len(ruleSet) \in Nat /\ DOMAIN ruleSet = 1 .. Len(ruleSet) /\ Len(ruleSet) # 0
  BY <1>1, LenProperties, EmptySeq
<1>. QED
  BY <1>2, <1>3, <1>4, <1>5, <1>6

\* A look is at something that was asked, with one of the rules.
LEMMA LookIsTyped ==
    ASSUME WatchTypeOK, Looking
    PROVE  /\ watch \in [at : Nat, seen : DOMAIN asked, rule : DOMAIN ruleSet]
           /\ watch.at \in Nat /\ watch.seen \in DOMAIN asked /\ watch.rule \in DOMAIN ruleSet
BY DEF WatchTypeOK, Looking

LEMMA NotALook ==
    ASSUME WatchTypeOK, NEW w \in [at : Nat, seen : DOMAIN asked, rule : DOMAIN ruleSet]
    PROVE  w # NotLooking
<1>1. NotLooking.seen = 0
  BY DEF NotLooking
<1>2. w.seen \in DOMAIN asked
  OBVIOUS
<1>3. DOMAIN asked = 1 .. Len(asked)
  BY LenProperties DEF WatchTypeOK
<1>. QED
  BY <1>1, <1>2, <1>3

\* What is asked last, while it is unanswered, is one of the questions.
LEMMA LastIsAQuestion ==
    ASSUME WatchTypeOK
    PROVE  /\ Len(asked) \in Nat /\ DOMAIN asked = 1 .. Len(asked)
           /\ \A n \in DOMAIN asked : Asks(n) \in Questions
           /\ unanswered => Len(asked) \in DOMAIN asked
<1>1. asked \in Seq(Questions)
  BY DEF WatchTypeOK
<1>2. Len(asked) \in Nat /\ DOMAIN asked = 1 .. Len(asked)
  BY <1>1, LenProperties
<1>3. \A n \in DOMAIN asked : Asks(n) \in Questions
  BY <1>1, <1>2, ElementOfSeq DEF Asks
<1>4. asked # << >> => Len(asked) # 0
  BY <1>1, EmptySeq
<1>. QED
  BY <1>2, <1>3, <1>4 DEF WatchTypeOK

\* What a rule has accepted can be counted.
LEMMA AcceptedIsFinite ==
    ASSUME WatchTypeOK, NEW i
    PROVE  IsFiniteSet(AcceptedBy(i)) /\ Cardinality(AcceptedBy(i)) \in Nat
<1>1. Len(asked) \in Nat /\ DOMAIN asked = 1 .. Len(asked)
  BY LastIsAQuestion
<1>2. IsFiniteSet(1 .. Len(asked))
  BY <1>1, FS_Interval
<1>3. AcceptedBy(i) \subseteq 1 .. Len(asked)
  BY <1>1 DEF AcceptedBy, WatchTypeOK
<1>. QED
  BY <1>2, <1>3, FS_Subset, FS_CardinalityType

-----------------------------------------------------------------------------
\* What holds at the start.
LEMMA WatchStarts == WatchInit => WatchInv
<1>. SUFFICES ASSUME WatchInit PROVE WatchInv
  OBVIOUS
<1>. USE DEF WatchInit
<1>1. WatchTypeOK
  <2>1. asked \in Seq(Questions) /\ keys \in Seq(Nat)
    BY EmptySeq
  <2>2. runs \in [DOMAIN ruleSet -> Nat]
    OBVIOUS
  <2>3. lastAccepted \in [DOMAIN ruleSet -> SUBSET [question : Questions, at : Nat]]
    OBVIOUS
  <2>. QED
    BY <2>1, <2>2, <2>3 DEF WatchTypeOK
<1>2. InTime
  BY DEF InTime, Looking
<1>3. OneKey
  BY EmptySeq DEF OneKey
<1>4. LookIsCurrent
  BY DEF LookIsCurrent, Looking
<1>5. AcceptedOnce
  BY DEF AcceptedOnce
<1>6. RunsCount
  <2>1. SUFFICES ASSUME NEW i \in DOMAIN ruleSet
                 PROVE  /\ Cardinality(AcceptedBy(i)) + ToCome(i) <= runs[i]
                        /\ ruleSet[i].maxRuns # 0 => runs[i] <= ruleSet[i].maxRuns
    BY DEF RunsCount
  <2>2. AcceptedBy(i) = {}
    BY DEF AcceptedBy
  <2>3. Cardinality(AcceptedBy(i)) = 0
    BY <2>2, FS_EmptySet
  <2>4. ToCome(i) = 0
    BY DEF ToCome
  <2>5. runs[i] = 0
    OBVIOUS
  <2>6. ruleSet[i].maxRuns \in Nat
    BY RulesInForce
  <2>. QED
    BY <2>3, <2>4, <2>5, <2>6
<1>. QED
  BY <1>1, <1>2, <1>3, <1>4, <1>5, <1>6 DEF WatchInv

-----------------------------------------------------------------------------
\* An append leaves what was asked before in its place.
LEMMA AskedBefore ==
    ASSUME WatchTypeOK, NEW q \in Questions, asked' = Append(asked, q)
    PROVE  /\ asked' \in Seq(Questions) /\ Len(asked') = Len(asked) + 1
           /\ DOMAIN asked \subseteq DOMAIN asked' /\ asked' # << >>
           /\ \A n \in DOMAIN asked : Asks(n)' = Asks(n)
<1>1. asked \in Seq(Questions)
  BY DEF WatchTypeOK
<1>2. /\ Append(asked, q) \in Seq(Questions) /\ Append(asked, q) # << >>
      /\ Len(Append(asked, q)) = Len(asked) + 1
      /\ \A n \in 1 .. Len(asked) : Append(asked, q)[n] = asked[n]
  BY <1>1, AppendProperties
<1>3. Len(asked) \in Nat /\ DOMAIN asked = 1 .. Len(asked)
  BY <1>1, LenProperties
<1>4. DOMAIN asked' = 1 .. Len(asked) + 1
  BY <1>2, LenProperties
<1>. QED
  BY <1>2, <1>3, <1>4 DEF Asks

LEMMA AskKeeps ==
    ASSUME WatchInv, NEW q \in Questions, Ask(q)
    PROVE  WatchInv'
<1>1. WatchTypeOK /\ InTime
  BY DEF WatchInv
<1>2. /\ ~unanswered /\ unanswered' = TRUE /\ asked' = Append(asked, q)
      /\ UNCHANGED <<ruleSet, keys, watch, lastAccepted, runs, accepted, hands, watchTime>>
  BY DEF Ask
<1>3. /\ asked' \in Seq(Questions) /\ Len(asked') = Len(asked) + 1 /\ asked' # << >>
      /\ DOMAIN asked \subseteq DOMAIN asked'
      /\ \A n \in DOMAIN asked : Asks(n)' = Asks(n)
  BY <1>1, <1>2, AskedBefore
<1>4. Len(asked) \in Nat /\ DOMAIN asked = 1 .. Len(asked)
  BY <1>1, LastIsAQuestion
<1>5. WatchTypeOK'
  <2>1. watch' \in {NotLooking} \cup [at : Nat, seen : DOMAIN asked', rule : DOMAIN ruleSet']
    BY <1>1, <1>2, <1>3 DEF WatchTypeOK
  <2>2. accepted' \subseteq DOMAIN asked'
    BY <1>1, <1>2, <1>3 DEF WatchTypeOK
  <2>. QED
    BY <1>1, <1>2, <1>3, <2>1, <2>2 DEF WatchTypeOK
<1>6. InTime'
  BY <1>1, <1>2 DEF InTime, Looking
<1>7. ASSUME Unaided' PROVE (OneKey /\ LookIsCurrent /\ AcceptedOnce /\ RunsCount)'
  <2>1. OneKey /\ LookIsCurrent /\ AcceptedOnce /\ RunsCount
    BY <1>2, <1>7 DEF WatchInv, Unaided, Apart
  <2>2. keys = << >>
    BY <1>2, <2>1 DEF OneKey
  <2>3. OneKey'
    BY <1>2, <2>1, <2>2 DEF OneKey
  <2>4. LookIsCurrent'
    <3>1. SUFFICES ASSUME Looking' PROVE RestIsDone'
      BY DEF LookIsCurrent
    <3>2. Looking /\ RestIsDone
      BY <1>2, <2>1, <3>1 DEF LookIsCurrent, Looking, NothingSeen
    <3>3. Asks(watch.seen)' = Asks(watch.seen)
      BY <1>1, <1>2, <1>3, <3>2, LookIsTyped DEF Asks
    <3>. QED
      BY <1>2, <3>2, <3>3 DEF RestIsDone, RanRecently, Accepts
  <2>5. accepted' = accepted /\ accepted \subseteq DOMAIN asked
    BY <1>1, <1>2 DEF WatchTypeOK
  <2>6. AcceptedOnce'
    BY <1>2, <1>3, <1>4, <2>1, <2>5 DEF AcceptedOnce
  <2>7. RunsCount'
    <3>1. SUFFICES ASSUME NEW i \in DOMAIN ruleSet
                   PROVE  /\ Cardinality(AcceptedBy(i)') + ToCome(i)' <= runs[i]
                          /\ ruleSet[i].maxRuns # 0 => runs[i] <= ruleSet[i].maxRuns
      BY <1>2 DEF RunsCount
    <3>2. AcceptedBy(i)' = AcceptedBy(i)
      BY <1>2, <1>3, <2>5 DEF AcceptedBy
    <3>3. ToCome(i)' = 0 /\ ToCome(i) = 0
      BY <1>2, <2>2 DEF ToCome
    <3>. QED
      BY <2>1, <3>2, <3>3 DEF RunsCount
  <2>. QED
    BY <2>3, <2>4, <2>6, <2>7
<1>. QED
  BY <1>5, <1>6, <1>7 DEF WatchInv

\* A key is read.
LEMMA ReadKeyKeeps ==
    ASSUME WatchInv, ReadKey
    PROVE  WatchInv'
<1>1. WatchTypeOK /\ InTime
  BY DEF WatchInv
<1>2. /\ keys # << >> /\ keys' = Tail(keys) /\ unanswered' = FALSE
      /\ UNCHANGED <<ruleSet, asked, watch, lastAccepted, runs, hands, watchTime>>
  BY DEF ReadKey
<1>3. /\ (accepted' = accepted \cup {Len(asked)} /\ unanswered) \/ accepted' = accepted
      /\ unanswered /\ Asks(Len(asked)).selected = "yes" => accepted' = accepted \cup {Len(asked)}
  BY DEF ReadKey
<1>4. /\ Len(asked) \in Nat /\ DOMAIN asked = 1 .. Len(asked)
      /\ unanswered => Len(asked) \in DOMAIN asked
  BY <1>1, LastIsAQuestion
<1>5. /\ keys \in Seq(Nat) /\ keys' \in Seq(Nat) /\ Len(keys') = Len(keys) - 1
      /\ Len(keys) \in Nat /\ \A i \in 1 .. Len(keys') : keys'[i] = keys[i + 1]
  BY <1>1, <1>2, HeadTailProperties, LenProperties DEF WatchTypeOK
<1>6. WatchTypeOK'
  BY <1>1, <1>2, <1>3, <1>4, <1>5 DEF WatchTypeOK
<1>7. InTime'
  BY <1>1, <1>2, <1>5, LenProperties DEF InTime, Looking
<1>8. ASSUME Unaided' PROVE (OneKey /\ LookIsCurrent /\ AcceptedOnce /\ RunsCount)'
  <2>1. OneKey /\ LookIsCurrent /\ AcceptedOnce /\ RunsCount
    BY <1>2, <1>8 DEF WatchInv, Unaided, Apart
  <2>2. Len(keys) = 1 /\ Len(keys') = 0 /\ keys' = << >>
    BY <1>2, <1>5, <2>1, EmptySeq DEF OneKey
  <2>3. unanswered /\ \E i \in DOMAIN ruleSet : Allows(ruleSet[i], LastAsked)
    BY <1>2, <2>1 DEF OneKey, PressedBy
  <2>4. accepted' = accepted \cup {Len(asked)} /\ Len(asked) \notin accepted
    BY <1>3, <2>1, <2>3 DEF Allows, LastAsked, AcceptedOnce
  <2>5. OneKey'
    BY <2>2 DEF OneKey
  <2>6. LookIsCurrent'
    <3>1. SUFFICES ASSUME Looking' PROVE RestIsDone'
      BY DEF LookIsCurrent
    <3>2. Looking /\ RestIsDone
      BY <1>2, <2>1, <3>1 DEF LookIsCurrent, Looking, NothingSeen
    <3>. QED
      BY <1>2, <3>2 DEF RestIsDone, RanRecently, Accepts, Asks
  <2>7. AcceptedOnce'
    BY <1>2, <2>1, <2>3, <2>4 DEF AcceptedOnce, LastAsked, Asks
  <2>8. RunsCount'
    <3>1. SUFFICES ASSUME NEW i \in DOMAIN ruleSet
                   PROVE  /\ Cardinality(AcceptedBy(i)') + ToCome(i)' <= runs[i]
                          /\ ruleSet[i].maxRuns # 0 => runs[i] <= ruleSet[i].maxRuns
      BY <1>2 DEF RunsCount
    <3>2. ToCome(i)' = 0
      BY <2>2 DEF ToCome
    <3>3. IsFiniteSet(AcceptedBy(i))
      BY <1>1, AcceptedIsFinite
    <3>4. CASE Allows(ruleSet[i], LastAsked)
      <4>1. AcceptedBy(i)' = AcceptedBy(i) \cup {Len(asked)}
        BY <1>2, <2>4, <3>4 DEF AcceptedBy, LastAsked, Asks
      <4>2. Len(asked) \notin AcceptedBy(i)
        BY <2>4 DEF AcceptedBy
      <4>3. Cardinality(AcceptedBy(i)') = Cardinality(AcceptedBy(i)) + 1
        BY <3>3, <4>1, <4>2, FS_AddElement
      <4>4. ToCome(i) = 1
        BY <1>2, <3>4 DEF ToCome
      <4>5. Cardinality(AcceptedBy(i)) \in Nat
        BY <3>3, FS_CardinalityType
      <4>. QED
        BY <2>1, <3>2, <4>3, <4>4, <4>5 DEF RunsCount
    <3>5. CASE ~Allows(ruleSet[i], LastAsked)
      <4>1. AcceptedBy(i)' = AcceptedBy(i)
        BY <1>2, <2>4, <3>5 DEF AcceptedBy, LastAsked, Asks
      <4>2. ToCome(i) = 0
        BY <3>5 DEF ToCome
      <4>. QED
        BY <2>1, <3>2, <4>1, <4>2 DEF RunsCount
    <3>. QED
      BY <3>4, <3>5
  <2>. QED
    BY <2>5, <2>6, <2>7, <2>8
<1>. QED
  BY <1>6, <1>7, <1>8 DEF WatchInv

\* The steps of a human, who ends the guarantee, and of the clock.
LEMMA HandKeeps ==
    ASSUME WatchInv, AnswerByHand
    PROVE  WatchInv'
<1>1. WatchTypeOK /\ InTime
  BY DEF WatchInv
<1>2. /\ hands' = hands + 1 /\ unanswered' = FALSE
      /\ UNCHANGED <<ruleSet, asked, keys, watch, lastAccepted, runs, accepted, watchTime>>
  BY DEF AnswerByHand
<1>3. WatchTypeOK'
  <2>1. hands' \in Nat
    BY <1>1, <1>2 DEF WatchTypeOK
  <2>2. unanswered' \in BOOLEAN /\ (unanswered' => asked' # << >>)
    BY <1>2
  <2>. QED
    BY <1>1, <1>2, <2>1, <2>2 DEF WatchTypeOK
<1>4. InTime'
  BY <1>1, <1>2 DEF InTime, Looking
<1>5. ~Unaided'
  BY <1>1, <1>2 DEF Unaided, WatchTypeOK
<1>. QED
  BY <1>3, <1>4, <1>5 DEF WatchInv

LEMMA TimeKeeps ==
    ASSUME WatchInv, WatchTimePasses
    PROVE  WatchInv'
<1>1. WatchTypeOK /\ InTime
  BY DEF WatchInv
<1>2. /\ \A i \in DOMAIN keys : watchTime - keys[i] < ReadsWithin
      /\ Looking => watchTime - watch.at < LookTakes
      /\ watchTime' = watchTime + 1
      /\ UNCHANGED <<ruleSet, asked, unanswered, keys, watch, lastAccepted, runs, accepted, hands>>
  BY DEF WatchTimePasses, Looking
<1>3. WatchTypeOK'
  BY <1>1, <1>2 DEF WatchTypeOK
<1>4. InTime'
  <2>1. ReadsWithin \in Nat /\ LookTakes \in Nat /\ watchTime \in Nat
    BY <1>1, RulesInForce DEF WatchTypeOK
  <2>2. \A i \in DOMAIN keys : keys[i] \in Nat
    BY <1>1, ElementOfSeq, LenProperties DEF WatchTypeOK
  <2>3. Looking => watch.at \in Nat
    BY <1>1, LookIsTyped
  <2>. QED
    BY <1>1, <1>2, <2>1, <2>2, <2>3 DEF InTime, Looking
<1>5. ASSUME Unaided' PROVE (OneKey /\ LookIsCurrent /\ AcceptedOnce /\ RunsCount)'
  <2>1. OneKey /\ LookIsCurrent /\ AcceptedOnce /\ RunsCount
    BY <1>2, <1>5 DEF WatchInv, Unaided, Apart
  <2>2. OneKey'
    BY <1>2, <2>1 DEF OneKey, PressedBy, LastAsked, Asks
  <2>3. LookIsCurrent'
    BY <1>2, <2>1 DEF LookIsCurrent, Looking, NothingSeen, RestIsDone, RanRecently, Accepts, Asks
  <2>4. AcceptedOnce'
    BY <1>2, <2>1 DEF AcceptedOnce, Asks
  <2>5. RunsCount'
    BY <1>2, <2>1 DEF RunsCount, AcceptedBy, ToCome, LastAsked, Asks
  <2>. QED
    BY <2>2, <2>3, <2>4, <2>5
<1>. QED
  BY <1>3, <1>4, <1>5 DEF WatchInv

\* The watcher looks.  When the question on the screen has its key already, the
\* rule that pressed it did so too recently to press again, and no other allows it.
LEMMA LookKeeps ==
    ASSUME WatchInv, LookForQuestion
    PROVE  WatchInv'
<1>1. WatchTypeOK /\ InTime
  BY DEF WatchInv
<1>2. /\ watch = NotLooking
      /\ watch' = IF unanswered THEN [at |-> watchTime, seen |-> Len(asked), rule |-> 1]
                  ELSE watch
      /\ UNCHANGED <<ruleSet, asked, unanswered, keys, lastAccepted, runs, accepted, hands,
                     watchTime>>
  BY DEF LookForQuestion
<1>3. /\ Len(ruleSet) \in Nat /\ Len(ruleSet) >= 1 /\ DOMAIN ruleSet = 1 .. Len(ruleSet)
      /\ ReadsWithin \in Nat /\ LookTakes \in Nat /\ watchTime \in Nat
      /\ \A i \in DOMAIN ruleSet : /\ ruleSet[i].cooldown \in Nat
                                   /\ ruleSet[i].cooldown > ReadsWithin + LookTakes
  BY <1>1, RulesInForce DEF WatchTypeOK
<1>4. ASSUME unanswered
      PROVE  [at |-> watchTime, seen |-> Len(asked), rule |-> 1]
                 \in [at : Nat, seen : DOMAIN asked, rule : DOMAIN ruleSet]
  BY <1>1, <1>3, <1>4, LastIsAQuestion
<1>5. WatchTypeOK'
  BY <1>1, <1>2, <1>4 DEF WatchTypeOK
<1>6. InTime'
  BY <1>1, <1>2, <1>3 DEF InTime, Looking
<1>7. ASSUME Unaided' PROVE (OneKey /\ LookIsCurrent /\ AcceptedOnce /\ RunsCount)'
  <2>1. OneKey /\ LookIsCurrent /\ AcceptedOnce /\ RunsCount /\ Apart
    BY <1>2, <1>7 DEF WatchInv, Unaided, Apart
  <2>2. OneKey'
    BY <1>2, <2>1 DEF OneKey, PressedBy, LastAsked, Asks
  <2>3. LookIsCurrent'
    <3>1. SUFFICES ASSUME Looking', keys # << >> PROVE RestIsDone'
      BY <1>2 DEF LookIsCurrent, Looking, NothingSeen
    <3>2. /\ unanswered /\ watch'.at = watchTime /\ watch'.seen = Len(asked)
      BY <1>2, <3>1 DEF Looking
    <3>3. PICK i \in DOMAIN ruleSet : PressedBy(i)
      BY <2>1, <3>1 DEF OneKey
    <3>4. LastAsked \in Questions
      BY <1>1, <3>2, LastIsAQuestion DEF LastAsked
    <3>5. \A k \in DOMAIN ruleSet : Allows(ruleSet[k], LastAsked) => k = i
      BY <2>1, <3>3, <3>4 DEF Apart, PressedBy
    <3>6. PICK t \in lastAccepted[i] : t.question = LastAsked /\ keys[1] - t.at <= LookTakes
      BY <3>3 DEF PressedBy
    <3>7. t.at \in Nat
      BY <1>1 DEF WatchTypeOK
    <3>8. keys[1] \in Nat /\ watchTime - keys[1] <= ReadsWithin
      <4>1. 1 \in DOMAIN keys
        BY <1>1, <3>1, EmptySeq, LenProperties DEF WatchTypeOK
      <4>2. keys[1] \in Nat
        BY <1>1, <4>1, ElementOfSeq, LenProperties DEF WatchTypeOK
      <4>. QED
        BY <1>1, <4>1, <4>2 DEF InTime
    <3>9. watchTime - t.at < ruleSet[i].cooldown
      BY <1>3, <3>6, <3>7, <3>8, SMTT(60)
    <3>10. RanRecently(i)'
      BY <1>2, <3>2, <3>6, <3>9 DEF RanRecently, Accepts, LastAsked, Asks
    <3>. QED
      BY <1>2, <3>2, <3>5, <3>10 DEF RestIsDone, LastAsked, Asks
  <2>4. AcceptedOnce'
    BY <1>2, <2>1 DEF AcceptedOnce, Asks
  <2>5. RunsCount'
    BY <1>2, <2>1 DEF RunsCount, AcceptedBy, ToCome, LastAsked, Asks
  <2>. QED
    BY <2>2, <2>3, <2>4, <2>5
<1>. QED
  BY <1>5, <1>6, <1>7 DEF WatchInv

-----------------------------------------------------------------------------
\* A key is put behind those that wait.
LEMMA KeyPressed ==
    ASSUME WatchTypeOK, keys' = Append(keys, watchTime)
    PROVE  /\ keys' \in Seq(Nat) /\ keys' # << >>
           /\ Len(keys) \in Nat /\ Len(keys') = Len(keys) + 1
           /\ DOMAIN keys' = DOMAIN keys \cup {Len(keys) + 1}
           /\ \A i \in DOMAIN keys : keys'[i] = keys[i]
           /\ keys'[Len(keys) + 1] = watchTime
<1>1. keys \in Seq(Nat) /\ watchTime \in Nat
  BY DEF WatchTypeOK
<1>2. /\ keys' \in Seq(Nat) /\ keys' # << >> /\ Len(keys') = Len(keys) + 1
      /\ \A i \in 1 .. Len(keys) : keys'[i] = keys[i]
      /\ keys'[Len(keys) + 1] = watchTime
  BY <1>1, AppendProperties
<1>3. Len(keys) \in Nat /\ DOMAIN keys = 1 .. Len(keys) /\ DOMAIN keys' = 1 .. Len(keys')
  BY <1>1, <1>2, LenProperties
<1>. QED
  BY <1>2, <1>3

\* The watcher goes on to the next rule, or has gone through all of them.
LEMMA NextRule ==
    ASSUME WatchTypeOK, Looking, UNCHANGED <<ruleSet, asked>>,
           watch' = IF watch.rule = Len(ruleSet) THEN NotLooking
                    ELSE [watch EXCEPT !.rule = watch.rule + 1]
    PROVE  /\ watch' \in {NotLooking} \cup [at : Nat, seen : DOMAIN asked',
                                             rule : DOMAIN ruleSet']
           /\ Looking' => /\ watch'.at = watch.at /\ watch'.seen = watch.seen
                          /\ watch'.rule = watch.rule + 1
<1>1. /\ watch \in [at : Nat, seen : DOMAIN asked, rule : DOMAIN ruleSet]
      /\ watch.rule \in DOMAIN ruleSet
  BY LookIsTyped
<1>2. Len(ruleSet) \in Nat /\ DOMAIN ruleSet = 1 .. Len(ruleSet)
  BY RulesInForce DEF WatchTypeOK
<1>3. CASE watch.rule = Len(ruleSet)
  BY <1>3 DEF Looking
<1>4. CASE watch.rule # Len(ruleSet)
  <2>1. watch.rule + 1 \in DOMAIN ruleSet
    BY <1>1, <1>2, <1>4
  <2>2. [watch EXCEPT !.rule = watch.rule + 1]
            \in [at : Nat, seen : DOMAIN asked, rule : DOMAIN ruleSet]
    BY <1>1, <2>1
  <2>. QED
    BY <1>1, <1>4, <2>2
<1>. QED
  BY <1>3, <1>4

\* A rule that does not press: it does not allow the question, has answered it
\* already, or has run as often as it may.
LEMMA PassesKeeps ==
    ASSUME WatchInv, Looking,
           UNCHANGED <<ruleSet, asked, unanswered, keys, lastAccepted, runs, accepted, hands,
                       watchTime>>,
           watch' = IF watch.rule = Len(ruleSet) THEN NotLooking
                    ELSE [watch EXCEPT !.rule = watch.rule + 1]
    PROVE  WatchInv'
<1>1. WatchTypeOK /\ InTime
  BY DEF WatchInv
<1>2. /\ watch' \in {NotLooking} \cup [at : Nat, seen : DOMAIN asked', rule : DOMAIN ruleSet']
      /\ Looking' => /\ watch'.at = watch.at /\ watch'.seen = watch.seen
                     /\ watch'.rule = watch.rule + 1
  BY <1>1, NextRule
<1>3. WatchTypeOK'
  BY <1>1, <1>2 DEF WatchTypeOK
<1>4. InTime'
  BY <1>1, <1>2 DEF InTime
<1>5. ASSUME Unaided' PROVE (OneKey /\ LookIsCurrent /\ AcceptedOnce /\ RunsCount)'
  <2>1. OneKey /\ LookIsCurrent /\ AcceptedOnce /\ RunsCount
    BY <1>5 DEF WatchInv, Unaided, Apart
  <2>2. OneKey'
    BY <2>1 DEF OneKey, PressedBy, LastAsked, Asks
  <2>3. LookIsCurrent'
    <3>1. SUFFICES ASSUME Looking' PROVE (NothingSeen \/ RestIsDone)'
      BY DEF LookIsCurrent
    <3>2. CASE NothingSeen
      BY <1>2, <3>1, <3>2 DEF NothingSeen
    <3>3. CASE RestIsDone
      <4>1. watch.rule \in Nat /\ \A k \in DOMAIN ruleSet : k \in Nat
        BY <1>1, LookIsTyped, RulesInForce, SMTT(60) DEF WatchTypeOK
      <4>2. \A k \in DOMAIN ruleSet : RanRecently(k)' <=> RanRecently(k)
        BY <1>2, <3>1 DEF RanRecently, Accepts, Asks
      <4>. QED
        BY <1>2, <3>1, <3>3, <4>1, <4>2 DEF RestIsDone, Asks
    <3>. QED
      BY <2>1, <3>2, <3>3 DEF LookIsCurrent
  <2>4. AcceptedOnce'
    BY <2>1 DEF AcceptedOnce, Asks
  <2>5. RunsCount'
    BY <2>1 DEF RunsCount, AcceptedBy, ToCome, LastAsked, Asks
  <2>. QED
    BY <2>2, <2>3, <2>4, <2>5
<1>. QED
  BY <1>3, <1>4, <1>5 DEF WatchInv

\* A rule that presses: what the watcher saw is still there, without a key.
LEMMA PressesKeeps ==
    ASSUME WatchInv, Looking, NEW i \in DOMAIN ruleSet, watch.rule = i,
           ruleSet[i].maxRuns = 0 \/ runs[i] < ruleSet[i].maxRuns,
           Allows(ruleSet[i], Asks(watch.seen)), ~RanRecently(i),
           keys' = Append(keys, watchTime),
           lastAccepted' = [lastAccepted EXCEPT ![i] =
               (@ \ Accepts(i)) \cup {[question |-> Asks(watch.seen), at |-> watch.at]}],
           runs' = [runs EXCEPT ![i] = @ + 1],
           UNCHANGED <<ruleSet, asked, unanswered, accepted, hands, watchTime>>,
           watch' = IF watch.rule = Len(ruleSet) THEN NotLooking
                    ELSE [watch EXCEPT !.rule = watch.rule + 1]
    PROVE  WatchInv'
<1>. DEFINE record == [question |-> Asks(watch.seen), at |-> watch.at]
<1>1. WatchTypeOK /\ InTime
  BY DEF WatchInv
<1>2. /\ watch' \in {NotLooking} \cup [at : Nat, seen : DOMAIN asked', rule : DOMAIN ruleSet']
      /\ Looking' => /\ watch'.at = watch.at /\ watch'.seen = watch.seen
                     /\ watch'.rule = watch.rule + 1
  BY <1>1, NextRule
<1>3. /\ keys' \in Seq(Nat) /\ keys' # << >>
      /\ Len(keys) \in Nat /\ Len(keys') = Len(keys) + 1
      /\ DOMAIN keys' = DOMAIN keys \cup {Len(keys) + 1}
      /\ \A k \in DOMAIN keys : keys'[k] = keys[k]
      /\ keys'[Len(keys) + 1] = watchTime
  BY <1>1, KeyPressed
<1>4. watch.at \in Nat /\ watch.seen \in DOMAIN asked /\ Asks(watch.seen) \in Questions
  BY <1>1, LookIsTyped, LastIsAQuestion
<1>5. record \in [question : Questions, at : Nat]
  BY <1>4
<1>. HIDE DEF record
<1>6. WatchTypeOK'
  <2>1. lastAccepted' \in [DOMAIN ruleSet -> SUBSET [question : Questions, at : Nat]]
    BY <1>1, <1>5 DEF WatchTypeOK, record
  <2>2. runs' \in [DOMAIN ruleSet -> Nat]
    BY <1>1, SMTT(60) DEF WatchTypeOK
  <2>. QED
    BY <1>1, <1>2, <1>3, <2>1, <2>2 DEF WatchTypeOK
<1>7. ReadsWithin \in Nat /\ LookTakes \in Nat /\ watchTime \in Nat
  BY <1>1, RulesInForce DEF WatchTypeOK
<1>8. InTime'
  BY <1>1, <1>2, <1>3, <1>7 DEF InTime
<1>9. ASSUME Unaided' PROVE (OneKey /\ LookIsCurrent /\ AcceptedOnce /\ RunsCount)'
  <2>1. OneKey /\ LookIsCurrent /\ AcceptedOnce /\ RunsCount /\ Apart
    BY <1>9 DEF WatchInv, Unaided, Apart
  <2>2. watch.rule \in Nat /\ \A k \in DOMAIN ruleSet : k \in Nat
    BY <1>1, LookIsTyped, RulesInForce, SMTT(60) DEF WatchTypeOK
  <2>3. NothingSeen /\ Allows(ruleSet[i], LastAsked)
    BY <2>1, <2>2 DEF LookIsCurrent, RestIsDone, NothingSeen, LastAsked
  <2>4. \A k \in DOMAIN ruleSet : Allows(ruleSet[k], LastAsked) => k = i
    BY <1>4, <2>1, <2>3 DEF Apart, NothingSeen, LastAsked
  <2>5. Len(keys) = 0 /\ keys'[1] = watchTime
    BY <1>3, <2>3, EmptySeq DEF NothingSeen
  <2>6. OneKey'
    <3>1. record \in lastAccepted'[i]
      BY <1>1 DEF WatchTypeOK, record
    <3>2. record.question = LastAsked /\ keys'[1] - record.at <= LookTakes
      BY <1>1, <2>3, <2>5 DEF record, NothingSeen, LastAsked, InTime
    <3>. QED
      BY <1>3, <2>3, <2>5, <3>1, <3>2 DEF OneKey, PressedBy, NothingSeen, LastAsked, Asks
  <2>7. LookIsCurrent'
    <3>1. SUFFICES ASSUME Looking' PROVE RestIsDone'
      BY DEF LookIsCurrent
    <3>2. \A k \in DOMAIN ruleSet : k >= i + 1 => ~Allows(ruleSet[k], LastAsked)
      BY <2>2, <2>4
    <3>. QED
      BY <1>2, <2>3, <3>1, <3>2 DEF RestIsDone, NothingSeen, LastAsked, Asks
  <2>8. AcceptedOnce'
    BY <2>1 DEF AcceptedOnce, Asks
  <2>9. RunsCount'
    <3>1. SUFFICES ASSUME NEW k \in DOMAIN ruleSet
                   PROVE  /\ Cardinality(AcceptedBy(k)') + ToCome(k)' <= runs'[k]
                          /\ ruleSet[k].maxRuns # 0 => runs'[k] <= ruleSet[k].maxRuns
      BY DEF RunsCount
    <3>2. AcceptedBy(k)' = AcceptedBy(k) /\ ToCome(k) = 0
      BY <2>3 DEF AcceptedBy, Asks, ToCome, NothingSeen
    <3>3. /\ Cardinality(AcceptedBy(k)) + 0 <= runs[k]
          /\ ruleSet[k].maxRuns # 0 => runs[k] <= ruleSet[k].maxRuns
      BY <2>1, <3>2 DEF RunsCount
    <3>4. Cardinality(AcceptedBy(k)) \in Nat
      BY <1>1, AcceptedIsFinite
    <3>5. runs[k] \in Nat /\ ruleSet[k].maxRuns \in Nat
      BY <1>1, RulesInForce DEF WatchTypeOK
    <3>6. CASE k = i
      <4>1. runs'[k] = runs[k] + 1
        BY <1>1, <3>6 DEF WatchTypeOK
      <4>2. ToCome(k)' \in 0 .. 1
        BY DEF ToCome
      <4>. QED
        BY <3>2, <3>3, <3>4, <3>5, <3>6, <4>1, <4>2
    <3>7. CASE k # i
      <4>1. runs'[k] = runs[k]
        BY <1>1, <3>7 DEF WatchTypeOK
      <4>2. ToCome(k)' = 0
        BY <2>4, <3>7 DEF ToCome, LastAsked, Asks
      <4>. QED
        BY <3>2, <3>3, <4>1, <4>2
    <3>. QED
      BY <3>6, <3>7
  <2>. QED
    BY <2>6, <2>7, <2>8, <2>9
<1>. QED
  BY <1>6, <1>8, <1>9 DEF WatchInv

LEMMA RuleKeeps ==
    ASSUME WatchInv, MaybeRunRule
    PROVE  WatchInv'
<1>. DEFINE i == watch.rule
            presses == /\ ruleSet[i].maxRuns = 0 \/ runs[i] < ruleSet[i].maxRuns
                       /\ Allows(ruleSet[i], Asks(watch.seen)) /\ ~RanRecently(i)
<1>1. /\ Looking
      /\ watch' = IF i = Len(ruleSet) THEN NotLooking ELSE [watch EXCEPT !.rule = i + 1]
      /\ UNCHANGED <<ruleSet, asked, unanswered, accepted, hands, watchTime>>
      /\ IF presses
         THEN /\ keys' = Append(keys, watchTime)
              /\ lastAccepted' = [lastAccepted EXCEPT ![i] =
                     (@ \ Accepts(i)) \cup {[question |-> Asks(watch.seen), at |-> watch.at]}]
              /\ runs' = [runs EXCEPT ![i] = @ + 1]
         ELSE UNCHANGED <<keys, lastAccepted, runs>>
  BY DEF MaybeRunRule, Looking
<1>2. CASE presses
  <2>1. i \in DOMAIN ruleSet
    BY <1>1, LookIsTyped DEF WatchInv
  <2>. QED
    BY <1>1, <1>2, <2>1, PressesKeeps
<1>3. CASE ~presses
  BY <1>1, <1>3, PassesKeeps
<1>. QED
  BY <1>2, <1>3

-----------------------------------------------------------------------------
\* The invariant, for any rules, questions and times.
THEOREM WatchInvariant == WatchSpec => []WatchInv
<1>1. ASSUME WatchInv, [WatchNext]_watchVars PROVE WatchInv'
  <2>1. CASE \E q \in Questions : Ask(q)
    BY <1>1, <2>1, AskKeeps
  <2>2. CASE ReadKey
    BY <1>1, <2>2, ReadKeyKeeps
  <2>3. CASE AnswerByHand
    BY <1>1, <2>3, HandKeeps
  <2>4. CASE WatchTimePasses
    BY <1>1, <2>4, TimeKeeps
  <2>5. CASE LookForQuestion
    BY <1>1, <2>5, LookKeeps
  <2>6. CASE MaybeRunRule
    BY <1>1, <2>6, RuleKeeps
  <2>7. CASE UNCHANGED watchVars
    BY <1>1, <2>7, ZenonT(60)
       DEF watchVars, WatchInv, WatchTypeOK, InTime, Unaided, Apart, OneKey, PressedBy, Looking,
           LookIsCurrent, NothingSeen, RestIsDone, RanRecently, Accepts, AcceptedOnce,
           RunsCount, AcceptedBy, ToCome, LastAsked, Asks
  <2>. QED
    BY <1>1, <2>1, <2>2, <2>3, <2>4, <2>5, <2>6, <2>7 DEF WatchNext
<1>. QED
  BY <1>1, WatchStarts, PTL DEF WatchSpec

\* While nobody else answers and no two rules allow the same question, the
\* watcher accepts only what a rule allows, and no rule more than it may
\* (watch/runner.go:85-168): the key it pressed is read by the question it was
\* pressed for, and only one is.
THEOREM AcceptsAsAllowed == WatchSpec => []AcceptedIsAllowed
<1>1. WatchInv => AcceptedIsAllowed
  <2>1. SUFFICES ASSUME WatchInv, hands = 0, Apart
                 PROVE  /\ \A n \in accepted : \E i \in DOMAIN ruleSet : Allows(ruleSet[i], Asks(n))
                        /\ \A i \in DOMAIN ruleSet : ruleSet[i].maxRuns # 0 =>
                            Cardinality(AcceptedBy(i)) <= ruleSet[i].maxRuns
    BY DEF AcceptedIsAllowed, AcceptedBy
  <2>2. AcceptedOnce /\ RunsCount /\ WatchTypeOK
    BY <2>1 DEF WatchInv, Unaided
  <2>3. ASSUME NEW i \in DOMAIN ruleSet, ruleSet[i].maxRuns # 0
        PROVE  Cardinality(AcceptedBy(i)) <= ruleSet[i].maxRuns
    <3>1. Cardinality(AcceptedBy(i)) \in Nat
      BY <2>2, AcceptedIsFinite
    <3>2. ToCome(i) \in 0 .. 1
      BY DEF ToCome
    <3>3. runs[i] \in Nat /\ ruleSet[i].maxRuns \in Nat
      BY <2>2, RulesInForce DEF WatchTypeOK
    <3>. QED
      BY <2>2, <2>3, <3>1, <3>2, <3>3 DEF RunsCount
  <2>. QED
    BY <2>2, <2>3 DEF AcceptedOnce
<1>. QED
  BY <1>1, WatchInvariant, PTL

(***************************************************************************)
(* PaneRuntime: an agent that is reported ran below the shell not long     *)
(* ago.  The invariant says of everything the search holds, the table, the *)
(* level it is at and what it has listed, that what is in it was below the *)
(* shell at some time since the search began.  Pids are used again, so a   *)
(* level may hold processes that are elsewhere by now; but who is a child  *)
(* of one of those either was below the shell when the level was listed,   *)
(* or has been started there since.                                        *)
(***************************************************************************)
Tree == Pids \cup {Shell}
Tables == [Pids -> Tree \cup {NoProcess, Orphaned}]
AgentKinds == {KindOf[p] : p \in Pids} \ {"unknown"}
Found == AgentKinds \cup {"unknown"}
Scans == [on : BOOLEAN, began : Nat, command : Tree, read : {"no", "yes", "failed"},
          table : Tables]
Walks == [on : BOOLEAN, level : [0 .. MaxDepth -> SUBSET Tree], depth : 0 .. MaxDepth,
          listed : SUBSET Pids, found : Nat, began : Nat]
RuntimeTypeOK ==
    /\ parent \in Tables /\ foreground \in Tree /\ time \in Nat
    /\ scan \in Scans
    /\ walk \in Walks /\ (walk.listed # {} => walk.on /\ walk.depth < MaxDepth)
    /\ remembered \in [command : Tree, kind : Found, expires : Nat]
    /\ answered \in [kind : Found, age : Int]
    /\ ranAt \in [AgentKinds -> Int]

\* Agents of this kind were below the shell at that time or later; the processes
\* of which that is so.
RanSince(kind, t) == kind # "unknown" => ranAt[kind] >= t
Since(t) == {p \in Pids : RanSince(KindOf[p], t)} \cup {Shell}

ParentsLive == \A p \in Pids : parent[p] \in Pids => Lives(parent[p])
BelowIsNow == AllBelow(parent) \subseteq Since(time)
ScanIsOfNow ==
    scan.on => /\ scan.began =< time /\ time =< scan.began + ScanTakes
               /\ scan.read = "yes" => AllBelow(scan.table) \subseteq Since(scan.began)
WalkIsOfNow ==
    walk.on =>
        /\ scan.on /\ scan.began =< walk.began /\ walk.began =< time
        /\ \A d \in 0 .. walk.depth : walk.level[d] \subseteq Since(walk.began)
        /\ \E S \in SUBSET Since(walk.began) :
              /\ Children(parent, S) \subseteq S
              /\ walk.level[walk.depth] \subseteq S /\ walk.listed \subseteq S
RanBefore == \A k \in AgentKinds : ranAt[k] =< time
EntryIsTrue ==
    /\ RanSince(remembered.kind, 0)
    /\ RanSince(remembered.kind, remembered.expires - Ttl - ScanTakes)
RuntimeInv ==
    /\ RuntimeTypeOK /\ RanBefore /\ ParentsLive /\ BelowIsNow
    /\ ScanIsOfNow /\ WalkIsOfNow /\ EntryIsTrue /\ ReportedAgentRan

-----------------------------------------------------------------------------
(* Levels and the agents in them *)

LevelsUpTo(table, enough, level, n) ==
    level = [d \in 0 .. n |->
        IF d = 0 THEN {Shell}
        ELSE IF Cardinality(UNION {level[k] : k \in 0 .. d - 1}) >= enough THEN {}
        ELSE Children(table, level[d - 1])]

\* The recursive function exists: else there were a first level where it fails.
LEMMA LevelsExist ==
    ASSUME NEW table, NEW enough, NEW n \in Nat
    PROVE  \E level : LevelsUpTo(table, enough, level, n)
<1>. DEFINE Bad == {k \in Nat : ~\E level : LevelsUpTo(table, enough, level, k)}
<1>1. ASSUME Bad # {} PROVE FALSE
  <2>. DEFINE k == Min(Bad)
  <2>1. k \in Bad /\ \A j \in Bad : k =< j
    <3>1. Bad \subseteq Nat
      OBVIOUS
    <3>. HIDE DEF Bad
    <3>. QED
      BY <1>1, <3>1, MinIn
  <2>. HIDE DEF k
  <2>2. CASE k = 0
    <3>. DEFINE level == [d \in 0 .. 0 |-> {Shell}]
                step(d) == IF d = 0 THEN {Shell}
                           ELSE IF Cardinality(UNION {level[j] : j \in 0 .. d - 1}) >= enough
                                THEN {}
                           ELSE Children(table, level[d - 1])
    <3>1. \A d \in 0 .. 0 : d = 0
      OBVIOUS
    <3>2. level = [d \in 0 .. 0 |-> step(d)]
      BY <3>1
    <3>3. LevelsUpTo(table, enough, level, 0)
      BY <3>2 DEF LevelsUpTo
    <3>. QED
      BY <2>1, <2>2, <3>3
  <2>3. CASE k # 0
    <3>1. k \in Nat /\ k - 1 \in Nat /\ k - 1 \notin Bad
      BY <2>1, <2>3
    <3>2. PICK before : LevelsUpTo(table, enough, before, k - 1)
      BY <3>1
    <3>. DEFINE next == IF Cardinality(UNION {before[j] : j \in 0 .. k - 1}) >= enough THEN {}
                        ELSE Children(table, before[k - 1])
                level == [d \in 0 .. k |-> IF d = k THEN next ELSE before[d]]
                past(f, d) == {f[j] : j \in 0 .. d - 1}
                step(f, d) == IF d = 0 THEN {Shell}
                              ELSE IF Cardinality(UNION past(f, d)) >= enough THEN {}
                              ELSE Children(table, f[d - 1])
    <3>3. \A d \in 0 .. k : past(level, d) = past(before, d)
      <4>1. TAKE d \in 0 .. k
      <4>2. \A j \in 0 .. d - 1 : level[j] = before[j]
        BY <3>1
      <4>. HIDE DEF level
      <4>. QED
        BY <4>2
    <3>4. \A d \in 0 .. k : level[d] = step(level, d)
      <4>1. TAKE d \in 0 .. k
      <4>2. d # 0 => level[d - 1] = before[d - 1]
        BY <3>1
      <4>3. step(level, d) = step(before, d)
        <5>. HIDE DEF level, past
        <5>. QED
          BY <3>3, <4>2
      <4>4. CASE d = k
        <5>1. level[d] = next /\ next = step(before, k)
          BY <2>3, <3>1, <4>4
        <5>. QED
          BY <4>3, <4>4, <5>1
      <4>5. CASE d # k
        <5>1. d \in 0 .. (k - 1)
          BY <3>1, <4>5
        <5>2. before[d] = step(before, d)
          BY <3>2, <5>1 DEF LevelsUpTo
        <5>3. level[d] = before[d]
          BY <4>5
        <5>. QED
          BY <4>3, <5>2, <5>3
      <4>. QED
        BY <4>4, <4>5
    <3>5. level = [d \in 0 .. k |-> step(level, d)]
      <4>1. level = [d \in 0 .. k |-> level[d]]
        OBVIOUS
      <4>. HIDE DEF level, step
      <4>. QED
        BY <3>4, <4>1
    <3>6. LevelsUpTo(table, enough, level, k)
      <4>. HIDE DEF level
      <4>. QED
        BY <3>5 DEF LevelsUpTo
    <3>. QED
      BY <2>1, <3>6
  <2>. QED
    BY <2>2, <2>3
<1>. QED
  BY <1>1

\* No level leaves a set that is closed under children.
LEMMA LevelsInside ==
    ASSUME NEW table \in Tables, NEW enough, NEW S, Closed(table, S)
    PROVE  \A d \in 0 .. MaxDepth : Levels(table, enough)[d] \subseteq S
<1>. DEFINE L == Levels(table, enough)
<1>1. LevelsUpTo(table, enough, L, MaxDepth)
  <2>1. L = CHOOSE level : LevelsUpTo(table, enough, level, MaxDepth)
    BY DEF Levels, LevelsUpTo
  <2>2. MaxDepth \in Nat
    BY RuntimeAssumption
  <2>. HIDE DEF L
  <2>. QED
    BY <2>1, <2>2, LevelsExist
<1>. HIDE DEF L
<1>2. MaxDepth \in Nat
  BY RuntimeAssumption
<1>3. /\ L[0] = {Shell}
      /\ \A d \in 1 .. MaxDepth : L[d] \in {{}, Children(table, L[d - 1])}
  <2>. DEFINE enoughAt(d) == Cardinality(UNION {L[k] : k \in 0 .. d - 1}) >= enough
  <2>1. L = [d \in 0 .. MaxDepth |-> IF d = 0 THEN {Shell}
                                     ELSE IF enoughAt(d) THEN {}
                                     ELSE Children(table, L[d - 1])]
    BY <1>1 DEF LevelsUpTo
  <2>. HIDE DEF enoughAt
  <2>2. \A d \in 0 .. MaxDepth : L[d] = IF d = 0 THEN {Shell}
                                        ELSE IF enoughAt(d) THEN {}
                                        ELSE Children(table, L[d - 1])
    BY <2>1
  <2>. QED
    BY <1>2, <2>2
<1>. DEFINE Bad == {d \in 0 .. MaxDepth : ~(L[d] \subseteq S)}
<1>4. ASSUME Bad # {} PROVE FALSE
  <2>. DEFINE k == Min(Bad)
  <2>1. k \in Bad /\ \A j \in Bad : k =< j
    <3>1. Bad \subseteq Nat
      BY <1>2
    <3>. HIDE DEF Bad
    <3>. QED
      BY <1>4, <3>1, MinIn
  <2>. HIDE DEF k
  <2>2. k # 0
    BY <1>3, <2>1 DEF Closed
  <2>3. k \in 1 .. MaxDepth /\ k - 1 \in 0 .. MaxDepth /\ k - 1 \notin Bad
    BY <1>2, <2>1, <2>2
  <2>4. L[k - 1] \subseteq S
    BY <2>3
  <2>5. L[k] \subseteq S
    BY <1>3, <2>3, <2>4 DEF Closed, Children
  <2>. QED
    BY <2>1, <2>5
<1>. QED
  BY <1>4 DEF L

\* All below the shell are in every closed set, and are one themselves.
LEMMA BelowFacts ==
    ASSUME NEW table \in Tables
    PROVE  /\ AllBelow(table) \subseteq Tree /\ Closed(table, AllBelow(table))
           /\ \A S \in SUBSET Tree : Closed(table, S) => AllBelow(table) \subseteq S
BY DEF AllBelow, Closed, Children, Tree

LEMMA KindsFound == \A p \in Pids : KindOf[p] \in Found
BY DEF Found, AgentKinds

\* The first agent, if there is one, is of some level.
LEMMA FirstAgentIn ==
    ASSUME NEW level, NEW depth \in 0 .. MaxDepth,
           \A d \in 0 .. depth : level[d] \subseteq Tree
    PROVE  /\ FirstAgent(level, depth) \in Found
           /\ FirstAgent(level, depth) # "unknown" =>
                  \E d \in 0 .. depth, p \in Pids :
                      p \in level[d] /\ FirstAgent(level, depth) = KindOf[p]
<1>. DEFINE agents(d) == {p \in level[d] \ {Shell} : KindOf[p] # "unknown"}
            at == {d \in 0 .. depth : agents(d) # {}}
<1>1. CASE at = {}
  <2>1. FirstAgent(level, depth) = "unknown"
    BY <1>1 DEF FirstAgent
  <2>. QED
    BY <2>1 DEF Found
<1>2. CASE at # {}
  <2>1. FirstAgent(level, depth) = KindOf[Min(agents(Min(at)))]
    BY <1>2 DEF FirstAgent
  <2>2. Min(at) \in at
    <3>1. at \subseteq Nat
      BY RuntimeAssumption
    <3>. HIDE DEF at
    <3>. QED
      BY <1>2, <3>1, MinIn
  <2>. DEFINE m == Min(at)
  <2>. HIDE DEF m
  <2>3. m \in 0 .. depth /\ agents(m) # {}
    BY <2>2 DEF m
  <2>4. agents(m) \subseteq Nat /\ agents(m) \subseteq Pids
    BY <2>3, RuntimeAssumption DEF Tree
  <2>. DEFINE p == Min(agents(m))
  <2>5. p \in agents(m)
    <3>. HIDE DEF agents
    <3>. QED
      BY <2>3, <2>4, MinIn
  <2>. HIDE DEF p
  <2>6. p \in Pids /\ p \in level[m] /\ FirstAgent(level, depth) = KindOf[p]
    BY <2>1, <2>4, <2>5 DEF p, m
  <2>. QED
    BY <2>3, <2>6, KindsFound
<1>. QED
  BY <1>1, <1>2

-----------------------------------------------------------------------------
(* Time and the processes *)

\* What ran since a time ran since an earlier one, and goes on having run.
LEMMA SinceEarlier ==
    ASSUME RuntimeTypeOK, NEW t \in Int, NEW u \in Int, u =< t
    PROVE  Since(t) \subseteq Since(u)
BY KindsFound DEF Since, RanSince, Found, RuntimeTypeOK

LEMMA RanGoesOn ==
    ASSUME RuntimeTypeOK, RuntimeTypeOK', \A k \in AgentKinds : ranAt'[k] >= ranAt[k],
           NEW t \in Int
    PROVE  /\ Since(t) \subseteq Since(t)'
           /\ \A k \in Found : RanSince(k, t) => RanSince(k, t)'
BY KindsFound DEF Since, RanSince, Found, RuntimeTypeOK

LEMMA AgentsRan ==
    ASSUME RuntimeTypeOK, NEW t \in Int, NEW depth \in 0 .. MaxDepth, NEW level,
           \A d \in 0 .. depth : level[d] \subseteq Since(t)
    PROVE  FirstAgent(level, depth) \in Found /\ RanSince(FirstAgent(level, depth), t)
<1>1. \A d \in 0 .. depth : level[d] \subseteq Tree
  BY DEF Since, Tree
<1>2. /\ FirstAgent(level, depth) \in Found
      /\ FirstAgent(level, depth) # "unknown" =>
             \E d \in 0 .. depth, p \in Pids :
                 p \in level[d] /\ FirstAgent(level, depth) = KindOf[p]
  BY <1>1, FirstAgentIn
<1>3. CASE FirstAgent(level, depth) # "unknown"
  <2>1. PICK d \in 0 .. depth, p \in Pids :
            p \in level[d] /\ FirstAgent(level, depth) = KindOf[p]
    BY <1>2, <1>3
  <2>2. p \in Since(t) /\ p # Shell
    BY <2>1, RuntimeAssumption DEF Shell
  <2>. QED
    BY <1>2, <2>1, <2>2 DEF Since
<1>. QED
  BY <1>2, <1>3 DEF RanSince

\* An answer that is given of a kind that ran since then is young enough.
LEMMA GivesTrue ==
    ASSUME RuntimeTypeOK, NEW kind \in Found, Gives(kind), NEW t \in Int,
           RanSince(kind, t), time - t =< Ttl + ScanTakes - 1, t >= 0
    PROVE  answered' \in [kind : Found, age : Int] /\ ReportedAgentRan'
<1>1. CASE kind = "unknown"
  BY <1>1 DEF Gives, NoRuntime, ReportedAgentRan, Found
<1>2. CASE kind # "unknown"
  <2>1. kind \in AgentKinds /\ ranAt[kind] \in Int /\ ranAt[kind] >= t
    BY <1>2 DEF Found, RanSince, RuntimeTypeOK
  <2>2. answered' = [kind |-> kind, age |-> time - ranAt[kind]]
    BY <1>2, <2>1 DEF Gives, Never
  <2>. QED
    BY <2>1, <2>2, RuntimeAssumption DEF RuntimeTypeOK, ReportedAgentRan
<1>. QED
  BY <1>1, <1>2

-----------------------------------------------------------------------------
(* The world *)

\* Who runs below the shell is counted as running when a process comes or goes,
\* and when time passes.
LEMMA RunsAreSeen ==
    ASSUME RuntimeTypeOK, RuntimeTypeOK', NEW table \in Tables, NEW t \in Nat,
           \A k \in AgentKinds : RunsBelow(table, k) => ranAt'[k] = t
    PROVE  AllBelow(table) \subseteq Since(t)'
<1>. SUFFICES ASSUME NEW p \in AllBelow(table)
              PROVE  p \in Since(t)'
  OBVIOUS
<1>2. p \in Tree
  BY BelowFacts
<1>3. CASE p # Shell /\ KindOf[p] # "unknown"
  <2>1. p \in Pids /\ KindOf[p] \in AgentKinds /\ RunsBelow(table, KindOf[p])
    BY <1>2, <1>3, KindsFound DEF Tree, Found, RunsBelow
  <2>. QED
    BY <2>1 DEF Since, RanSince, RuntimeTypeOK
<1>. QED
  BY <1>2, <1>3 DEF Since, RanSince, Tree

LEMMA ChangesKeep ==
    ASSUME RuntimeInv, NEW table \in Tables, NEW command \in Tree,
           Changes(table, command), ParentsLive',
           \A S \in SUBSET Tree : Children(parent, S) \subseteq S =>
               \E more \in SUBSET AllBelow(table) :
                   Children(table, S \cup more) \subseteq S \cup more
    PROVE  RuntimeInv'
<1>1. RuntimeTypeOK' /\ RanBefore'
  <2>1. ranAt' \in [AgentKinds -> Int]
    BY DEF RuntimeInv, RuntimeTypeOK, Changes
  <2>2. RuntimeTypeOK'
    BY <2>1 DEF RuntimeInv, RuntimeTypeOK, Changes
  <2>. QED
    BY <2>2 DEF RuntimeInv, RanBefore, Changes, RuntimeTypeOK
<1>2. \A k \in AgentKinds : ranAt'[k] >= ranAt[k]
  BY DEF RuntimeInv, RuntimeTypeOK, RanBefore, Changes
<1>3. AllBelow(table) \subseteq Since(time)'
  <2>1. \A k \in AgentKinds : RunsBelow(table, k) => ranAt'[k] = time
    BY DEF RuntimeInv, RuntimeTypeOK, Changes
  <2>2. AllBelow(table) \subseteq Since(time)'
    BY <1>1, <2>1, RunsAreSeen DEF RuntimeInv, RuntimeTypeOK, Changes
  <2>. QED
    BY <2>2
<1>4. \A t \in Int : Since(t) \subseteq Since(t)'
  BY <1>1, <1>2, RanGoesOn DEF RuntimeInv
<1>5. BelowIsNow'
  BY <1>3 DEF BelowIsNow, Changes, Since
<1>6. ScanIsOfNow'
  <2>1. scan.began \in Int
    BY DEF RuntimeInv, RuntimeTypeOK, Scans
  <2>. QED
    BY <1>4, <2>1 DEF RuntimeInv, ScanIsOfNow, Changes, Since
<1>7. WalkIsOfNow'
  <2>1. SUFFICES ASSUME walk.on
                 PROVE  WalkIsOfNow'
    BY DEF WalkIsOfNow, Changes
  <2>2. walk.began \in Int /\ walk.began =< time /\ time \in Nat
    BY <2>1 DEF RuntimeInv, RuntimeTypeOK, Walks, WalkIsOfNow
  <2>3. PICK S \in SUBSET Since(walk.began) :
            /\ Children(parent, S) \subseteq S
            /\ walk.level[walk.depth] \subseteq S /\ walk.listed \subseteq S
    BY <2>1 DEF RuntimeInv, WalkIsOfNow
  <2>4. S \in SUBSET Tree
    BY DEF Since, Tree
  <2>5. PICK more \in SUBSET AllBelow(table) :
            Children(table, S \cup more) \subseteq S \cup more
    BY <2>3, <2>4
  <2>6. AllBelow(table) \subseteq Since(walk.began)'
    <3>1. Since(time)' \subseteq Since(walk.began)'
      BY <1>1, <2>2, KindsFound DEF Since, RanSince, Found, RuntimeTypeOK, Changes
    <3>. QED
      BY <1>3, <3>1
  <2>7. Since(walk.began) \subseteq Since(walk.began)'
    BY <1>4, <2>2 DEF Changes, Since
  <2>8. S \cup more \in SUBSET Since(walk.began)'
    BY <2>5, <2>6, <2>7
  <2>9. /\ walk' = walk /\ scan' = scan /\ parent' = table /\ time' = time
    BY DEF Changes
  <2>10. /\ scan.on /\ scan.began =< walk.began /\ walk.began =< time
         /\ \A d \in 0 .. walk.depth : walk.level[d] \subseteq Since(walk.began)'
    BY <2>1, <2>7 DEF RuntimeInv, WalkIsOfNow
  <2>. QED
    BY <2>3, <2>5, <2>8, <2>9, <2>10 DEF WalkIsOfNow
<1>8. EntryIsTrue'
  <2>1. PICK k \in Found, t \in Int :
            k = remembered.kind /\ t = remembered.expires - Ttl - ScanTakes
    BY RuntimeAssumption DEF RuntimeInv, RuntimeTypeOK
  <2>2. RanSince(k, 0) /\ RanSince(k, t)
    BY <2>1 DEF RuntimeInv, EntryIsTrue
  <2>3. RanSince(k, 0)' /\ RanSince(k, t)'
    BY <1>1, <1>2, <2>2, RanGoesOn DEF RuntimeInv
  <2>. QED
    BY <2>1, <2>3 DEF EntryIsTrue, RanSince, Changes
<1>. QED
  BY <1>1, <1>5, <1>6, <1>7, <1>8 DEF RuntimeInv, ReportedAgentRan, Changes

LEMMA RunStartsKeeps == RuntimeInv /\ RunStarts => RuntimeInv'
<1>. SUFFICES ASSUME RuntimeInv,
                     NEW p \in Pids, NEW q \in Tree, ~Lives(p), q \in AllBelow(parent),
                     Changes([parent EXCEPT ![p] = q], IF q = Shell THEN p ELSE foreground)
              PROVE  RuntimeInv'
  BY DEF RunStarts, Tree
<1>. DEFINE table == [parent EXCEPT ![p] = q]
            command == IF q = Shell THEN p ELSE foreground
<1>1. /\ parent \in Tables /\ table \in Tables /\ command \in Tree
      /\ Shell \notin Pids /\ NoProcess \notin Tree /\ Orphaned \notin Tree
  BY RuntimeAssumption
  DEF RuntimeInv, RuntimeTypeOK, Tables, Tree, Shell, NoProcess, Orphaned
<1>2. /\ table[p] = q /\ parent[p] = NoProcess
      /\ \A x \in Pids : x # p => table[x] = parent[x]
  BY <1>1 DEF Tables, Lives
<1>3. q \in Pids => Lives(q)
  <2>. DEFINE S == {x \in Pids : Lives(x)} \cup {Shell}
  <2>1. Closed(parent, S) /\ S \in SUBSET Tree
    BY <1>1 DEF Closed, Children, Lives, Tree
  <2>2. q \in S
    BY <1>1, <2>1, BelowFacts
  <2>. QED
    BY <1>1, <2>2
<1>4. ParentsLive'
  BY <1>1, <1>2, <1>3 DEF RuntimeInv, ParentsLive, Lives, Changes, NoProcess, Tree
<1>5. p \in AllBelow(table)
  <2>1. \A S \in SUBSET Tree : Closed(table, S) => Closed(parent, S)
    BY <1>1, <1>2 DEF Closed, Children
  <2>2. Closed(parent, AllBelow(table)) /\ AllBelow(table) \in SUBSET Tree
    BY <1>1, <2>1, BelowFacts
  <2>3. q \in AllBelow(table)
    BY <1>1, <2>2, BelowFacts
  <2>. QED
    BY <1>1, <1>2, <2>3, BelowFacts DEF Closed, Children
<1>6. ASSUME NEW S \in SUBSET Tree, Children(parent, S) \subseteq S
      PROVE  Children(table, S \cup {p}) \subseteq S \cup {p}
  <2>1. \A x \in Pids : parent[x] # p
    BY DEF RuntimeInv, ParentsLive
  <2>. QED
    BY <1>2, <1>6, <2>1 DEF Children
<1>. HIDE DEF table, command
<1>7. Changes(table, command)
  BY DEF table, command
<1>8. {p} \in SUBSET AllBelow(table)
  BY <1>5
<1>. QED
  BY <1>1, <1>4, <1>6, <1>7, <1>8, ChangesKeep

LEMMA RunEndsKeeps == RuntimeInv /\ RunEnds => RuntimeInv'
<1>. SUFFICES ASSUME RuntimeInv, NEW p \in Pids, Lives(p),
                     Changes([q \in Pids |-> IF q = p THEN NoProcess
                                ELSE IF parent[q] = p THEN Orphaned ELSE parent[q]],
                             IF foreground = p THEN Shell ELSE foreground)
              PROVE  RuntimeInv'
  BY DEF RunEnds
<1>. DEFINE table == [q \in Pids |-> IF q = p THEN NoProcess
                        ELSE IF parent[q] = p THEN Orphaned ELSE parent[q]]
            command == IF foreground = p THEN Shell ELSE foreground
<1>1. /\ parent \in Tables /\ table \in Tables /\ command \in Tree
      /\ NoProcess \notin Tree /\ Orphaned \notin Tree
  BY RuntimeAssumption
  DEF RuntimeInv, RuntimeTypeOK, Tables, Tree, Shell, NoProcess, Orphaned
<1>2. ASSUME NEW x \in Pids, table[x] \in Tree
      PROVE  table[x] = parent[x] /\ x # p /\ parent[x] # p
  BY <1>1, <1>2
<1>3. \A x \in Pids : x # p /\ Lives(x) => table[x] # NoProcess
  BY DEF Lives, NoProcess, Orphaned
<1>. HIDE DEF table, command
<1>4. Changes(table, command)
  BY DEF table, command
<1>5. ParentsLive'
  <2>1. \A x \in Pids : table[x] \in Pids => table[table[x]] # NoProcess
    BY <1>2, <1>3 DEF RuntimeInv, ParentsLive, Tree
  <2>. QED
    BY <1>4, <2>1 DEF ParentsLive, Lives, Changes
<1>6. ASSUME NEW S \in SUBSET Tree, Children(parent, S) \subseteq S
      PROVE  Children(table, S \cup {}) \subseteq S \cup {}
  BY <1>2, <1>6 DEF Children
<1>7. {} \in SUBSET AllBelow(table)
  OBVIOUS
<1>. QED
  BY <1>1, <1>4, <1>5, <1>6, <1>7, ChangesKeep

LEMMA RuntimePasses == RuntimeInv /\ Passes => RuntimeInv'
<1>. SUFFICES ASSUME RuntimeInv, Passes PROVE RuntimeInv'
  OBVIOUS
<1>1. RuntimeTypeOK' /\ RanBefore'
  <2>1. ranAt' \in [AgentKinds -> Int]
    BY DEF RuntimeInv, RuntimeTypeOK, Passes
  <2>2. RuntimeTypeOK'
    BY <2>1 DEF RuntimeInv, RuntimeTypeOK, Passes
  <2>. QED
    BY <2>2 DEF RuntimeInv, RanBefore, Passes, RuntimeTypeOK
<1>2. \A k \in AgentKinds : ranAt'[k] >= ranAt[k]
  BY DEF RuntimeInv, RuntimeTypeOK, RanBefore, Passes
<1>3. AllBelow(parent) \subseteq Since(time)'
  <2>1. PICK t \in Nat : t = time + 1
    BY DEF RuntimeInv, RuntimeTypeOK
  <2>2. \A k \in AgentKinds : RunsBelow(parent, k) => ranAt'[k] = t
    BY <2>1 DEF RuntimeInv, RuntimeTypeOK, Passes
  <2>3. AllBelow(parent) \subseteq Since(t)'
    BY <1>1, <2>2, RunsAreSeen DEF RuntimeInv, RuntimeTypeOK
  <2>. QED
    BY <2>1, <2>3 DEF Passes, Since, RanSince
<1>4. \A t \in Int : Since(t) \subseteq Since(t)'
  BY <1>1, <1>2, RanGoesOn DEF RuntimeInv
<1>5. BelowIsNow'
  BY <1>3 DEF BelowIsNow, Passes, Since
<1>6. ScanIsOfNow'
  <2>1. /\ scan.began \in Nat /\ time \in Nat /\ time' = time + 1 /\ scan' = scan
        /\ scan.on => time < scan.began + ScanTakes
    BY DEF RuntimeInv, RuntimeTypeOK, Scans, Passes, ScanMayGoOn
  <2>. QED
    BY <1>4, <2>1, RuntimeAssumption DEF RuntimeInv, ScanIsOfNow, Passes, Since
<1>7. WalkIsOfNow'
  <2>1. SUFFICES ASSUME walk.on
                 PROVE  WalkIsOfNow'
    BY DEF WalkIsOfNow, Passes
  <2>2. walk.began \in Nat /\ walk.began =< time /\ time \in Nat /\ time' = time + 1
    BY <2>1 DEF RuntimeInv, RuntimeTypeOK, Walks, WalkIsOfNow, Passes
  <2>3. walk' = walk /\ scan' = scan /\ parent' = parent
    BY DEF Passes
  <2>4. Since(walk.began) \subseteq Since(walk.began)'
    BY <1>4, <2>2, <2>3 DEF Since
  <2>. QED
    BY <2>1, <2>2, <2>3, <2>4 DEF RuntimeInv, WalkIsOfNow
<1>8. EntryIsTrue'
  <2>1. PICK k \in Found, t \in Int :
            k = remembered.kind /\ t = remembered.expires - Ttl - ScanTakes
    BY RuntimeAssumption DEF RuntimeInv, RuntimeTypeOK
  <2>2. RanSince(k, 0) /\ RanSince(k, t)
    BY <2>1 DEF RuntimeInv, EntryIsTrue
  <2>3. RanSince(k, 0)' /\ RanSince(k, t)'
    BY <1>1, <1>2, <2>2, RanGoesOn DEF RuntimeInv
  <2>. QED
    BY <2>1, <2>3 DEF EntryIsTrue, RanSince, Passes
<1>9. ParentsLive' /\ ReportedAgentRan'
  BY DEF RuntimeInv, ParentsLive, ReportedAgentRan, Passes, Lives
<1>. QED
  BY <1>1, <1>5, <1>6, <1>7, <1>8, <1>9 DEF RuntimeInv

-----------------------------------------------------------------------------
(* Scans and walks *)

\* A step of a scan leaves the world alone.
WorldSame == UNCHANGED <<parent, foreground, time, ranAt>>
LEMMA WorldKeeps ==
    ASSUME RuntimeInv, WorldSame
    PROVE  /\ RanBefore' /\ ParentsLive' /\ BelowIsNow'
           /\ \A t : Since(t)' = Since(t) /\ \A k : RanSince(k, t)' = RanSince(k, t)
BY DEF WorldSame, RuntimeInv, RanBefore, ParentsLive, BelowIsNow, Lives, Since, RanSince

LEMMA NotWalkingFacts ==
    /\ NotWalking \in Walks /\ ~NotWalking.on /\ NotWalking.listed = {}
    /\ NoScan \in Scans /\ ~NoScan.on /\ NoScan.read = "no"
    /\ NoRuntime \in [kind : Found, age : Int] /\ NoRuntime.kind = "unknown"
    /\ NoTable \in Tables
BY RuntimeAssumption
DEF NotWalking, NoScan, NoRuntime, NoTable, Walks, Scans, Tables, Found, Tree, NoProcess

LEMMA ScanStepsKeep ==
    RuntimeInv /\ (ScanBegins \/ (\E ok \in BOOLEAN : ReadTable(ok)) \/ ScanEnds)
        => RuntimeInv'
<1>. SUFFICES ASSUME RuntimeInv PROVE (ScanBegins \/ (\E ok \in BOOLEAN : ReadTable(ok))
                                       \/ ScanEnds) => RuntimeInv'
  OBVIOUS
<1>1. ASSUME ScanBegins PROVE RuntimeInv'
  <2>1. WorldSame /\ UNCHANGED <<walk, remembered, answered>> /\ ~scan.on
    BY <1>1 DEF ScanBegins, WorldSame
  <2>2. /\ scan' \in Scans /\ scan'.on /\ scan'.began = time /\ scan'.read = "no"
    BY <1>1, NotWalkingFacts DEF ScanBegins, RuntimeInv, RuntimeTypeOK, Scans, NoScan
  <2>3. ~walk.on
    BY <2>1 DEF RuntimeInv, WalkIsOfNow
  <2>4. RuntimeTypeOK'
    BY <2>1, <2>2 DEF RuntimeInv, RuntimeTypeOK, WorldSame
  <2>5. ScanIsOfNow' /\ WalkIsOfNow'
    BY <2>1, <2>2, <2>3, RuntimeAssumption
    DEF ScanIsOfNow, WalkIsOfNow, WorldSame, RuntimeInv, RuntimeTypeOK
  <2>6. EntryIsTrue' /\ ReportedAgentRan'
    BY <2>1 DEF RuntimeInv, EntryIsTrue, ReportedAgentRan, WorldSame, RanSince
  <2>. QED
    BY <2>1, <2>4, <2>5, <2>6, WorldKeeps DEF RuntimeInv
<1>2. ASSUME NEW ok \in BOOLEAN, ReadTable(ok) PROVE RuntimeInv'
  <2>1. WorldSame /\ UNCHANGED <<walk, remembered, answered>> /\ scan.on /\ scan.read = "no"
    BY <1>2 DEF ReadTable, WorldSame
  <2>2. /\ scan' \in Scans /\ scan'.on = scan.on /\ scan'.began = scan.began
        /\ scan'.read = "yes" => scan'.table = parent
    BY <1>2, NotWalkingFacts DEF ReadTable, RuntimeInv, RuntimeTypeOK, Scans
  <2>3. RuntimeTypeOK'
    BY <2>1, <2>2 DEF RuntimeInv, RuntimeTypeOK, WorldSame
  <2>4. ScanIsOfNow'
    <3>1. scan.began \in Int /\ time \in Int /\ scan.began =< time
      BY <2>1 DEF RuntimeInv, RuntimeTypeOK, Scans, ScanIsOfNow
    <3>2. AllBelow(parent) \subseteq Since(scan.began)
      BY <3>1, SinceEarlier DEF RuntimeInv, BelowIsNow
    <3>3. Since(scan.began)' = Since(scan'.began)
      BY <2>1 DEF WorldSame, Since, RanSince
    <3>. QED
      BY <2>1, <2>2, <3>2, <3>3 DEF RuntimeInv, ScanIsOfNow, WorldSame
  <2>5. WalkIsOfNow'
    BY <2>1, <2>2 DEF RuntimeInv, WalkIsOfNow, WorldSame, Since, RanSince
  <2>6. EntryIsTrue' /\ ReportedAgentRan'
    BY <2>1 DEF RuntimeInv, EntryIsTrue, ReportedAgentRan, WorldSame, RanSince
  <2>. QED
    BY <2>1, <2>3, <2>4, <2>5, <2>6, WorldKeeps DEF RuntimeInv
<1>3. ASSUME ScanEnds PROVE RuntimeInv'
  <2>1. WorldSame /\ UNCHANGED <<walk, remembered>> /\ ~walk.on
        /\ scan' = NoScan /\ answered' = NoRuntime
    BY <1>3 DEF ScanEnds, WorldSame
  <2>2. RuntimeTypeOK'
    BY <2>1, NotWalkingFacts DEF RuntimeInv, RuntimeTypeOK, WorldSame
  <2>3. ScanIsOfNow' /\ WalkIsOfNow' /\ ReportedAgentRan'
    BY <2>1, NotWalkingFacts DEF ScanIsOfNow, WalkIsOfNow, ReportedAgentRan
  <2>4. EntryIsTrue'
    BY <2>1 DEF RuntimeInv, EntryIsTrue, WorldSame, RanSince
  <2>. QED
    BY <2>1, <2>2, <2>3, <2>4, WorldKeeps DEF RuntimeInv
<1>. QED
  BY <1>1, <1>2, <1>3

\* A detection of what ran since then is remembered no longer than it may be.
LEMMA RemembersKeeps ==
    ASSUME RuntimeInv, WorldSame, scan' = scan, walk' \in {walk, NotWalking}, scan.on,
           NEW kind \in Found, NEW began \in Nat, NEW t \in Nat, Remembers(kind, began),
           RanSince(kind, t), scan.began =< t, began =< time,
           began =< scan.began + ScanTakes, began =< t + ScanTakes
    PROVE  RuntimeInv'
<1>1. /\ remembered' = [command |-> scan.command, kind |-> kind, expires |-> began + Ttl]
      /\ Gives(kind)
  BY DEF Remembers, Expires
<1>2. /\ scan.began \in Nat /\ scan.command \in Tree /\ time \in Nat
      /\ time =< scan.began + ScanTakes /\ Ttl \in Nat \ {0} /\ ScanTakes \in Nat
  BY RuntimeAssumption DEF RuntimeInv, RuntimeTypeOK, Scans, ScanIsOfNow
<1>3. answered' \in [kind : Found, age : Int] /\ ReportedAgentRan'
  BY <1>1, <1>2, GivesTrue DEF RuntimeInv
<1>4. RuntimeTypeOK'
  BY <1>1, <1>2, <1>3, NotWalkingFacts DEF RuntimeInv, RuntimeTypeOK, WorldSame
<1>5. EntryIsTrue'
  <2>1. /\ remembered'.kind = kind /\ remembered'.expires - Ttl - ScanTakes = began - ScanTakes
        /\ began - ScanTakes =< t
    BY <1>1, <1>2
  <2>2. RanSince(kind, began - ScanTakes) /\ RanSince(kind, 0)
    BY <1>2, <2>1 DEF RuntimeInv, RuntimeTypeOK, RanSince, Found
  <2>. QED
    BY <2>1, <2>2 DEF EntryIsTrue, WorldSame, RanSince
<1>6. ScanIsOfNow'
  BY DEF RuntimeInv, ScanIsOfNow, WorldSame, Since, RanSince
<1>7. WalkIsOfNow'
  BY NotWalkingFacts DEF RuntimeInv, WalkIsOfNow, WorldSame, Since, RanSince
<1>. QED
  BY <1>3, <1>4, <1>5, <1>6, <1>7, WorldKeeps DEF RuntimeInv

LEMMA LookUpsKeep == RuntimeInv /\ (LookUpFresh \/ LookUpTable) => RuntimeInv'
<1>. SUFFICES ASSUME RuntimeInv PROVE (LookUpFresh \/ LookUpTable) => RuntimeInv'
  OBVIOUS
<1>1. /\ time \in Nat /\ scan \in Scans /\ remembered.kind \in Found
      /\ remembered.expires \in Nat /\ Ttl \in Nat \ {0} /\ ScanTakes \in Nat
  BY RuntimeAssumption DEF RuntimeInv, RuntimeTypeOK
<1>2. ASSUME LookUpFresh PROVE RuntimeInv'
  <2>1. /\ WorldSame /\ UNCHANGED <<scan, walk, remembered>> /\ time < remembered.expires
        /\ Gives(remembered.kind)
    BY <1>2 DEF LookUpFresh, Fresh, WorldSame
  <2>2. answered' \in [kind : Found, age : Int] /\ ReportedAgentRan'
    <3>1. CASE remembered.expires - Ttl - ScanTakes >= 0
      BY <1>1, <2>1, <3>1, GivesTrue DEF RuntimeInv, EntryIsTrue
    <3>2. CASE remembered.expires - Ttl - ScanTakes < 0
      BY <1>1, <2>1, <3>2, GivesTrue DEF RuntimeInv, EntryIsTrue
    <3>. QED
      BY <1>1, <3>1, <3>2
  <2>3. RuntimeTypeOK'
    BY <2>1, <2>2 DEF RuntimeInv, RuntimeTypeOK, WorldSame
  <2>4. ScanIsOfNow' /\ WalkIsOfNow' /\ EntryIsTrue'
    BY <2>1 DEF RuntimeInv, ScanIsOfNow, WalkIsOfNow, EntryIsTrue, WorldSame, Since, RanSince
  <2>. QED
    BY <2>1, <2>2, <2>3, <2>4, WorldKeeps DEF RuntimeInv
<1>3. ASSUME LookUpTable PROVE RuntimeInv'
  <2>. DEFINE level == Levels(scan.table, MaxFound)
  <2>1. /\ WorldSame /\ UNCHANGED <<scan, walk>> /\ scan.on /\ scan.read = "yes"
        /\ Remembers(FirstAgent(level, MaxDepth), time)
    BY <1>3 DEF LookUpTable, WorldSame
  <2>2. /\ scan.began \in Nat /\ scan.table \in Tables /\ scan.began =< time
        /\ time =< scan.began + ScanTakes
        /\ AllBelow(scan.table) \subseteq Since(scan.began)
    BY <1>1, <2>1 DEF RuntimeInv, ScanIsOfNow, Scans
  <2>3. \A d \in 0 .. MaxDepth : level[d] \subseteq Since(scan.began)
    BY <2>2, BelowFacts, LevelsInside
  <2>. HIDE DEF level
  <2>4. MaxDepth \in 0 .. MaxDepth
    BY RuntimeAssumption
  <2>5. /\ FirstAgent(level, MaxDepth) \in Found
        /\ RanSince(FirstAgent(level, MaxDepth), scan.began)
    BY <2>2, <2>3, <2>4, AgentsRan DEF RuntimeInv
  <2>. QED
    BY <1>1, <2>1, <2>2, <2>5, RemembersKeeps
<1>. QED
  BY <1>2, <1>3

\* A step of a walk that goes on: what the walk holds ran since it began.
LEMMA WalkStepKeeps ==
    ASSUME RuntimeInv, WorldSame, UNCHANGED <<scan, remembered, answered>>,
           walk' \in Walks, walk'.listed # {} => walk'.on /\ walk'.depth < MaxDepth,
           WalkIsOfNow'
    PROVE  RuntimeInv'
<1>1. RuntimeTypeOK'
  BY DEF RuntimeInv, RuntimeTypeOK, WorldSame
<1>2. ScanIsOfNow' /\ EntryIsTrue' /\ ReportedAgentRan'
  BY DEF RuntimeInv, ScanIsOfNow, EntryIsTrue, ReportedAgentRan, WorldSame, Since, RanSince
<1>. QED
  BY <1>1, <1>2, WorldKeeps DEF RuntimeInv

LEMMA WalkBeginsKeeps == RuntimeInv /\ WalkBegins => RuntimeInv'
<1>. SUFFICES ASSUME RuntimeInv, WalkBegins PROVE RuntimeInv'
  OBVIOUS
<1>1. WorldSame /\ UNCHANGED <<scan, remembered, answered>> /\ scan.on
  BY DEF WalkBegins, WorldSame
<1>2. /\ walk' = [NotWalking EXCEPT !.on = TRUE, !.level[0] = {Shell}, !.began = time,
                                    !.found = 1]
      /\ MaxDepth \in Nat /\ time \in Nat
  BY RuntimeAssumption DEF WalkBegins, RuntimeInv, RuntimeTypeOK
<1>3. /\ walk'.on /\ walk'.began = time /\ walk'.depth = 0 /\ walk'.listed = {}
      /\ walk'.level = [[d \in 0 .. MaxDepth |-> {}] EXCEPT ![0] = {Shell}]
      /\ walk'.found = 1 /\ walk' \in [on : BOOLEAN, level : {walk'.level}, depth : {0},
                                       listed : {{}}, found : {1}, began : {time}]
  BY <1>2 DEF NotWalking
<1>4. walk'.level \in [0 .. MaxDepth -> SUBSET Tree] /\ walk'.level[0] = {Shell}
  <2>1. 0 \in 0 .. MaxDepth /\ {Shell} \in SUBSET Tree /\ {} \in SUBSET Tree
    BY <1>2 DEF Tree
  <2>. QED
    BY <1>3, <2>1
<1>5. walk' \in Walks
  BY <1>2, <1>3, <1>4 DEF Walks
<1>6. WalkIsOfNow'
  <2>. DEFINE S == AllBelow(parent)
  <2>1. /\ S \in SUBSET Since(time) /\ Children(parent, S) \subseteq S /\ Shell \in S
    BY BelowFacts DEF RuntimeInv, RuntimeTypeOK, BelowIsNow, Closed
  <2>3. /\ scan'.on /\ scan'.began =< time /\ time' = time /\ parent' = parent
    BY <1>1 DEF WorldSame, RuntimeInv, ScanIsOfNow
  <2>. HIDE DEF S
  <2>4. \A d \in 0 .. walk'.depth : walk'.level[d] \subseteq Since(time)
    BY <1>3, <1>4, <2>1
  <2>5. Since(walk.began)' = Since(time)
    BY <1>1, <1>3 DEF WorldSame, Since, RanSince
  <2>. QED
    BY <1>2, <1>3, <1>4, <2>1, <2>3, <2>4, <2>5, SMTT(60) DEF WalkIsOfNow
<1>. QED
  BY <1>1, <1>3, <1>5, <1>6, WalkStepKeeps

LEMMA WalkListsKeeps == RuntimeInv /\ WalkLists => RuntimeInv'
<1>. SUFFICES ASSUME RuntimeInv, WalkLists PROVE RuntimeInv'
  OBVIOUS
<1>. DEFINE more == Children(parent, walk.level[walk.depth])
<1>1. /\ WorldSame /\ UNCHANGED <<scan, remembered, answered>> /\ walk.on
      /\ walk' = [walk EXCEPT !.listed = more]
  BY DEF WalkLists, WorldSame
<1>2. more \in SUBSET Pids
  BY DEF Children
<1>3. /\ walk' \in Walks /\ walk'.on /\ walk'.level = walk.level /\ walk'.depth = walk.depth
      /\ walk'.began = walk.began /\ walk'.listed = more
  BY <1>1, <1>2 DEF RuntimeInv, RuntimeTypeOK, Walks
<1>4. PICK S \in SUBSET Since(walk.began) :
          /\ Children(parent, S) \subseteq S
          /\ walk.level[walk.depth] \subseteq S /\ walk.listed \subseteq S
  BY <1>1 DEF RuntimeInv, WalkIsOfNow
<1>5. more \subseteq S
  BY <1>4 DEF Children
<1>. HIDE DEF more
<1>6. Since(walk.began)' = Since(walk.began)
  BY <1>1, <1>3 DEF WorldSame, Since, RanSince
<1>7. WalkIsOfNow'
  BY <1>1, <1>3, <1>4, <1>5, <1>6 DEF RuntimeInv, WalkIsOfNow, WorldSame
<1>. QED
  BY <1>1, <1>3, <1>7, WalkStepKeeps DEF WalkLists

LEMMA WalkReadsKeeps == RuntimeInv /\ WalkReads => RuntimeInv'
<1>. SUFFICES ASSUME RuntimeInv, WalkReads PROVE RuntimeInv'
  OBVIOUS
<1>. DEFINE alive == {p \in walk.listed : Lives(p)}
            new == alive \ Seen
<1>1. /\ WorldSame /\ UNCHANGED <<scan, remembered, answered>> /\ walk.listed # {}
      /\ walk' = [walk EXCEPT !.listed = {}, !.depth = @ + 1, !.found = @ + Cardinality(new),
                              !.level[walk.depth + 1] = new]
  BY DEF WalkReads, WorldSame
<1>2. /\ walk \in Walks /\ walk.on /\ walk.depth + 1 \in 0 .. MaxDepth
      /\ walk.depth \in 0 .. MaxDepth /\ MaxDepth \in Nat
  BY <1>1, RuntimeAssumption, SMTT(60) DEF RuntimeInv, RuntimeTypeOK, Walks
<1>3. PICK S \in SUBSET Since(walk.began) :
          /\ Children(parent, S) \subseteq S
          /\ walk.level[walk.depth] \subseteq S /\ walk.listed \subseteq S
  BY <1>2 DEF RuntimeInv, WalkIsOfNow
<1>4. new \in SUBSET Pids /\ new \subseteq S /\ Cardinality(new) \in Nat
  <2>1. new \in SUBSET Pids /\ new \subseteq S
    BY <1>2, <1>3 DEF Walks
  <2>2. IsFiniteSet(new)
    BY <2>1, RuntimeAssumption, FS_Subset
  <2>. QED
    BY <2>1, <2>2, FS_CardinalityType
<1>. HIDE DEF alive, new
<1>5. /\ walk' \in Walks /\ walk'.on /\ walk'.depth = walk.depth + 1 /\ walk'.listed = {}
      /\ walk'.began = walk.began
      /\ walk'.level = [walk.level EXCEPT ![walk.depth + 1] = new]
  <2>. DEFINE level == [walk.level EXCEPT ![walk.depth + 1] = new]
  <2>1. /\ walk' = [walk EXCEPT !.listed = {}, !.depth = walk.depth + 1,
                                !.found = walk.found + Cardinality(new), !.level = level]
    BY <1>1, <1>2 DEF Walks
  <2>2. level \in [0 .. MaxDepth -> SUBSET Tree] /\ walk.found + Cardinality(new) \in Nat
    BY <1>2, <1>4 DEF Walks, Tree
  <2>. HIDE DEF level
  <2>3. /\ walk' \in Walks /\ walk'.on /\ walk'.depth = walk.depth + 1 /\ walk'.listed = {}
        /\ walk'.began = walk.began /\ walk'.level = level
    BY <1>2, <2>1, <2>2 DEF Walks
  <2>. QED
    BY <2>3 DEF level
<1>6. Since(walk.began)' = Since(walk.began)
  BY <1>1, <1>5 DEF WorldSame, Since, RanSince
<1>7. \A d \in 0 .. walk'.depth : walk'.level[d] \subseteq Since(walk.began)
  <2>1. TAKE d \in 0 .. walk'.depth
  <2>2. d \in 0 .. MaxDepth /\ (d = walk.depth + 1 \/ d \in 0 .. walk.depth)
    BY <1>2, <1>5
  <2>3. CASE d = walk.depth + 1
    BY <1>2, <1>3, <1>4, <1>5, <2>3 DEF Walks
  <2>4. CASE d \in 0 .. walk.depth /\ d # walk.depth + 1
    BY <1>2, <1>5, <2>2, <2>4 DEF RuntimeInv, WalkIsOfNow, Walks
  <2>. QED
    BY <2>2, <2>3, <2>4
<1>8. walk'.level[walk'.depth] \subseteq S
  BY <1>2, <1>4, <1>5 DEF Walks
<1>9. WalkIsOfNow'
  BY <1>1, <1>2, <1>3, <1>5, <1>6, <1>7, <1>8 DEF RuntimeInv, WalkIsOfNow, WorldSame
<1>. QED
  BY <1>1, <1>5, <1>9, WalkStepKeeps

LEMMA WalkStopsKeep == RuntimeInv /\ (WalkEnds \/ WalkFails) => RuntimeInv'
<1>. SUFFICES ASSUME RuntimeInv, WalkEnds \/ WalkFails PROVE RuntimeInv'
  OBVIOUS
<1>1. /\ WorldSame /\ scan' = scan /\ walk' = NotWalking /\ walk.on
      /\ \/ Remembers(FirstAgent(walk.level, walk.depth), walk.began)
         \/ Remembers("unknown", walk.began)
  BY DEF WalkEnds, WalkFails, WorldSame
<1>2. /\ scan.on /\ scan.began \in Nat /\ walk.began \in Nat /\ time \in Nat
      /\ scan.began =< walk.began /\ walk.began =< time /\ time =< scan.began + ScanTakes
      /\ walk.depth \in 0 .. MaxDepth /\ ScanTakes \in Nat
      /\ \A d \in 0 .. walk.depth : walk.level[d] \subseteq Since(walk.began)
  BY <1>1, RuntimeAssumption
  DEF RuntimeInv, RuntimeTypeOK, Walks, Scans, WalkIsOfNow, ScanIsOfNow
<1>3. /\ FirstAgent(walk.level, walk.depth) \in Found
      /\ RanSince(FirstAgent(walk.level, walk.depth), walk.began)
  BY <1>2, AgentsRan DEF RuntimeInv
<1>4. "unknown" \in Found /\ RanSince("unknown", walk.began)
  BY DEF Found, RanSince
<1>5. PICK kind \in Found : Remembers(kind, walk.began) /\ RanSince(kind, walk.began)
  BY <1>1, <1>3, <1>4
<1>. QED
  BY <1>1, <1>2, <1>5, RemembersKeeps

-----------------------------------------------------------------------------
LEMMA RuntimeStarts == RuntimeInit => RuntimeInv
<1>. SUFFICES ASSUME RuntimeInit PROVE RuntimeInv
  OBVIOUS
<1>1. RuntimeTypeOK /\ RanBefore
  <2>1. ranAt = [k \in AgentKinds |-> Never]
    BY DEF RuntimeInit, AgentKinds
  <2>2. Shell \in Tree /\ "unknown" \in Found
    BY DEF Tree, Found
  <2>. QED
    BY <2>1, <2>2, NotWalkingFacts DEF RuntimeInit, RuntimeTypeOK, RanBefore, Never
<1>2. ParentsLive /\ AllBelow(parent) \subseteq {Shell}
  <2>1. /\ \A p \in Pids : parent[p] = NoProcess
        /\ NoProcess \notin Tree /\ parent \in Tables
    BY RuntimeAssumption, NotWalkingFacts DEF RuntimeInit, NoTable, NoProcess, Tree, Shell
  <2>2. Closed(parent, {Shell}) /\ {Shell} \in SUBSET Tree
    BY <2>1 DEF Closed, Children, Tree
  <2>. QED
    BY <2>1, <2>2, BelowFacts DEF ParentsLive, Tree
<1>3. BelowIsNow
  BY <1>2 DEF BelowIsNow, Since
<1>4. ScanIsOfNow /\ WalkIsOfNow /\ EntryIsTrue /\ ReportedAgentRan
  BY NotWalkingFacts
  DEF RuntimeInit, ScanIsOfNow, WalkIsOfNow, EntryIsTrue, RanSince, ReportedAgentRan
<1>. QED
  BY <1>1, <1>2, <1>3, <1>4 DEF RuntimeInv

LEMMA RuntimeSteps == RuntimeInv /\ [RuntimeNext]_runtimeVars => RuntimeInv'
<1>1. RuntimeInv /\ UNCHANGED runtimeVars => RuntimeInv'
  <2>. SUFFICES ASSUME RuntimeInv, UNCHANGED runtimeVars PROVE RuntimeInv'
    OBVIOUS
  <2>1. WorldSame /\ UNCHANGED <<scan, walk, remembered, answered>>
    BY DEF runtimeVars, WorldSame
  <2>2. RuntimeTypeOK'
    BY <2>1 DEF RuntimeInv, RuntimeTypeOK, WorldSame
  <2>3. ScanIsOfNow' /\ WalkIsOfNow' /\ EntryIsTrue' /\ ReportedAgentRan'
    BY <2>1 DEF RuntimeInv, ScanIsOfNow, WalkIsOfNow, EntryIsTrue, ReportedAgentRan,
                WorldSame, Since, RanSince
  <2>. QED
    BY <2>1, <2>2, <2>3, WorldKeeps DEF RuntimeInv
<1>. QED
  BY <1>1, RunStartsKeeps, RunEndsKeeps, RuntimePasses, ScanStepsKeep, LookUpsKeep,
     WalkBeginsKeeps, WalkListsKeeps, WalkReadsKeeps, WalkStopsKeep
  DEF RuntimeNext

\* However processes come, go, leave their children to init and have their pids used
\* again during a search (process.go:40-72), and however long a detection has been
\* remembered: an agent that is reported ran below the shell not long ago.
THEOREM RuntimeHolds == RuntimeSpec => []ReportedAgentRan
<1>1. RuntimeSpec => []RuntimeInv
  BY RuntimeStarts, RuntimeSteps, PTL DEF RuntimeSpec
<1>2. RuntimeInv => ReportedAgentRan
  BY DEF RuntimeInv
<1>. QED
  BY <1>1, <1>2, PTL

-----------------------------------------------------------------------------
(***************************************************************************)
(* PanePatches: a browser shows screens of the pane, whole and in order.   *)
(* What is on the way to a browser on its present socket is a chain: its   *)
(* first patch stands alone, each other is against the screen of the one   *)
(* before, and the stream's base is the screen at the end of the chain.  A *)
(* relayed stream asks one question at a time, about that base, and the    *)
(* answer is of a screen captured after all that were sent before.         *)
(***************************************************************************)
Ls == Lines \cup {Prompt}
Captures == Seq(Ls) \ {NoScreen}
Patches == [drop : Nat, from : Nat, lines : Seq(Ls)]
Messages == [socket : Nat, patch : Patches, screen : Nat]
Asked == [viewer : Viewers, cursor : Seq(Ls), seen : Nat, late : BOOLEAN]
PatchTypeOK ==
    /\ relayed \subseteq Viewers
    /\ screens \in Seq(Captures) /\ Len(screens) >= 1
    /\ socket \in [Viewers -> [up : BOOLEAN, count : Nat]]
    /\ browser \in [Viewers -> [lines : Seq(Ls), screen : Nat]]
    /\ wire \in [Viewers -> Seq(Messages)]
    /\ stream \in [Viewers -> [on : BOOLEAN, base : Seq(Ls), waiting : BOOLEAN]]
    /\ requests \subseteq Asked /\ cache \in Seq(Ls)

OfNow(v, m) == m.socket = socket[v].count
Whole(m) == m.patch = [drop |-> 0, from |-> 0, lines |-> screens[m.screen]]

\* A message can be applied to what will be shown when its turn comes.
Suits(v, i) ==
    LET m == wire[v][i] IN
    \/ Whole(m)
    \/ i = 1 /\ Patched(browser[v].lines, m.patch) = screens[m.screen]
    \/ /\ i > 1 /\ OfNow(v, wire[v][i - 1])
       /\ Patched(screens[wire[v][i - 1].screen], m.patch) = screens[m.screen]
ScreensExist(v) ==
    /\ browser[v].screen =< Len(screens)
    /\ \A i \in 1 .. Len(wire[v]) : wire[v][i].screen \in 1 .. Len(screens)
NoneLater(v) == \A i \in 1 .. Len(wire[v]) : wire[v][i].socket =< socket[v].count
WireIsChain(v) ==
    socket[v].up => \A i \in 1 .. Len(wire[v]) : OfNow(v, wire[v][i]) => Suits(v, i)
InOrder(v) ==
    socket[v].up =>
        \A i \in 1 .. Len(wire[v]) : OfNow(v, wire[v][i]) =>
            /\ browser[v].screen =< wire[v][i].screen
            /\ \A k \in 1 .. Len(wire[v]) :
                 i < k /\ OfNow(v, wire[v][k]) => wire[v][i].screen =< wire[v][k].screen
BaseIsLast(v) ==
    stream[v].on =>
        /\ socket[v].up
        /\ stream[v].base = NoScreen => \A i \in 1 .. Len(wire[v]) : ~OfNow(v, wire[v][i])
        /\ stream[v].base # NoScreen /\ wire[v] = << >> => browser[v].lines = stream[v].base
        /\ stream[v].base # NoScreen /\ wire[v] # << >> =>
              /\ OfNow(v, wire[v][Len(wire[v])])
              /\ screens[wire[v][Len(wire[v])].screen] = stream[v].base
ViewerOK(v) ==
    ScreensExist(v) /\ NoneLater(v) /\ WireIsChain(v) /\ InOrder(v) /\ BaseIsLast(v)

\* What is captured now is not older than what was sent.
NotOlder(v, n) ==
    /\ browser[v].screen =< n
    /\ \A i \in 1 .. Len(wire[v]) : OfNow(v, wire[v][i]) => wire[v][i].screen =< n
AskedOnce(r) == \A q \in requests : q.viewer = r.viewer /\ ~q.late => q = r
AskedIsNow(r) ==
    /\ r.seen =< Len(screens)
    /\ ~r.late =>
          /\ r.viewer \in relayed /\ stream[r.viewer].on /\ stream[r.viewer].waiting
          /\ r.cursor = stream[r.viewer].base /\ AskedOnce(r)
          /\ r.seen # 0 => NotOlder(r.viewer, r.seen)
PatchInv ==
    /\ PatchTypeOK
    /\ \A v \in Viewers : ViewerOK(v)
    /\ \A r \in requests : AskedIsNow(r)

-----------------------------------------------------------------------------
(* Patches *)

LEMMA CommonIs ==
    ASSUME NEW a \in Seq(Ls), NEW b \in Seq(Ls)
    PROVE  /\ Common(a, b) \in 0 .. Len(b) /\ Common(a, b) =< Len(a)
           /\ \A i \in 1 .. Common(a, b) : a[i] = b[i]
<1>1. Len(a) \in Nat /\ Len(b) \in Nat /\ {Len(a), Len(b)} \subseteq Nat
  OBVIOUS
<1>. DEFINE n == Min({Len(a), Len(b)})
<1>2. n \in Nat /\ n =< Len(a) /\ n =< Len(b)
  BY <1>1, MinIn
<1>. HIDE DEF n
<1>. DEFINE S == {k \in 0 .. n : \A i \in 1 .. k : a[i] = b[i]}
<1>3. 0 \in S /\ S \subseteq 0 .. n
  BY <1>2
<1>4. Common(a, b) = Max(S)
  BY DEF Common, n
<1>5. Max(S) \in S
  <2>. HIDE DEF S
  <2>. QED
    BY <1>2, <1>3, MaxIn
<1>6. Max(S) \in 0 .. n /\ \A i \in 1 .. Max(S) : a[i] = b[i]
  BY <1>5
<1>. HIDE DEF S
<1>7. Max(S) \in 0 .. Len(b) /\ Max(S) =< Len(a)
  BY <1>1, <1>2, <1>6
<1>. QED
  BY <1>4, <1>6, <1>7

LEMMA KeptIs ==
    ASSUME NEW a \in Seq(Ls), NEW k \in 0 .. Len(a)
    PROVE  /\ Kept(a, k) \in Seq(Ls) /\ Len(Kept(a, k)) = Len(a) - k
           /\ \A i \in 1 .. Len(a) - k : Kept(a, k)[i] = a[k + i]
BY DEF Kept

\* The cheapest patch is a patch: it makes the one screen of the other.
LEMMA LinePatchIs ==
    ASSUME NEW prev \in Seq(Ls), NEW next \in Seq(Ls), NEW shift \in BOOLEAN
    PROVE  /\ LinePatch(prev, next, shift) \in Patches
           /\ Patched(prev, LinePatch(prev, next, shift)) = next
<1>. DEFINE drops == IF shift THEN {0} \cup 1 .. Len(prev) - 1 ELSE {0}
            shared(k) == Common(Kept(prev, k), next)
            from == Max({shared(k) : k \in drops})
            best == {k \in drops : shared(k) = from}
            drop == Min(best)
<1>1. LinePatch(prev, next, shift) = [drop |-> drop, from |-> from, lines |-> Kept(next, from)]
  BY DEF LinePatch
<1>2. Len(prev) \in Nat /\ Len(next) \in Nat
  OBVIOUS
<1>3. 0 \in drops /\ drops \subseteq 0 .. Len(prev)
  BY <1>2
<1>. HIDE DEF drops
<1>4. \A k \in drops :
          /\ shared(k) \in 0 .. Len(next) /\ shared(k) =< Len(prev) - k
          /\ \A i \in 1 .. shared(k) : prev[k + i] = next[i]
  <2>1. TAKE k \in drops
  <2>2. k \in 0 .. Len(prev)
    BY <1>3
  <2>3. /\ Kept(prev, k) \in Seq(Ls) /\ Len(Kept(prev, k)) = Len(prev) - k
        /\ \A i \in 1 .. Len(prev) - k : Kept(prev, k)[i] = prev[k + i]
    BY <2>2, KeptIs
  <2>4. /\ shared(k) \in 0 .. Len(next) /\ shared(k) =< Len(prev) - k
        /\ \A i \in 1 .. shared(k) : Kept(prev, k)[i] = next[i]
    BY <2>3, CommonIs
  <2>. HIDE DEF shared
  <2>. QED
    BY <1>2, <2>2, <2>3, <2>4
<1>. HIDE DEF shared
<1>5. from \in {shared(k) : k \in drops}
  <2>1. {shared(k) : k \in drops} \subseteq 0 .. Len(next) /\ {shared(k) : k \in drops} # {}
    BY <1>3, <1>4
  <2>. QED
    BY <1>2, <2>1, MaxIn
<1>. HIDE DEF from
<1>6. drop \in best
  <2>1. best \subseteq Nat /\ best # {}
    BY <1>3, <1>5
  <2>. HIDE DEF best
  <2>. QED
    BY <2>1, MinIn
<1>7. /\ drop \in 0 .. Len(prev) /\ from \in 0 .. Len(next) /\ drop + from =< Len(prev)
      /\ \A i \in 1 .. from : prev[drop + i] = next[i]
  <2>1. drop \in drops /\ shared(drop) = from
    BY <1>6
  <2>. HIDE DEF drop
  <2>. QED
    BY <1>2, <1>3, <1>4, <2>1
<1>. HIDE DEF drop
<1>8. /\ Kept(next, from) \in Seq(Ls) /\ Len(Kept(next, from)) = Len(next) - from
      /\ \A i \in 1 .. Len(next) - from : Kept(next, from)[i] = next[from + i]
  BY <1>7, KeptIs
<1>. DEFINE patch == LinePatch(prev, next, shift)
<1>9. patch \in Patches
  BY <1>1, <1>2, <1>7, <1>8 DEF Patches
<1>10. Patched(prev, patch) = next
  <2>1. Min({drop + from, Len(prev)}) = drop + from
    <3>1. {drop + from, Len(prev)} \subseteq Nat /\ {drop + from, Len(prev)} # {}
      BY <1>2, <1>7
    <3>2. Min({drop + from, Len(prev)}) \in {drop + from, Len(prev)}
          /\ \A y \in {drop + from, Len(prev)} : Min({drop + from, Len(prev)}) =< y
      BY <3>1, MinIn
    <3>. QED
      BY <1>2, <1>7, <3>2
  <2>. DEFINE head == SubSeq(prev, drop + 1, drop + from)
              tail == Kept(next, from)
  <2>2. head \in Seq(Ls) /\ Len(head) = from /\ \A i \in 1 .. from : head[i] = prev[drop + i]
    BY <1>2, <1>7, SMTT(60)
  <2>3. Patched(prev, patch) = head \o tail
    <3>1. patch.drop = drop /\ patch.from = from /\ patch.lines = tail
      BY <1>1
    <3>. HIDE DEF patch
    <3>2. Patched(prev, patch)
            = SubSeq(prev, drop + 1, Min({drop + from, Len(prev)})) \o tail
      BY <3>1, Zenon DEF Patched
    <3>. QED
      BY <2>1, <3>2
  <2>. HIDE DEF head, tail
  <2>4. /\ head \o tail \in Seq(Ls) /\ Len(head \o tail) = Len(next)
        /\ \A i \in 1 .. Len(next) :
              (head \o tail)[i] = IF i =< from THEN head[i] ELSE tail[i - from]
    BY <1>2, <1>7, <1>8, <2>2 DEF tail
  <2>. DEFINE whole == head \o tail
  <2>. HIDE DEF whole
  <2>5. \A i \in 1 .. Len(next) : whole[i] = next[i]
    <3>1. TAKE i \in 1 .. Len(next)
    <3>2. CASE i =< from
      <4>1. i \in 1 .. from
        BY <1>7, <3>2
      <4>2. whole[i] = head[i] /\ head[i] = prev[drop + i] /\ prev[drop + i] = next[i]
        BY <1>7, <2>2, <2>4, <3>2, <4>1 DEF whole
      <4>. QED
        BY <4>2
    <3>3. CASE ~(i =< from)
      <4>1. i - from \in 1 .. Len(next) - from /\ from + (i - from) = i
        BY <1>2, <1>7, <3>3
      <4>2. tail[i - from] = next[i]
        BY <1>8, <4>1 DEF tail
      <4>. QED
        BY <2>4, <3>3, <4>2 DEF whole
    <3>. QED
      BY <3>2, <3>3
  <2>6. whole \in Seq(Ls) /\ Len(whole) = Len(next)
    BY <2>4 DEF whole
  <2>7. whole = next
    BY <2>5, <2>6
  <2>. QED
    BY <2>3, <2>7 DEF whole
<1>. QED
  BY <1>9, <1>10

\* Against no screen it is the whole screen, which suits whatever is shown.
LEMMA WholeIs ==
    ASSUME NEW next \in Seq(Ls), NEW shift \in BOOLEAN
    PROVE  LinePatch(NoScreen, next, shift) = [drop |-> 0, from |-> 0, lines |-> next]
<1>. DEFINE drops == IF shift THEN {0} \cup 1 .. Len(NoScreen) - 1 ELSE {0}
<1>1. NoScreen \in Seq(Ls) /\ Len(NoScreen) = 0 /\ drops = {0}
  BY DEF NoScreen
<1>2. Kept(NoScreen, 0) \in Seq(Ls) /\ Len(Kept(NoScreen, 0)) = 0
  BY <1>1, KeptIs
<1>3. Common(Kept(NoScreen, 0), next) = 0
  BY <1>2, CommonIs
<1>. DEFINE shared(k) == Common(Kept(NoScreen, k), next)
            from == Max({shared(k) : k \in drops})
            best == {k \in drops : shared(k) = from}
<1>4. {shared(k) : k \in drops} = {0}
  BY <1>1, <1>3
<1>5. from = 0
  <2>1. Max({0}) = 0
    <3>1. {0} \subseteq 0 .. 0 /\ {0} # {} /\ 0 \in Nat
      OBVIOUS
    <3>2. Max({0}) \in {0}
      BY <3>1, MaxIn
    <3>. QED
      BY <3>2
  <2>. QED
    BY <1>4, <2>1
<1>6. best = {0}
  BY <1>1, <1>3, <1>5
<1>7. Min(best) = 0
  <2>1. {0} \subseteq Nat /\ {0} # {}
    OBVIOUS
  <2>2. Min({0}) \in {0}
    BY <2>1, MinIn
  <2>. QED
    BY <1>6, <2>2
<1>8. Kept(next, 0) = next
  BY DEF Kept
<1>9. LinePatch(NoScreen, next, shift)
        = [drop |-> Min(best), from |-> from, lines |-> Kept(next, from)]
  BY DEF LinePatch
<1>. QED
  BY <1>5, <1>7, <1>8, <1>9

LEMMA WholeSuits ==
    ASSUME NEW lines \in Seq(Ls), NEW next \in Seq(Ls)
    PROVE  Patched(lines, [drop |-> 0, from |-> 0, lines |-> next]) = next
<1>1. Min({0, Len(lines)}) = 0
  <2>1. {0, Len(lines)} \subseteq Nat /\ {0, Len(lines)} # {}
    OBVIOUS
  <2>2. /\ Min({0, Len(lines)}) \in {0, Len(lines)}
        /\ \A y \in {0, Len(lines)} : Min({0, Len(lines)}) =< y
    BY <2>1, MinIn
  <2>. QED
    BY <2>2
<1>2. SubSeq(lines, 1, 0) = << >>
  OBVIOUS
<1>3. << >> \o next = next
  OBVIOUS
<1>. DEFINE patch == [drop |-> 0, from |-> 0, lines |-> next]
<1>4. patch.drop + 1 = 1 /\ patch.drop + patch.from = 0 /\ patch.lines = next
  OBVIOUS
<1>. HIDE DEF patch
<1>5. Patched(lines, patch) = SubSeq(lines, 1, Min({0, Len(lines)})) \o next
  BY <1>4, Zenon DEF Patched
<1>. QED
  BY <1>1, <1>2, <1>3, <1>5 DEF patch

-----------------------------------------------------------------------------
(* What leaves a viewer or a request alone *)

LEMMA PatchTyped ==
    ASSUME PatchTypeOK, NEW v \in Viewers
    PROVE  /\ socket[v].up \in BOOLEAN /\ socket[v].count \in Nat
           /\ browser[v].lines \in Seq(Ls) /\ browser[v].screen \in Nat
           /\ wire[v] \in Seq(Messages) /\ Len(wire[v]) \in Nat
           /\ \A i \in 1 .. Len(wire[v]) :
                 /\ wire[v][i].socket \in Nat /\ wire[v][i].patch \in Patches
                 /\ wire[v][i].screen \in Nat
           /\ stream[v].on \in BOOLEAN /\ stream[v].base \in Seq(Ls)
           /\ Len(screens) \in Nat \ {0}
           /\ \A n \in 1 .. Len(screens) : screens[n] \in Seq(Ls) /\ screens[n] # NoScreen
<1>1. /\ socket[v].up \in BOOLEAN /\ socket[v].count \in Nat
      /\ browser[v].lines \in Seq(Ls) /\ browser[v].screen \in Nat
      /\ wire[v] \in Seq(Messages)
      /\ stream[v].on \in BOOLEAN /\ stream[v].base \in Seq(Ls)
      /\ screens \in Seq(Captures) /\ Len(screens) >= 1
  BY DEF PatchTypeOK
<1>2. Len(wire[v]) \in Nat /\ \A i \in 1 .. Len(wire[v]) : wire[v][i] \in Messages
  BY <1>1
<1>3. Len(screens) \in Nat \ {0} /\ \A n \in 1 .. Len(screens) : screens[n] \in Captures
  BY <1>1
<1>. QED
  BY <1>1, <1>2, <1>3 DEF Messages, Captures

ScreensGrow ==
    /\ Len(screens) =< Len(screens') /\ Len(screens') \in Nat
    /\ \A n \in 1 .. Len(screens) : screens'[n] = screens[n]

LEMMA ScreensStay == ASSUME PatchTypeOK, UNCHANGED screens PROVE ScreensGrow
BY DEF PatchTypeOK, ScreensGrow

\* More screens do not touch what was sent.
LEMMA ViewerLeftAlone ==
    ASSUME PatchTypeOK, ScreensGrow, NEW v \in Viewers, ViewerOK(v),
           socket'[v] = socket[v], browser'[v] = browser[v], wire'[v] = wire[v],
           stream'[v].on = stream[v].on, stream'[v].base = stream[v].base
    PROVE  ViewerOK(v)'
<1>. DEFINE n == Len(wire[v])
<1>1. n \in Nat /\ Len(screens) \in Nat /\ browser[v].screen \in Nat
  BY PatchTyped
<1>2. /\ browser[v].screen =< Len(screens)
      /\ \A i \in 1 .. n : wire[v][i].screen \in 1 .. Len(screens)
  BY DEF ViewerOK, ScreensExist
<1>3. \A i \in 1 .. n : screens'[wire[v][i].screen] = screens[wire[v][i].screen]
  BY <1>2 DEF ScreensGrow
<1>4. ScreensExist(v)'
  BY <1>1, <1>2 DEF ScreensExist, ScreensGrow
<1>5. NoneLater(v)' /\ InOrder(v)'
  BY DEF ViewerOK, NoneLater, InOrder, OfNow
<1>6. WireIsChain(v)'
  <2>1. \A i \in 1 .. n : Suits(v, i) => Suits(v, i)'
    <3>1. TAKE i \in 1 .. n
    <3>2. i > 1 => i - 1 \in 1 .. n
      BY <1>1
    <3>. QED
      BY <1>3, <3>2 DEF Suits, Whole, OfNow
  <2>. QED
    BY <2>1 DEF ViewerOK, WireIsChain, OfNow
<1>7. BaseIsLast(v)'
  <2>1. wire[v] # << >> => n \in 1 .. n
    BY <1>1, PatchTyped
  <2>. QED
    BY <1>3, <2>1 DEF ViewerOK, BaseIsLast, OfNow
<1>. QED
  BY <1>4, <1>5, <1>6, <1>7 DEF ViewerOK

\* A request keeps what it knows while its viewer's stream, socket, wire and
\* browser are left alone and no other is added.
LEMMA RequestLeftAlone ==
    ASSUME PatchTypeOK, ScreensGrow, NEW r \in requests, AskedIsNow(r),
           UNCHANGED relayed, requests' \subseteq requests,
           socket'[r.viewer] = socket[r.viewer], browser'[r.viewer] = browser[r.viewer],
           wire'[r.viewer] = wire[r.viewer], stream'[r.viewer] = stream[r.viewer]
    PROVE  AskedIsNow(r)'
<1>1. r.seen \in Nat
  BY DEF PatchTypeOK, Asked
<1>. QED
  BY <1>1 DEF AskedIsNow, AskedOnce, NotOlder, OfNow, ScreensGrow

LEMMA AskedTyped ==
    ASSUME PatchTypeOK, NEW r \in requests
    PROVE  r \in Asked /\ r.viewer \in Viewers /\ r.cursor \in Seq(Ls) /\ r.seen \in Nat
           /\ r.late \in BOOLEAN
BY DEF PatchTypeOK, Asked

-----------------------------------------------------------------------------
(* The steps *)

LEMMA PatchesInitial == PatchesInit /\ PatchAssumption => PatchInv
<1>. SUFFICES ASSUME PatchesInit PROVE PatchInv
  BY PatchAssumption
<1>1. NoScreen \in Seq(Ls) /\ << >> \in Seq(Messages) /\ Len(<< >>) = 0
  BY DEF NoScreen
<1>2. <<Prompt>> \in Captures
  BY DEF Captures, Ls, NoScreen
<1>3. screens \in Seq(Captures) /\ Len(screens) = 1
  BY <1>2 DEF PatchesInit
<1>4. Off \in [on : BOOLEAN, base : Seq(Ls), waiting : BOOLEAN]
  BY <1>1 DEF Off
<1>5. PatchTypeOK
  BY <1>1, <1>3, <1>4, PatchAssumption DEF PatchesInit, PatchTypeOK
<1>6. ASSUME NEW v \in Viewers PROVE ViewerOK(v)
  <2>1. /\ wire[v] = << >> /\ browser[v].screen = 0 /\ ~stream[v].on
        /\ 1 .. Len(wire[v]) = {}
    BY <1>1 DEF PatchesInit, Off
  <2>. QED
    BY <1>3, <2>1 DEF ViewerOK, ScreensExist, NoneLater, WireIsChain, InOrder, BaseIsLast
<1>7. requests = {}
  BY DEF PatchesInit
<1>. QED
  BY <1>5, <1>6, <1>7 DEF PatchInv

LEMMA ScrollKeeps == ASSUME PatchInv, Scroll PROVE PatchInv'
<1>. DEFINE kept == IF Len(Current) < Window THEN Current ELSE Tail(Current)
<1>1. PICK screen \in {Append(kept, line) : line \in Lines} \cup {<<Prompt>>} :
          screens' = Append(screens, screen)
  BY DEF Scroll
<1>2. screens \in Seq(Captures) /\ Len(screens) >= 1 /\ Len(screens) \in Nat
  BY DEF PatchInv, PatchTypeOK
<1>3. Current \in Seq(Ls) /\ Current # << >>
  <2>1. Current \in Captures
    BY <1>2 DEF Current
  <2>. QED
    BY <2>1 DEF Captures, NoScreen
<1>4. kept \in Seq(Ls)
  BY <1>3
<1>5. screen \in Captures
  <2>. HIDE DEF kept
  <2>1. CASE screen = <<Prompt>>
    BY <2>1 DEF Captures, Ls, NoScreen
  <2>2. ASSUME NEW line \in Lines, screen = Append(kept, line) PROVE screen \in Captures
    <3>1. Append(kept, line) \in Seq(Ls) /\ Len(Append(kept, line)) = Len(kept) + 1
          /\ Len(kept) \in Nat
      BY <1>4 DEF Ls
    <3>2. Append(kept, line) # << >>
      BY <3>1
    <3>. QED
      BY <2>2, <3>1, <3>2 DEF Captures, NoScreen
  <2>. QED
    BY <1>1, <2>1, <2>2
<1>6. screens' \in Seq(Captures) /\ Len(screens') = Len(screens) + 1
      /\ \A n \in 1 .. Len(screens) : screens'[n] = screens[n]
  BY <1>1, <1>2, <1>5
<1>7. ScreensGrow
  BY <1>2, <1>6 DEF ScreensGrow
<1>8. PatchTypeOK'
  BY <1>2, <1>6 DEF PatchInv, PatchTypeOK, Scroll
<1>. QED
  BY <1>7, <1>8, ViewerLeftAlone, RequestLeftAlone DEF PatchInv, Scroll

\* The new socket: nothing on the way is of it.
LEMMA OpenKeeps == ASSUME PatchInv, NEW v \in Viewers, Open(v) PROVE PatchInv'
<1>1. PatchTypeOK
  BY DEF PatchInv
<1>2. NoScreen \in Seq(Ls)
  BY DEF NoScreen
<1>3. /\ socket'[v] = [up |-> TRUE, count |-> socket[v].count + 1]
      /\ stream'[v] = [on |-> TRUE, base |-> NoScreen, waiting |-> FALSE]
      /\ \A w \in Viewers \ {v} : socket'[w] = socket[w] /\ stream'[w] = stream[w]
      /\ UNCHANGED <<relayed, screens, browser, wire, requests, cache>>
  BY <1>1 DEF PatchTypeOK, Open, Off
<1>4. PatchTypeOK'
  <2>1. socket' \in [Viewers -> [up : BOOLEAN, count : Nat]]
    BY <1>1 DEF PatchTypeOK, Open
  <2>2. stream' \in [Viewers -> [on : BOOLEAN, base : Seq(Ls), waiting : BOOLEAN]]
    BY <1>1, <1>2 DEF PatchTypeOK, Open, Off
  <2>. QED
    BY <1>1, <1>3, <2>1, <2>2 DEF PatchTypeOK
<1>5. ScreensGrow
  BY <1>1, <1>3, ScreensStay
<1>6. ViewerOK(v)'
  <2>1. ScreensExist(v)'
    BY <1>3 DEF PatchInv, ViewerOK, ScreensExist
  <2>2. \A i \in 1 .. Len(wire[v]) :
            wire[v][i].socket < socket'[v].count /\ wire[v][i].socket \in Nat
    BY <1>1, <1>3, PatchTyped DEF PatchInv, ViewerOK, NoneLater
  <2>3. NoneLater(v)' /\ (\A i \in 1 .. Len(wire[v]) : ~OfNow(v, wire[v][i]))'
    <3>1. socket'[v].count \in Nat /\ wire' = wire
      BY <1>1, <1>3, PatchTyped
    <3>. QED
      BY <2>2, <3>1 DEF NoneLater, OfNow
  <2>. QED
    BY <1>3, <2>1, <2>3 DEF ViewerOK, WireIsChain, InOrder, BaseIsLast
<1>7. \A w \in Viewers : ViewerOK(w)'
  BY <1>1, <1>3, <1>5, <1>6, ViewerLeftAlone DEF PatchInv
<1>8. ASSUME NEW r \in requests' PROVE AskedIsNow(r)'
  <2>1. r \in requests /\ r.viewer \in Viewers /\ AskedIsNow(r)
    BY <1>1, <1>3, AskedTyped DEF PatchInv
  <2>2. CASE r.viewer = v
    <3>1. ~stream[v].on
      BY DEF Open, PatchInv, ViewerOK, BaseIsLast
    <3>2. r.late
      BY <2>1, <2>2, <3>1 DEF AskedIsNow
    <3>. QED
      BY <1>3, <2>1, <3>2 DEF AskedIsNow
  <2>3. CASE r.viewer # v
    BY <1>1, <1>3, <1>5, <2>1, <2>3, RequestLeftAlone
  <2>. QED
    BY <2>2, <2>3
<1>. QED
  BY <1>4, <1>7, <1>8 DEF PatchInv

\* What is abandoned is late, and otherwise what it was.
LEMMA AbandonIs ==
    ASSUME PatchInv, NEW v \in Viewers, UNCHANGED <<relayed, screens, browser>>,
           requests' = Abandon(v),
           \A w \in Viewers \ {v} :
               /\ socket'[w] = socket[w] /\ wire'[w] = wire[w] /\ stream'[w] = stream[w]
    PROVE  /\ requests' \subseteq Asked
           /\ \A r \in requests' : AskedIsNow(r)'
<1>1. PatchTypeOK
  BY DEF PatchInv
<1>2. ASSUME NEW q \in requests' PROVE q \in Asked /\ AskedIsNow(q)'
  <2>1. PICK r \in requests : q = IF r.viewer = v THEN [r EXCEPT !.late = TRUE] ELSE r
    BY <1>2 DEF Abandon
  <2>2. r \in Asked /\ r.viewer \in Viewers /\ AskedIsNow(r)
    BY <1>1, AskedTyped DEF PatchInv
  <2>3. CASE r.viewer = v
    <3>1. q = [r EXCEPT !.late = TRUE]
      BY <2>1, <2>3
    <3>2. q \in Asked /\ q.seen = r.seen /\ q.late
      BY <2>2, <3>1 DEF Asked
    <3>. QED
      BY <2>2, <3>2 DEF AskedIsNow
  <2>4. CASE r.viewer # v
    <3>1. q = r
      BY <2>1, <2>4
    <3>2. r.late => AskedIsNow(r)'
      BY <2>2 DEF AskedIsNow
    <3>3. ASSUME ~r.late PROVE AskedIsNow(r)'
      <4>1. ASSUME NEW o \in requests', o.viewer = r.viewer, ~o.late PROVE o = r
        <5>1. PICK p \in requests : o = IF p.viewer = v THEN [p EXCEPT !.late = TRUE] ELSE p
          BY <4>1 DEF Abandon
        <5>2. p \in Asked
          BY <1>1, AskedTyped
        <5>3. p.viewer # v
          BY <4>1, <5>1, <5>2 DEF Asked
        <5>. QED
          BY <2>2, <3>3, <4>1, <5>1, <5>3 DEF AskedIsNow, AskedOnce
      <4>2. AskedOnce(r)'
        BY <4>1 DEF AskedOnce
      <4>. QED
        BY <2>2, <2>4, <3>3, <4>2 DEF AskedIsNow, NotOlder, OfNow
    <3>. QED
      BY <2>2, <3>1, <3>2, <3>3
  <2>. QED
    BY <2>3, <2>4
<1>. QED
  BY <1>2

LEMMA CloseKeeps == ASSUME PatchInv, NEW v \in Viewers, Close(v) PROVE PatchInv'
<1>1. PatchTypeOK
  BY DEF PatchInv
<1>2. NoScreen \in Seq(Ls)
  BY DEF NoScreen
<1>3. /\ socket'[v] = [up |-> FALSE, count |-> socket[v].count]
      /\ stream'[v] = [on |-> FALSE, base |-> NoScreen, waiting |-> FALSE]
      /\ \A w \in Viewers \ {v} : socket'[w] = socket[w] /\ stream'[w] = stream[w]
      /\ UNCHANGED <<relayed, screens, browser, wire, cache>> /\ requests' = Abandon(v)
  BY <1>1 DEF PatchTypeOK, Close, Off
<1>4. PatchTypeOK'
  <2>1. socket' \in [Viewers -> [up : BOOLEAN, count : Nat]]
    BY <1>1 DEF PatchTypeOK, Close
  <2>2. stream' \in [Viewers -> [on : BOOLEAN, base : Seq(Ls), waiting : BOOLEAN]]
    BY <1>1, <1>2 DEF PatchTypeOK, Close, Off
  <2>3. requests' \subseteq Asked
    BY <1>3, AbandonIs
  <2>. QED
    BY <1>1, <1>3, <2>1, <2>2, <2>3 DEF PatchTypeOK
<1>5. ViewerOK(v)'
  BY <1>3 DEF PatchInv, ViewerOK, ScreensExist, NoneLater, WireIsChain, InOrder, BaseIsLast
<1>6. \A w \in Viewers : ViewerOK(w)'
  BY <1>1, <1>3, <1>5, ScreensStay, ViewerLeftAlone DEF PatchInv
<1>. QED
  BY <1>3, <1>4, <1>6, AbandonIs DEF PatchInv

LEMMA StreamEndsKeeps == ASSUME PatchInv, NEW v \in Viewers, StreamEnds(v) PROVE PatchInv'
<1>1. PatchTypeOK
  BY DEF PatchInv
<1>2. NoScreen \in Seq(Ls)
  BY DEF NoScreen
<1>3. PICK n \in 0 .. Len(wire[v]) : wire' = [wire EXCEPT ![v] = SubSeq(wire[v], 1, n)]
  BY DEF StreamEnds
<1>4. /\ stream'[v] = [on |-> FALSE, base |-> NoScreen, waiting |-> FALSE]
      /\ \A w \in Viewers \ {v} : wire'[w] = wire[w] /\ stream'[w] = stream[w]
      /\ UNCHANGED <<relayed, screens, socket, browser, cache>> /\ requests' = Abandon(v)
  BY <1>1, <1>3 DEF PatchTypeOK, StreamEnds, Off
<1>5. /\ wire'[v] \in Seq(Messages) /\ Len(wire'[v]) = n /\ n \in Nat /\ n =< Len(wire[v])
      /\ \A i \in 1 .. n : wire'[v][i] = wire[v][i]
      /\ Len(wire[v]) \in Nat
  <2>1. wire[v] \in Seq(Messages) /\ wire'[v] = SubSeq(wire[v], 1, n)
    BY <1>1, <1>3 DEF PatchTypeOK
  <2>. QED
    BY <2>1
<1>6. PatchTypeOK'
  <2>1. wire' \in [Viewers -> Seq(Messages)]
    BY <1>1, <1>3, <1>5 DEF PatchTypeOK
  <2>2. stream' \in [Viewers -> [on : BOOLEAN, base : Seq(Ls), waiting : BOOLEAN]]
    BY <1>1, <1>2 DEF PatchTypeOK, StreamEnds, Off
  <2>3. requests' \subseteq Asked
    BY <1>4, AbandonIs
  <2>. QED
    BY <1>1, <1>4, <2>1, <2>2, <2>3 DEF PatchTypeOK
<1>7. ViewerOK(v)'
  <2>1. ScreensExist(v)' /\ NoneLater(v)' /\ BaseIsLast(v)'
    BY <1>4, <1>5, SMTT(60) DEF PatchInv, ViewerOK, ScreensExist, NoneLater, BaseIsLast
  <2>2. InOrder(v)'
    <3>1. \A i \in 1 .. n : i \in 1 .. Len(wire[v])
      BY <1>5
    <3>. QED
      BY <1>4, <1>5, <3>1, SMTT(60) DEF PatchInv, ViewerOK, InOrder, OfNow
  <2>3. WireIsChain(v)'
    <3>1. \A i \in 1 .. n : i \in 1 .. Len(wire[v]) /\ (i > 1 => i - 1 \in 1 .. n)
      BY <1>5
    <3>2. \A i \in 1 .. n : Suits(v, i) => Suits(v, i)'
      BY <1>4, <1>5, <3>1 DEF Suits, Whole, OfNow
    <3>. QED
      BY <1>4, <1>5, <3>1, <3>2 DEF PatchInv, ViewerOK, WireIsChain, OfNow
  <2>. QED
    BY <2>1, <2>2, <2>3 DEF ViewerOK
<1>8. \A w \in Viewers : ViewerOK(w)'
  BY <1>1, <1>4, <1>7, ScreensStay, ViewerLeftAlone DEF PatchInv
<1>. QED
  BY <1>4, <1>6, <1>8, AbandonIs DEF PatchInv

\* What is applied is the screen it came from.
LEMMA OnMessageShows ==
    ASSUME PatchInv, NEW v \in Viewers, OnMessage(v), OfNow(v, Head(wire[v])), socket[v].up
    PROVE  /\ browser'[v].lines = screens[Head(wire[v]).screen]
           /\ browser'[v].screen = Head(wire[v]).screen
           /\ browser[v].screen =< browser'[v].screen
<1>1. PatchTypeOK
  BY DEF PatchInv
<1>2. /\ wire[v] \in Seq(Messages) /\ wire[v] # << >> /\ Head(wire[v]) = wire[v][1]
      /\ 1 \in 1 .. Len(wire[v])
  BY <1>1 DEF PatchTypeOK, OnMessage
<1>. DEFINE m == wire[v][1]
<1>3. Suits(v, 1) /\ browser[v].screen =< m.screen /\ m.screen \in 1 .. Len(screens)
  BY <1>2 DEF PatchInv, ViewerOK, WireIsChain, InOrder, ScreensExist
<1>4. Patched(browser[v].lines, m.patch) = screens[m.screen]
  <2>1. CASE Whole(m)
    BY <1>1, <1>3, <2>1, PatchTyped, WholeSuits DEF Whole
  <2>2. CASE ~Whole(m)
    BY <1>3, <2>2 DEF Suits
  <2>. QED
    BY <2>1, <2>2
<1>5. browser'[v] = [lines |-> Patched(browser[v].lines, m.patch), screen |-> m.screen]
  BY <1>1, <1>2 DEF PatchTypeOK, OnMessage, OfNow
<1>. QED
  BY <1>2, <1>3, <1>4, <1>5

LEMMA OnMessageKeeps == ASSUME PatchInv, NEW v \in Viewers, OnMessage(v) PROVE PatchInv'
<1>. DEFINE m == Head(wire[v])
            applied == socket[v].up /\ OfNow(v, m)
<1>1. PatchTypeOK
  BY DEF PatchInv
<1>2. /\ wire[v] # << >> /\ wire' = [wire EXCEPT ![v] = Tail(wire[v])]
      /\ browser' = IF applied
                    THEN [browser EXCEPT ![v] = [lines |-> Patched(browser[v].lines, m.patch),
                                                 screen |-> m.screen]]
                    ELSE browser
      /\ UNCHANGED <<relayed, screens, socket, stream, requests, cache>>
  BY DEF OnMessage, OfNow
<1>3. /\ wire[v] \in Seq(Messages) /\ m = wire[v][1] /\ 1 \in 1 .. Len(wire[v])
      /\ Len(wire[v]) \in Nat
  BY <1>1, <1>2 DEF PatchTypeOK
<1>4. /\ wire'[v] = Tail(wire[v]) /\ wire'[v] \in Seq(Messages)
      /\ Len(wire'[v]) = Len(wire[v]) - 1
      /\ \A i \in 1 .. Len(wire'[v]) : wire'[v][i] = wire[v][i + 1] /\ i + 1 \in 1 .. Len(wire[v])
      /\ \A w \in Viewers \ {v} : wire'[w] = wire[w] /\ browser'[w] = browser[w]
  <2>1. wire'[v] = Tail(wire[v]) /\ \A w \in Viewers \ {v} : wire'[w] = wire[w]
    BY <1>1, <1>2 DEF PatchTypeOK
  <2>2. \A w \in Viewers \ {v} : browser'[w] = browser[w]
    BY <1>1, <1>2 DEF PatchTypeOK
  <2>3. /\ Tail(wire[v]) \in Seq(Messages) /\ Len(Tail(wire[v])) = Len(wire[v]) - 1
        /\ \A i \in 1 .. Len(wire[v]) - 1 : Tail(wire[v])[i] = wire[v][i + 1]
    BY <1>2, <1>3
  <2>. QED
    BY <1>3, <2>1, <2>2, <2>3
<1>5. applied => /\ browser'[v].lines = screens[m.screen] /\ browser'[v].screen = m.screen
                 /\ browser[v].screen =< m.screen /\ m.screen \in 1 .. Len(screens)
  <2>1. m.screen \in 1 .. Len(screens)
    BY <1>3 DEF PatchInv, ViewerOK, ScreensExist
  <2>. QED
    BY <2>1, OnMessageShows
<1>6. ~applied => browser' = browser
  BY <1>2
<1>. HIDE DEF m
<1>7. PatchTypeOK'
  <2>1. wire' \in [Viewers -> Seq(Messages)]
    <3>1. Tail(wire[v]) \in Seq(Messages)
      BY <1>4
    <3>. QED
      BY <1>1, <1>2, <3>1 DEF PatchTypeOK
  <2>2. browser' \in [Viewers -> [lines : Seq(Ls), screen : Nat]]
    <3>1. CASE applied
      <4>1. browser'[v] = [lines |-> Patched(browser[v].lines, m.patch), screen |-> m.screen]
        BY <1>1, <1>2, <3>1 DEF PatchTypeOK
      <4>2. browser'[v].lines \in Seq(Ls) /\ browser'[v].screen \in Nat
        BY <1>1, <1>5, <3>1, PatchTyped
      <4>3. browser'[v] \in [lines : Seq(Ls), screen : Nat]
        BY <4>1, <4>2
      <4>. QED
        BY <1>1, <1>2, <3>1, <4>1, <4>3 DEF PatchTypeOK
    <3>2. CASE ~applied
      BY <1>1, <1>6, <3>2 DEF PatchTypeOK
    <3>. QED
      BY <3>1, <3>2
  <2>. QED
    BY <1>1, <1>2, <2>1, <2>2 DEF PatchTypeOK
<1>8. browser[v].screen =< browser'[v].screen /\ browser'[v].screen =< Len(screens)
      /\ browser[v].screen \in Nat /\ browser'[v].screen \in Nat /\ Len(screens) \in Nat
  BY <1>1, <1>5, <1>6, PatchTyped DEF PatchInv, ViewerOK, ScreensExist
<1>9. ScreensExist(v)' /\ NoneLater(v)'
  <2>1. ScreensExist(v)'
    BY <1>2, <1>4, <1>8 DEF PatchInv, ViewerOK, ScreensExist
  <2>2. NoneLater(v)'
    BY <1>2, <1>4 DEF PatchInv, ViewerOK, NoneLater
  <2>. QED
    BY <2>1, <2>2
\* What is still to come is not older than what was applied.
<1>10. InOrder(v)'
  <2>1. SUFFICES ASSUME socket[v].up, NEW i \in 1 .. Len(wire'[v]), OfNow(v, wire[v][i + 1])
                 PROVE  /\ browser'[v].screen =< wire[v][i + 1].screen
                        /\ \A k \in 1 .. Len(wire'[v]) :
                             i < k /\ OfNow(v, wire[v][k + 1]) =>
                                 wire[v][i + 1].screen =< wire[v][k + 1].screen
    <3>1. SUFFICES ASSUME socket'[v].up, NEW i \in 1 .. Len(wire'[v]),
                          wire'[v][i].socket = socket'[v].count
                   PROVE  /\ browser'[v].screen =< wire'[v][i].screen
                          /\ \A k \in 1 .. Len(wire'[v]) :
                               i < k /\ wire'[v][k].socket = socket'[v].count =>
                                   wire'[v][i].screen =< wire'[v][k].screen
      BY DEF InOrder, OfNow
    <3>2. /\ \A k \in 1 .. Len(wire'[v]) : wire'[v][k] = wire[v][k + 1]
          /\ socket'[v] = socket[v]
      BY <1>2, <1>4
    <3>3. socket[v].up /\ OfNow(v, wire[v][i + 1])
      BY <3>1, <3>2 DEF OfNow
    <3>. QED
      BY <3>2, <3>3 DEF OfNow
  <2>2. i + 1 \in 1 .. Len(wire[v]) /\ 1 < i + 1
    BY <1>3, <1>4
  <2>3. browser[v].screen =< wire[v][i + 1].screen
    BY <2>1, <2>2 DEF PatchInv, ViewerOK, InOrder
  <2>4. applied => m.screen =< wire[v][i + 1].screen
    BY <1>3, <2>1, <2>2 DEF PatchInv, ViewerOK, InOrder
  <2>5. \A k \in 1 .. Len(wire'[v]) :
            i < k /\ OfNow(v, wire[v][k + 1]) => wire[v][i + 1].screen =< wire[v][k + 1].screen
    <3>1. \A k \in 1 .. Len(wire'[v]) : i < k => k + 1 \in 1 .. Len(wire[v]) /\ i + 1 < k + 1
      BY <1>3, <1>4
    <3>. QED
      BY <2>1, <2>2, <3>1 DEF PatchInv, ViewerOK, InOrder
  <2>6. browser'[v].screen =< wire[v][i + 1].screen
    <3>1. CASE applied
      BY <1>5, <2>4, <3>1
    <3>2. CASE ~applied
      BY <1>6, <2>3, <3>2
    <3>. QED
      BY <3>1, <3>2
  <2>. QED
    BY <2>5, <2>6
\* The next is against the screen that is shown now.
<1>11. WireIsChain(v)'
  <2>1. SUFFICES ASSUME socket[v].up, NEW i \in 1 .. Len(wire'[v]), OfNow(v, wire[v][i + 1])
                 PROVE  Suits(v, i)'
    BY <1>2, <1>4 DEF WireIsChain, OfNow
  <2>2. /\ i + 1 \in 1 .. Len(wire[v]) /\ i \in Nat /\ i + 1 > 1 /\ (i + 1) - 1 = i
        /\ (i > 1 => i - 1 \in 1 .. Len(wire'[v]) /\ (i - 1) + 1 = i)
    BY <1>3, <1>4, SMTT(60)
  <2>3. Suits(v, i + 1)
    BY <2>1, <2>2 DEF PatchInv, ViewerOK, WireIsChain
  <2>4. wire'[v][i] = wire[v][i + 1]
    BY <1>4
  <2>5. CASE Whole(wire[v][i + 1])
    BY <1>2, <2>4, <2>5 DEF Suits, Whole
  <2>6. CASE ~Whole(wire[v][i + 1])
    <3>1. /\ OfNow(v, wire[v][i])
          /\ Patched(screens[wire[v][i].screen], wire[v][i + 1].patch)
               = screens[wire[v][i + 1].screen]
      BY <2>2, <2>3, <2>6 DEF Suits
    <3>2. CASE i = 1
      <4>1. applied /\ browser'[v].lines = screens[wire[v][1].screen]
        BY <1>3, <1>5, <2>1, <3>1, <3>2
      <4>2. Patched(browser'[v].lines, wire'[v][i].patch) = screens'[wire'[v][i].screen]
        BY <1>2, <2>4, <3>1, <3>2, <4>1
      <4>. QED
        BY <3>2, <4>2 DEF Suits
    <3>3. CASE i # 1
      <4>1. i > 1 /\ wire'[v][i - 1] = wire[v][i]
        BY <1>4, <2>2, <3>3
      <4>2. wire'[v][i - 1].socket = socket'[v].count
        BY <1>2, <3>1, <4>1 DEF OfNow
      <4>3. Patched(screens'[wire'[v][i - 1].screen], wire'[v][i].patch)
              = screens'[wire'[v][i].screen]
        BY <1>2, <2>4, <3>1, <4>1
      <4>. QED
        BY <4>1, <4>2, <4>3 DEF Suits, OfNow
    <3>. QED
      BY <3>2, <3>3
  <2>. QED
    BY <2>5, <2>6
<1>12. BaseIsLast(v)'
  <2>1. SUFFICES ASSUME stream[v].on PROVE BaseIsLast(v)'
    BY <1>2 DEF BaseIsLast
  <2>2. BaseIsLast(v) /\ socket[v].up
    BY <2>1 DEF PatchInv, ViewerOK, BaseIsLast
  <2>3. CASE stream[v].base = NoScreen
    BY <1>2, <1>4, <2>1, <2>2, <2>3 DEF BaseIsLast, OfNow
  <2>4. CASE stream[v].base # NoScreen
    <3>1. /\ OfNow(v, wire[v][Len(wire[v])])
          /\ screens[wire[v][Len(wire[v])].screen] = stream[v].base
      BY <1>2, <2>1, <2>2, <2>4 DEF BaseIsLast
    <3>2. CASE Len(wire[v]) = 1
      <4>1. wire'[v] = << >>
        BY <1>3, <1>4, <3>2
      <4>2. browser'[v].lines = stream[v].base
        BY <1>3, <1>5, <2>2, <3>1, <3>2
      <4>. QED
        BY <1>2, <2>1, <2>2, <2>4, <4>1, <4>2 DEF BaseIsLast
    <3>3. CASE Len(wire[v]) # 1
      <4>. DEFINE left == Len(wire'[v])
      <4>0. left = Len(wire[v]) - 1
        BY <1>4
      <4>. DEFINE len == Len(wire[v])
      <4>5. len \in Nat /\ 1 \in 1 .. len /\ len # 1 /\ left = len - 1
        BY <1>3, <3>3, <4>0
      <4>. HIDE DEF left, len
      <4>1. left \in 1 .. left /\ left + 1 = len /\ left # 0
        BY <4>5
      <4>3. wire'[v] # << >>
        BY <4>1 DEF left
      <4>2. wire'[v][Len(wire'[v])] = wire[v][Len(wire[v])]
        BY <1>4, <4>1 DEF left, len
      <4>. QED
        BY <1>2, <2>1, <2>2, <2>4, <3>1, <4>2, <4>3 DEF BaseIsLast, OfNow
    <3>. QED
      BY <3>2, <3>3
  <2>. QED
    BY <2>3, <2>4
<1>13. \A w \in Viewers : ViewerOK(w)'
  <2>1. ViewerOK(v)'
    BY <1>9, <1>10, <1>11, <1>12 DEF ViewerOK
  <2>2. \A w \in Viewers \ {v} : ViewerOK(w)'
    BY <1>1, <1>2, <1>4, ScreensStay, ViewerLeftAlone DEF PatchInv
  <2>. QED
    BY <2>1, <2>2
<1>14. ASSUME NEW r \in requests' PROVE AskedIsNow(r)'
  <2>1. r \in requests /\ r.viewer \in Viewers /\ AskedIsNow(r) /\ r.seen \in Nat
    BY <1>1, <1>2, <1>14, AskedTyped DEF PatchInv
  <2>2. CASE r.viewer # v
    BY <1>1, <1>2, <1>4, <2>1, <2>2, ScreensStay, RequestLeftAlone
  <2>3. CASE r.viewer = v
    <3>1. ~r.late /\ r.seen # 0 => NotOlder(v, r.seen)
      BY <2>1, <2>3 DEF AskedIsNow
    <3>2. ~r.late /\ r.seen # 0 => NotOlder(v, r.seen)'
      <4>1. SUFFICES ASSUME NotOlder(v, r.seen) PROVE NotOlder(v, r.seen)'
        BY <3>1
      <4>2. browser'[v].screen =< r.seen
        BY <1>3, <1>5, <1>6, <4>1 DEF NotOlder
      <4>. QED
        BY <1>2, <1>4, <4>1, <4>2 DEF NotOlder, OfNow
    <3>. QED
      BY <1>2, <2>1, <2>3, <3>2 DEF AskedIsNow, AskedOnce
  <2>. QED
    BY <2>2, <2>3
<1>. QED
  BY <1>7, <1>13, <1>14 DEF PatchInv

\* A patch against the base, or a whole screen, may be added to the chain.
LEMMA SendKeeps ==
    ASSUME PatchInv, NEW v \in Viewers, NEW patch \in Patches, NEW n \in 1 .. Len(screens),
           Send(v, patch, n), stream[v].on, NotOlder(v, n),
           \/ patch = [drop |-> 0, from |-> 0, lines |-> screens[n]]
           \/ stream[v].base # NoScreen /\ Patched(stream[v].base, patch) = screens[n],
           UNCHANGED <<screens, socket, browser>>,
           stream'[v].on, stream'[v].base = screens[n]
    PROVE  /\ ViewerOK(v)' /\ wire' \in [Viewers -> Seq(Messages)]
           /\ \A w \in Viewers \ {v} : wire'[w] = wire[w]
<1>. DEFINE m == [socket |-> socket[v].count, patch |-> patch, screen |-> n]
            last == Len(wire[v])
<1>1. PatchTypeOK
  BY DEF PatchInv
<1>2. wire' = [wire EXCEPT ![v] = Append(wire[v], m)]
  BY DEF Send
<1>3. m \in Messages /\ wire[v] \in Seq(Messages) /\ last \in Nat /\ n \in Nat
  <2>1. /\ socket[v].count \in Nat /\ wire[v] \in Seq(Messages) /\ last \in Nat
        /\ Len(screens) \in Nat
    BY <1>1, PatchTyped
  <2>2. n \in Nat
    BY <2>1
  <2>. QED
    BY <2>1, <2>2 DEF Messages
<1>4. /\ m.socket = socket[v].count /\ m.patch = patch /\ m.screen = n
  OBVIOUS
<1>. HIDE DEF m
<1>5. /\ wire'[v] = Append(wire[v], m) /\ Append(wire[v], m) \in Seq(Messages)
      /\ Len(wire'[v]) = last + 1 /\ wire'[v][last + 1] = m
      /\ \A i \in 1 .. last : wire'[v][i] = wire[v][i]
      /\ \A w \in Viewers \ {v} : wire'[w] = wire[w]
  BY <1>1, <1>2, <1>3 DEF PatchTypeOK
<1>6. wire' \in [Viewers -> Seq(Messages)]
  BY <1>1, <1>2, <1>5 DEF PatchTypeOK
<1>7. \A i \in 1 .. last + 1 : i = last + 1 \/ i \in 1 .. last
  BY <1>3
<1>8. ViewerOK(v) /\ socket[v].up
  BY DEF PatchInv, ViewerOK, BaseIsLast
<1>9. ScreensExist(v)'
  BY <1>4, <1>5, <1>7, <1>8 DEF ViewerOK, ScreensExist
<1>10. NoneLater(v)'
  BY <1>1, <1>4, <1>5, <1>7, <1>8, PatchTyped DEF ViewerOK, NoneLater
<1>11. InOrder(v)'
  <2>1. SUFFICES ASSUME NEW i \in 1 .. last + 1, OfNow(v, wire'[v][i])
                 PROVE  /\ browser[v].screen =< wire'[v][i].screen
                        /\ \A k \in 1 .. last + 1 :
                             i < k /\ OfNow(v, wire'[v][k]) =>
                                 wire'[v][i].screen =< wire'[v][k].screen
    BY <1>5 DEF InOrder, OfNow
  <2>2. CASE i = last + 1
    <3>1. \A k \in 1 .. last + 1 : ~(i < k)
      BY <1>3, <2>2
    <3>. QED
      BY <1>4, <1>5, <2>2, <3>1 DEF NotOlder
  <2>3. CASE i \in 1 .. last
    <3>1. OfNow(v, wire[v][i]) /\ wire'[v][i] = wire[v][i]
      BY <1>5, <2>1, <2>3
    <3>2. browser[v].screen =< wire[v][i].screen
      BY <1>8, <2>3, <3>1 DEF ViewerOK, InOrder
    <3>3. ASSUME NEW k \in 1 .. last + 1, i < k, OfNow(v, wire'[v][k])
          PROVE  wire[v][i].screen =< wire'[v][k].screen
      <4>1. CASE k = last + 1
        BY <1>4, <1>5, <2>3, <3>1, <4>1 DEF NotOlder
      <4>2. CASE k \in 1 .. last
        BY <1>5, <1>8, <2>3, <3>1, <3>3, <4>2 DEF ViewerOK, InOrder
      <4>. QED
        BY <1>7, <4>1, <4>2
    <3>. QED
      BY <3>1, <3>2, <3>3
  <2>. QED
    BY <1>7, <2>2, <2>3
<1>12. WireIsChain(v)'
  <2>1. SUFFICES ASSUME NEW i \in 1 .. last + 1, OfNow(v, wire'[v][i])
                 PROVE  Suits(v, i)'
    BY <1>5 DEF WireIsChain, OfNow
  <2>2. CASE i \in 1 .. last
    <3>1. wire'[v][i] = wire[v][i] /\ (i > 1 => i - 1 \in 1 .. last)
      BY <1>3, <1>5, <2>2
    <3>2. Suits(v, i)
      BY <1>8, <2>1, <2>2, <3>1 DEF ViewerOK, WireIsChain
    <3>. QED
      BY <1>5, <3>1, <3>2 DEF Suits, Whole, OfNow
  <2>3. CASE i = last + 1
    <3>1. wire'[v][i] = m
      BY <1>5, <2>3
    <3>2. CASE patch = [drop |-> 0, from |-> 0, lines |-> screens[n]]
      BY <1>4, <3>1, <3>2 DEF Suits, Whole
    <3>3. CASE stream[v].base # NoScreen /\ Patched(stream[v].base, patch) = screens[n]
      <4>1. CASE wire[v] = << >>
        <5>1. browser[v].lines = stream[v].base
          BY <1>8, <3>3, <4>1 DEF ViewerOK, BaseIsLast
        <5>2. i = 1
          BY <2>3, <4>1
        <5>. QED
          BY <1>4, <3>1, <3>3, <5>1, <5>2 DEF Suits
      <4>2. CASE wire[v] # << >>
        <5>1. OfNow(v, wire[v][last]) /\ screens[wire[v][last].screen] = stream[v].base
          BY <1>8, <3>3, <4>2 DEF ViewerOK, BaseIsLast
        <5>2. i > 1 /\ i - 1 = last /\ last \in 1 .. last
          BY <1>3, <2>3, <4>2
        <5>3. wire'[v][i - 1] = wire[v][last]
          BY <1>5, <5>2
        <5>. QED
          BY <1>4, <3>1, <3>3, <5>1, <5>2, <5>3 DEF Suits, OfNow
      <4>. QED
        BY <4>1, <4>2
    <3>. QED
      BY <3>2, <3>3
  <2>. QED
    BY <1>7, <2>2, <2>3
<1>13. BaseIsLast(v)'
  <2>1. wire'[v] # << >>
    BY <1>3, <1>5
  <2>2. screens[n] # NoScreen
    BY <1>1, PatchTyped
  <2>. QED
    BY <1>4, <1>5, <1>8, <2>1, <2>2 DEF BaseIsLast, OfNow
<1>. QED
  BY <1>5, <1>6, <1>9, <1>10, <1>11, <1>12, <1>13 DEF ViewerOK

LEMMA PushKeeps == ASSUME PatchInv, NEW v \in Viewers, Push(v) PROVE PatchInv'
<1>. DEFINE n == Len(screens)
            shift == v \notin OldViewers
            patch == LinePatch(stream[v].base, Current, shift)
<1>1. PatchTypeOK
  BY DEF PatchInv
<1>2. /\ Current = screens[n] /\ n \in 1 .. n /\ n \in Nat /\ Current \in Seq(Ls)
      /\ stream[v].base \in Seq(Ls)
  BY <1>1, PatchTyped DEF Current
<1>3. /\ Send(v, patch, n) /\ stream[v].on
      /\ stream' = [stream EXCEPT ![v].base = Current]
      /\ UNCHANGED <<relayed, screens, socket, browser, requests, cache>>
  BY DEF Push
<1>4. /\ stream'[v].on /\ stream'[v].base = screens[n]
      /\ \A w \in Viewers \ {v} : stream'[w] = stream[w]
      /\ stream' \in [Viewers -> [on : BOOLEAN, base : Seq(Ls), waiting : BOOLEAN]]
  BY <1>1, <1>2, <1>3 DEF PatchTypeOK
<1>5. NotOlder(v, n)
  BY <1>2 DEF PatchInv, ViewerOK, ScreensExist, NotOlder
<1>6. patch \in Patches /\ Patched(stream[v].base, patch) = screens[n]
  BY <1>2, LinePatchIs
<1>7. stream[v].base = NoScreen => patch = [drop |-> 0, from |-> 0, lines |-> screens[n]]
  BY <1>2, WholeIs
<1>. HIDE DEF patch, n
<1>8. /\ ViewerOK(v)' /\ wire' \in [Viewers -> Seq(Messages)]
      /\ \A w \in Viewers \ {v} : wire'[w] = wire[w]
  BY <1>2, <1>3, <1>4, <1>5, <1>6, <1>7, SendKeeps DEF n
<1>9. PatchTypeOK'
  BY <1>1, <1>3, <1>4, <1>8 DEF PatchTypeOK
<1>10. \A w \in Viewers : ViewerOK(w)'
  BY <1>1, <1>3, <1>4, <1>8, ScreensStay, ViewerLeftAlone DEF PatchInv
<1>11. ASSUME NEW r \in requests' PROVE AskedIsNow(r)'
  <2>1. r \in requests /\ r.viewer \in Viewers /\ AskedIsNow(r)
    BY <1>1, <1>3, <1>11, AskedTyped DEF PatchInv
  <2>2. CASE r.viewer # v
    BY <1>1, <1>3, <1>4, <1>8, <2>1, <2>2, ScreensStay, RequestLeftAlone
  <2>3. CASE r.viewer = v
    <3>1. r.late
      BY <2>1, <2>3 DEF AskedIsNow, Push
    <3>. QED
      BY <1>3, <2>1, <3>1 DEF AskedIsNow
  <2>. QED
    BY <2>2, <2>3
<1>. QED
  BY <1>9, <1>10, <1>11 DEF PatchInv

-----------------------------------------------------------------------------
(* The hub and the peer *)

\* Requests that leave viewers alone change only themselves.
LEMMA ViewersLeftAlone ==
    ASSUME PatchInv, UNCHANGED <<screens, socket, browser, wire>>,
           \A v \in Viewers : stream'[v].on = stream[v].on /\ stream'[v].base = stream[v].base
    PROVE  \A v \in Viewers : ViewerOK(v)'
BY ScreensStay, ViewerLeftAlone DEF PatchInv

LEMMA PollKeeps == ASSUME PatchInv, NEW v \in Viewers, Poll(v) PROVE PatchInv'
<1>. DEFINE new == [viewer |-> v, cursor |-> stream[v].base, seen |-> 0, late |-> FALSE]
<1>1. PatchTypeOK
  BY DEF PatchInv
<1>2. /\ v \in relayed /\ stream[v].on /\ ~stream[v].waiting
      /\ requests' = requests \cup {new}
      /\ stream' = [stream EXCEPT ![v].waiting = TRUE]
      /\ UNCHANGED <<relayed, screens, socket, browser, wire, cache>>
  BY DEF Poll
<1>3. /\ stream' \in [Viewers -> [on : BOOLEAN, base : Seq(Ls), waiting : BOOLEAN]]
      /\ \A w \in Viewers : stream'[w].on = stream[w].on /\ stream'[w].base = stream[w].base
      /\ stream'[v].waiting
      /\ \A w \in Viewers \ {v} : stream'[w] = stream[w]
  BY <1>1, <1>2 DEF PatchTypeOK
<1>4. PICK poll \in Asked : /\ poll = new /\ poll.viewer = v
                             /\ poll.cursor = stream[v].base
                             /\ poll.seen = 0 /\ ~poll.late
  <2>1. /\ new \in Asked /\ new.viewer = v /\ new.cursor = stream[v].base
        /\ new.seen = 0 /\ ~new.late
    BY <1>1, PatchTyped DEF Asked
  <2>. HIDE DEF new
  <2>. QED
    BY <2>1
<1>. HIDE DEF new
<1>5. PatchTypeOK'
  BY <1>1, <1>2, <1>3, <1>4 DEF PatchTypeOK
<1>6. \A w \in Viewers : ViewerOK(w)'
  BY <1>2, <1>3, ViewersLeftAlone
<1>7. \A r \in requests : r.viewer = v => r.late
  BY <1>2 DEF PatchInv, AskedIsNow
<1>8. AskedIsNow(poll)'
  <2>1. Len(screens) \in Nat
    BY <1>1 DEF PatchTypeOK
  <2>. QED
    BY <1>2, <1>3, <1>4, <1>7, <2>1 DEF AskedIsNow, AskedOnce
<1>9. ASSUME NEW r \in requests PROVE AskedIsNow(r)'
  <2>1. AskedIsNow(r) /\ r.viewer \in Viewers
    BY <1>1, AskedTyped DEF PatchInv
  <2>2. CASE r.viewer = v
    BY <1>2, <1>7, <2>1, <2>2 DEF AskedIsNow
  <2>3. CASE r.viewer # v
    <3>1. AskedOnce(r) => AskedOnce(r)'
      BY <1>2, <1>4, <2>3 DEF AskedOnce
    <3>. QED
      BY <1>2, <1>3, <2>1, <2>3, <3>1 DEF AskedIsNow, NotOlder, OfNow
  <2>. QED
    BY <2>2, <2>3
<1>. QED
  BY <1>2, <1>4, <1>5, <1>6, <1>8, <1>9 DEF PatchInv

LEMMA PeerCapturesKeeps ==
    ASSUME PatchInv, NEW r \in requests, PeerCaptures(r) PROVE PatchInv'
<1>. DEFINE new == [r EXCEPT !.seen = Len(screens)]
<1>1. PatchTypeOK
  BY DEF PatchInv
<1>2. /\ requests' = (requests \ {r}) \cup {new}
      /\ UNCHANGED <<relayed, screens, socket, browser, wire, stream, cache>>
  BY DEF PeerCaptures
<1>3. r \in Asked /\ r.viewer \in Viewers /\ Len(screens) \in Nat /\ AskedIsNow(r)
  BY <1>1, AskedTyped DEF PatchInv, PatchTypeOK
<1>4. PICK seen \in Asked : /\ seen = new /\ seen.viewer = r.viewer
                            /\ seen.cursor = r.cursor
                            /\ seen.seen = Len(screens) /\ seen.late = r.late
  <2>1. /\ new \in Asked /\ new.viewer = r.viewer /\ new.cursor = r.cursor
        /\ new.seen = Len(screens) /\ new.late = r.late
    BY <1>3 DEF Asked
  <2>. HIDE DEF new
  <2>. QED
    BY <2>1
<1>. HIDE DEF new
<1>5. PatchTypeOK'
  BY <1>1, <1>2, <1>4 DEF PatchTypeOK
<1>6. \A w \in Viewers : ViewerOK(w)'
  BY <1>2, ViewersLeftAlone
<1>7. AskedIsNow(seen)'
  <2>1. NotOlder(r.viewer, Len(screens))
    BY <1>3 DEF PatchInv, ViewerOK, ScreensExist, NotOlder
  <2>2. ~r.late => AskedOnce(seen)'
    BY <1>2, <1>3, <1>4 DEF AskedIsNow, AskedOnce
  <2>3. NotOlder(r.viewer, Len(screens))'
    BY <1>2, <2>1 DEF NotOlder, OfNow
  <2>. QED
    BY <1>2, <1>3, <1>4, <2>2, <2>3 DEF AskedIsNow
<1>8. ASSUME NEW q \in requests, q # r PROVE AskedIsNow(q)'
  <2>1. AskedIsNow(q)
    BY DEF PatchInv
  <2>2. ~q.late => AskedOnce(q)'
    BY <1>2, <1>3, <1>4, <1>8, <2>1 DEF AskedIsNow, AskedOnce
  <2>. QED
    BY <1>2, <2>1, <2>2 DEF AskedIsNow, NotOlder, OfNow
<1>. QED
  BY <1>2, <1>4, <1>5, <1>6, <1>7, <1>8 DEF PatchInv

\* Requests that went while the streams stay, but for that they wait.
LEMMA RequestsGo ==
    ASSUME PatchInv, NEW v \in Viewers, requests' \subseteq requests,
           UNCHANGED <<relayed, screens, socket, browser, wire>>,
           \A w \in Viewers : stream'[w].on = stream[w].on /\ stream'[w].base = stream[w].base,
           \A w \in Viewers \ {v} : stream'[w] = stream[w],
           \A q \in requests' : q.viewer = v => q.late
    PROVE  \A q \in requests' : AskedIsNow(q)'
<1>1. ASSUME NEW q \in requests' PROVE AskedIsNow(q)'
  <2>1. q \in requests /\ AskedIsNow(q) /\ q.viewer \in Viewers
    BY <1>1, AskedTyped DEF PatchInv
  <2>2. CASE q.viewer = v
    BY <1>1, <2>1, <2>2 DEF AskedIsNow
  <2>3. CASE q.viewer # v
    BY <2>1, <2>3 DEF AskedIsNow, AskedOnce, NotOlder, OfNow
  <2>. QED
    BY <2>2, <2>3
<1>. QED
  BY <1>1

\* The answer of the peer is the whole screen, or against the one the hub has.
LEMMA DiffIs ==
    ASSUME NEW cursor \in Seq(Ls), NEW next \in Seq(Ls), NEW shift \in BOOLEAN,
           cache \in Seq(Ls), Diff(cursor, next, shift) # Unchanged
    PROVE  /\ Diff(cursor, next, shift) \in Patches
           /\ \/ Diff(cursor, next, shift) = [drop |-> 0, from |-> 0, lines |-> next]
              \/ cursor # NoScreen /\ Patched(cursor, Diff(cursor, next, shift)) = next
<1>1. NoScreen \in Seq(Ls)
  BY DEF NoScreen
<1>2. CASE cursor = NoScreen \/ cursor # cache
  <2>1. Diff(cursor, next, shift) = LinePatch(NoScreen, next, FALSE)
    BY <1>2, Zenon DEF Diff
  <2>. QED
    BY <1>1, <2>1, LinePatchIs, WholeIs
<1>3. CASE cursor # NoScreen /\ cursor = cache
  <2>1. Diff(cursor, next, shift) = LinePatch(cursor, next, shift)
    BY <1>3, Zenon DEF Diff
  <2>. QED
    BY <1>3, <2>1, LinePatchIs
<1>. QED
  BY <1>2, <1>3

LEMMA PeerAnswersKeeps ==
    ASSUME PatchInv, NEW r \in requests, PeerAnswers(r) PROVE PatchInv'
<1>. DEFINE v == r.viewer
            next == screens[r.seen]
            shift == r.viewer \notin OldViewers
            patch == Diff(r.cursor, next, shift)
            arrives == ~r.late /\ patch # Unchanged
<1>1. PatchTypeOK
  BY DEF PatchInv
<1>2. /\ r.seen # 0 /\ requests' = requests \ {r} /\ cache' = next
      /\ IF arrives THEN Send(v, patch, r.seen) ELSE UNCHANGED wire
      /\ stream' = IF r.late THEN stream
                   ELSE [stream EXCEPT ![v].waiting = FALSE,
                                       ![v].base = IF arrives THEN next ELSE @]
      /\ UNCHANGED <<relayed, screens, socket, browser>>
  BY DEF PeerAnswers
<1>3. /\ v \in Viewers /\ r.cursor \in Seq(Ls) /\ r.seen \in 1 .. Len(screens)
      /\ next \in Seq(Ls) /\ cache \in Seq(Ls)
  <2>1. r.viewer \in Viewers /\ r.cursor \in Seq(Ls) /\ r.seen \in Nat /\ AskedIsNow(r)
    BY <1>1, AskedTyped DEF PatchInv
  <2>2. r.seen \in 1 .. Len(screens)
    BY <1>1, <1>2, <2>1, PatchTyped DEF AskedIsNow
  <2>. QED
    BY <1>1, <2>1, <2>2, PatchTyped DEF PatchTypeOK
<1>4. patch # Unchanged =>
          /\ patch \in Patches
          /\ \/ patch = [drop |-> 0, from |-> 0, lines |-> next]
             \/ r.cursor # NoScreen /\ Patched(r.cursor, patch) = next
  BY <1>3, DiffIs
<1>. HIDE DEF patch
<1>5. ~r.late => /\ stream[v].on /\ r.cursor = stream[v].base /\ AskedOnce(r)
                 /\ NotOlder(v, r.seen)
  BY <1>2 DEF PatchInv, AskedIsNow
<1>6. /\ stream' \in [Viewers -> [on : BOOLEAN, base : Seq(Ls), waiting : BOOLEAN]]
      /\ stream'[v].on = stream[v].on
      /\ stream'[v].base = IF arrives THEN next ELSE stream[v].base
      /\ \A w \in Viewers \ {v} : stream'[w] = stream[w]
  <2>1. CASE r.late
    BY <1>1, <1>2, <1>3, <2>1 DEF PatchTypeOK
  <2>2. CASE ~r.late
    <3>. DEFINE base == IF arrives THEN next ELSE stream[v].base
    <3>1. base \in Seq(Ls)
      BY <1>1, <1>3, PatchTyped
    <3>2. stream' = [stream EXCEPT ![v].waiting = FALSE, ![v].base = base]
      BY <1>2, <2>2
    <3>. HIDE DEF base
    <3>3. /\ stream' \in [Viewers -> [on : BOOLEAN, base : Seq(Ls), waiting : BOOLEAN]]
          /\ stream'[v].on = stream[v].on /\ stream'[v].base = base
          /\ \A w \in Viewers \ {v} : stream'[w] = stream[w]
      BY <1>1, <1>3, <3>1, <3>2, ZenonT(60) DEF PatchTypeOK
    <3>. QED
      BY <3>3 DEF base
  <2>. QED
    BY <2>1, <2>2
<1>7. CASE ~arrives
  <2>1. UNCHANGED wire /\ stream'[v].base = stream[v].base
    BY <1>2, <1>6, <1>7
  <2>2. \A w \in Viewers : ViewerOK(w)'
    BY <1>2, <1>6, <2>1, ViewersLeftAlone
  <2>3. PatchTypeOK'
    BY <1>1, <1>2, <1>3, <1>6, <2>1 DEF PatchTypeOK
  <2>4. \A q \in requests' : AskedIsNow(q)'
    <3>1. CASE r.late
      BY <1>2, <2>1, <3>1 DEF PatchInv, AskedIsNow, AskedOnce, NotOlder, OfNow
    <3>2. CASE ~r.late
      <4>1. \A q \in requests' : q.viewer = v => q.late
        <5>1. SUFFICES ASSUME NEW q \in requests', q.viewer = v, ~q.late PROVE FALSE
          OBVIOUS
        <5>2. q \in requests /\ q # r
          BY <1>2
        <5>3. q = r
          BY <1>5, <3>2, <5>1, <5>2 DEF AskedOnce
        <5>. QED
          BY <5>2, <5>3
      <4>. QED
        <5>1. requests' \subseteq requests /\ UNCHANGED <<relayed, screens, socket, browser, wire>>
          BY <1>2, <2>1
        <5>2. \A w \in Viewers : stream'[w].on = stream[w].on /\ stream'[w].base = stream[w].base
          BY <1>6, <2>1
        <5>. QED
          BY <1>3, <1>6, <4>1, <5>1, <5>2, RequestsGo
    <3>. QED
      BY <3>1, <3>2
  <2>. QED
    BY <2>2, <2>3, <2>4 DEF PatchInv
<1>8. CASE arrives
  <2>1. Send(v, patch, r.seen) /\ stream'[v].base = next
    BY <1>2, <1>6, <1>8
  <2>2. /\ ViewerOK(v)' /\ wire' \in [Viewers -> Seq(Messages)]
        /\ \A w \in Viewers \ {v} : wire'[w] = wire[w]
    BY <1>2, <1>3, <1>4, <1>5, <1>6, <1>8, <2>1, SendKeeps
  <2>3. PatchTypeOK'
    BY <1>1, <1>2, <1>3, <1>6, <2>2 DEF PatchTypeOK
  <2>4. \A w \in Viewers : ViewerOK(w)'
    BY <1>1, <1>2, <1>6, <2>2, ScreensStay, ViewerLeftAlone DEF PatchInv
  <2>5. ASSUME NEW q \in requests' PROVE AskedIsNow(q)'
    <3>1. q \in requests /\ AskedIsNow(q) /\ q.viewer \in Viewers
      BY <1>1, <1>2, <2>5, AskedTyped DEF PatchInv
    <3>2. CASE q.viewer = v
      <4>1. q.late
        BY <1>2, <1>5, <1>8, <2>5, <3>2 DEF AskedOnce
      <4>. QED
        BY <1>2, <3>1, <4>1 DEF AskedIsNow
    <3>3. CASE q.viewer # v
      BY <1>1, <1>2, <1>6, <2>2, <3>1, <3>3, ScreensStay, RequestLeftAlone
    <3>. QED
      BY <3>2, <3>3
  <2>. QED
    BY <2>3, <2>4, <2>5 DEF PatchInv
<1>. QED
  BY <1>7, <1>8

LEMMA PollFailsKeeps == ASSUME PatchInv, NEW r \in requests, PollFails(r) PROVE PatchInv'
<1>. DEFINE v == r.viewer
<1>1. PatchTypeOK
  BY DEF PatchInv
<1>2. /\ ~r.late /\ requests' = requests \ {r}
      /\ stream' = [stream EXCEPT ![v].waiting = FALSE]
      /\ cache' \in {cache} \cup (IF r.seen = 0 THEN {} ELSE {screens[r.seen]})
      /\ UNCHANGED <<relayed, screens, socket, browser, wire>>
  BY DEF PollFails
<1>3. v \in Viewers /\ r.seen \in Nat /\ AskedIsNow(r)
  BY <1>1, AskedTyped DEF PatchInv
<1>4. cache' \in Seq(Ls)
  <2>1. r.seen # 0 => r.seen \in 1 .. Len(screens)
    BY <1>1, <1>3, PatchTyped DEF AskedIsNow
  <2>. QED
    BY <1>1, <1>2, <1>3, <2>1, PatchTyped DEF PatchTypeOK
<1>5. /\ stream' \in [Viewers -> [on : BOOLEAN, base : Seq(Ls), waiting : BOOLEAN]]
      /\ \A w \in Viewers : stream'[w].on = stream[w].on /\ stream'[w].base = stream[w].base
      /\ \A w \in Viewers \ {v} : stream'[w] = stream[w]
  BY <1>1, <1>2, ZenonT(60) DEF PatchTypeOK
<1>6. PatchTypeOK'
  BY <1>1, <1>2, <1>4, <1>5 DEF PatchTypeOK
<1>7. \A q \in requests' : q.viewer = v => q.late
  BY <1>2, <1>3 DEF AskedIsNow, AskedOnce
<1>. QED
  BY <1>2, <1>3, <1>5, <1>6, <1>7, ViewersLeftAlone, RequestsGo DEF PatchInv

LEMMA PollTimesOutKeeps ==
    ASSUME PatchInv, NEW r \in requests, PollTimesOut(r) PROVE PatchInv'
<1>. DEFINE v == r.viewer
            late == [r EXCEPT !.late = TRUE]
<1>1. PatchTypeOK
  BY DEF PatchInv
<1>2. /\ ~r.late /\ requests' = (requests \ {r}) \cup {late}
      /\ stream' = [stream EXCEPT ![v].waiting = FALSE]
      /\ UNCHANGED <<relayed, screens, socket, browser, wire, cache>>
  BY DEF PollTimesOut
<1>3. v \in Viewers /\ r \in Asked /\ AskedIsNow(r)
  BY <1>1, AskedTyped DEF PatchInv
<1>4. late \in Asked /\ late.viewer = v /\ late.seen = r.seen /\ late.late
  BY <1>3 DEF Asked
<1>. HIDE DEF late
<1>5. /\ stream' \in [Viewers -> [on : BOOLEAN, base : Seq(Ls), waiting : BOOLEAN]]
      /\ \A w \in Viewers : stream'[w].on = stream[w].on /\ stream'[w].base = stream[w].base
      /\ \A w \in Viewers \ {v} : stream'[w] = stream[w]
  BY <1>1, <1>2, ZenonT(60) DEF PatchTypeOK
<1>6. PatchTypeOK'
  BY <1>1, <1>2, <1>4, <1>5 DEF PatchTypeOK
<1>7. \A w \in Viewers : ViewerOK(w)'
  BY <1>2, <1>5, ViewersLeftAlone
<1>8. ASSUME NEW q \in requests' PROVE AskedIsNow(q)'
  <2>1. CASE q = late
    BY <1>2, <1>3, <1>4, <2>1 DEF AskedIsNow
  <2>2. CASE q # late
    <3>1. q \in requests /\ q # r /\ AskedIsNow(q) /\ q.viewer \in Viewers
      BY <1>1, <1>2, <1>8, <2>2, AskedTyped DEF PatchInv
    <3>2. CASE q.viewer = v
      <4>1. q.late
        BY <1>2, <1>3, <3>1, <3>2 DEF AskedIsNow, AskedOnce
      <4>. QED
        BY <1>2, <3>1, <4>1 DEF AskedIsNow
    <3>3. CASE q.viewer # v
      <4>1. AskedOnce(q) => AskedOnce(q)'
        BY <1>2, <1>4 DEF AskedOnce
      <4>. QED
        BY <1>2, <1>5, <3>1, <3>3, <4>1 DEF AskedIsNow, NotOlder, OfNow
    <3>. QED
      BY <3>2, <3>3
  <2>. QED
    BY <2>1, <2>2
<1>. QED
  BY <1>6, <1>7, <1>8 DEF PatchInv

LEMMA PeerRestartsKeeps == ASSUME PatchInv, PeerRestarts PROVE PatchInv'
<1>1. PatchTypeOK
  BY DEF PatchInv
<1>2. NoScreen \in Seq(Ls)
  BY DEF NoScreen
<1>3. /\ requests' = {} /\ cache' = NoScreen
      /\ stream' = [v \in Viewers |-> [stream[v] EXCEPT !.waiting = FALSE]]
      /\ UNCHANGED <<relayed, screens, socket, browser, wire>>
  BY DEF PeerRestarts
<1>4. /\ stream' \in [Viewers -> [on : BOOLEAN, base : Seq(Ls), waiting : BOOLEAN]]
      /\ \A w \in Viewers : stream'[w].on = stream[w].on /\ stream'[w].base = stream[w].base
  BY <1>1, <1>3 DEF PatchTypeOK
<1>5. PatchTypeOK'
  BY <1>1, <1>2, <1>3, <1>4 DEF PatchTypeOK
<1>. QED
  BY <1>3, <1>4, <1>5, ViewersLeftAlone DEF PatchInv

LEMMA PatchesStutter == ASSUME PatchInv, UNCHANGED patchVars PROVE PatchInv'
<1>1. UNCHANGED <<relayed, screens, socket, browser, wire, stream, requests, cache>>
  BY DEF patchVars
<1>2. PatchTypeOK /\ PatchTypeOK'
  BY <1>1 DEF PatchInv, PatchTypeOK
<1>3. \A v \in Viewers : ViewerOK(v)'
  BY <1>1, ViewersLeftAlone
<1>4. \A r \in requests' : AskedIsNow(r)'
  BY <1>1 DEF PatchInv, AskedIsNow, AskedOnce, NotOlder, OfNow
<1>. QED
  BY <1>2, <1>3, <1>4 DEF PatchInv

LEMMA PatchesSteps == PatchInv /\ [PatchesNext]_patchVars => PatchInv'
<1>. SUFFICES ASSUME PatchInv, [PatchesNext]_patchVars PROVE PatchInv'
  OBVIOUS
<1>1. CASE Scroll \/ PeerRestarts
  BY <1>1, ScrollKeeps, PeerRestartsKeeps
<1>2. ASSUME NEW v \in Viewers,
             Open(v) \/ Close(v) \/ StreamEnds(v) \/ OnMessage(v) \/ Push(v) \/ Poll(v)
      PROVE  PatchInv'
  BY <1>2, OpenKeeps, CloseKeeps, StreamEndsKeeps, OnMessageKeeps, PushKeeps, PollKeeps
<1>3. ASSUME NEW r \in requests,
             PeerCaptures(r) \/ PeerAnswers(r) \/ PollFails(r) \/ PollTimesOut(r)
      PROVE  PatchInv'
  BY <1>3, PeerCapturesKeeps, PeerAnswersKeeps, PollFailsKeeps, PollTimesOutKeeps
<1>4. CASE UNCHANGED patchVars
  BY <1>4, PatchesStutter
<1>. QED
  BY <1>1, <1>2, <1>3, <1>4 DEF PatchesNext

\* A browser only ever shows a screen of the pane, whole, and never an earlier one:
\* for any number of viewers, direct or through a hub, any screens, and any
\* connections, restarts, failed polls and late answers.
THEOREM PatchesHold == PatchesSpec => ShowsTheScreen
<1>. DEFINE Shown == \A v \in Viewers : browser'[v] # browser[v] =>
                        /\ browser'[v].lines = screens[browser'[v].screen]
                        /\ browser'[v].screen >= browser[v].screen
<1>1. PatchesInit => PatchInv
  BY PatchesInitial, PatchAssumption
<1>2. PatchInv /\ [PatchesNext]_patchVars => [Shown]_browser
  <2>. SUFFICES ASSUME PatchInv, PatchesNext, NEW v \in Viewers, browser'[v] # browser[v]
                PROVE  /\ browser'[v].lines = screens[browser'[v].screen]
                       /\ browser'[v].screen >= browser[v].screen
    BY DEF patchVars
  <2>1. PICK w \in Viewers : OnMessage(w)
    BY DEF PatchesNext, Scroll, PeerRestarts, Open, Close, StreamEnds, Push, Poll,
           PeerCaptures, PeerAnswers, PollFails, PollTimesOut
  <2>2. w = v /\ socket[v].up /\ OfNow(v, Head(wire[v]))
    BY <2>1 DEF OnMessage, OfNow, PatchInv, PatchTypeOK
  <2>3. /\ browser'[v].lines = screens[Head(wire[v]).screen]
        /\ browser'[v].screen = Head(wire[v]).screen
        /\ browser[v].screen =< browser'[v].screen
    BY <2>1, <2>2, OnMessageShows
  <2>4. browser[v].screen \in Nat /\ browser'[v].screen \in Nat
    <3>1. PatchTypeOK /\ PatchTypeOK'
      BY PatchesSteps DEF PatchInv
    <3>. QED
      BY <3>1 DEF PatchTypeOK
  <2>. QED
    BY <2>3, <2>4
<1>. QED
  BY <1>1, <1>2, PatchesSteps, PTL DEF PatchesSpec, ShowsTheScreen
-----------------------------------------------------------------------------
(***************************************************************************)
(* PaneInput: an input that nothing disturbs is entered once, alone, in an *)
(* idle shell, and after those its browser sent before.  The invariant     *)
(* follows an input from the socket to the line it is entered in: what is  *)
(* typed and neither excused nor entered belongs to a job that has yet to  *)
(* press Enter, and two of these never stand in one window.                *)
(***************************************************************************)
Inputs == [from : Browsers, n : Nat, kind : Kinds]
InputSteps == {"posted", "look", "create", "check", "type", "enter", "done"}
InputLines == [inputs : Seq(Inputs), busy : BOOLEAN]
PaneWindows == [busy : BOOLEAN, typed : Seq(Inputs), entered : Seq(InputLines)]
InputTypeOK ==
    /\ sent \in [Browsers -> Nat] /\ failures \in Nat
    /\ excused \subseteq Inputs
    /\ jobs \subseteq [input : Inputs, step : InputSteps, window : Nat, late : BOOLEAN]
    /\ windows \in Seq(PaneWindows)
    /\ windows # << >> /\ ~windows[Target].busy

\* Only inputs that were given up stand next to another of their browser.
JobsApart ==
    \A j, k \in jobs :
        \/ j = k
        \/ j.input # k.input /\ (j.input.from = k.input.from => j.late \/ k.late)

\* A command is typed in a window of its own, anything else in the one it is for.
JobInPlace(j) ==
    /\ j.window \in DOMAIN windows
    /\ j.window # Target => j.input.kind = "run"
    /\ j.step \in {"look", "create", "check"} => j.input.kind = "run"
    /\ j.step \in {"posted", "look", "create"} => j.window = Target
    /\ j.step \in {"check", "type", "enter"} /\ j.input.kind = "run" => j.window # Target
\* A job that waits to press Enter in a shell that became busy has met another's.
JobKnown(j) ==
    /\ j.input.n <= sent[j.input.from]
    /\ j.late => j.input \in excused
    /\ j.step \in {"type", "enter"} /\ windows[j.window].busy => j.input \in excused

\* What is typed and not excused is alone, and its job has yet to press Enter.
TypedIsOfJob(w) ==
    LET typed == windows[w].typed IN
    /\ \A k \in DOMAIN typed :
          typed[k] \notin excused =>
              \E j \in jobs : j.input = typed[k] /\ j.step = "enter" /\ j.window = w
    /\ \A k, l \in DOMAIN typed : k # l => typed[k] \in excused \/ typed[l] \in excused

\* What was entered came before what its browser has under way.
EnteredBefore(x) ==
    x \notin excused =>
        /\ x.n <= sent[x.from]
        /\ \A j \in jobs : j.input.from = x.from /\ ~j.late => x.n < j.input.n
EnteredInOrder(w) ==
    \A i \in DOMAIN windows[w].entered : \A k \in DOMAIN windows[w].entered[i].inputs :
        EnteredBefore(windows[w].entered[i].inputs[k])

InputInv ==
    /\ InputTypeOK /\ JobsApart
    /\ \A j \in jobs : JobInPlace(j) /\ JobKnown(j)
    /\ \A w \in DOMAIN windows : TypedIsOfJob(w) /\ EnteredInOrder(w)
    /\ InputArrivesWhole

-----------------------------------------------------------------------------
\* What holds of a job and of a window by their types.
LEMMA JobTyped ==
    ASSUME InputTypeOK, NEW j \in jobs
    PROVE  /\ j \in [input : Inputs, step : InputSteps, window : Nat, late : BOOLEAN]
           /\ j.input \in Inputs /\ j.step \in InputSteps /\ j.window \in Nat
           /\ j.late \in BOOLEAN
           /\ j.input.from \in Browsers /\ j.input.n \in Nat /\ j.input.kind \in Kinds
           /\ sent[j.input.from] \in Nat
BY DEF InputTypeOK, Inputs

LEMMA WindowTyped ==
    ASSUME InputTypeOK
    PROVE  /\ Len(windows) \in Nat /\ DOMAIN windows = 1 .. Len(windows)
           /\ Target \in DOMAIN windows
           /\ \A w \in DOMAIN windows :
                /\ windows[w] \in PaneWindows
                /\ windows[w].busy \in BOOLEAN /\ windows[w].typed \in Seq(Inputs)
                /\ windows[w].entered \in Seq(InputLines)
<1>1. windows \in Seq(PaneWindows)
  BY DEF InputTypeOK
<1>2. Len(windows) \in Nat /\ DOMAIN windows = 1 .. Len(windows) /\ Len(windows) # 0
  BY <1>1 DEF InputTypeOK
<1>3. \A w \in DOMAIN windows :
        windows[w] \in PaneWindows
  BY <1>1, <1>2
<1>4. ASSUME NEW w \in DOMAIN windows
      PROVE  /\ windows[w].busy \in BOOLEAN /\ windows[w].typed \in Seq(Inputs)
             /\ windows[w].entered \in Seq(InputLines)
  BY <1>3 DEF PaneWindows
<1>5. Target \in DOMAIN windows
  BY <1>2 DEF Target
<1>. QED
  BY <1>2, <1>3, <1>4, <1>5

LEMMA EnteredAreInputs ==
    ASSUME InputTypeOK, NEW w \in DOMAIN windows, NEW i \in DOMAIN windows[w].entered,
           NEW k \in DOMAIN windows[w].entered[i].inputs
    PROVE  windows[w].entered[i].inputs[k] \in Inputs
<1>1. windows[w].entered \in Seq(InputLines)
  BY WindowTyped
<1>2. windows[w].entered[i] \in InputLines
  BY <1>1
<1>3. windows[w].entered[i].inputs \in Seq(Inputs)
  BY <1>2 DEF InputLines
<1>. QED
  BY <1>3

\* What was entered stays, and what is excused stays excused.
LEMMA EnteredStays ==
    ASSUME InputArrivesWhole, excused \subseteq excused',
           \A w \in DOMAIN windows' :
               \/ windows'[w].entered = << >>
               \/ w \in DOMAIN windows /\ windows'[w].entered = windows[w].entered
    PROVE  InputArrivesWhole'
<1>. SUFFICES ASSUME NEW w \in DOMAIN windows', NEW i \in DOMAIN windows'[w].entered
     PROVE  /\ EnteredWhole(windows[w].entered[i])'
            /\ \A v \in DOMAIN windows' : \A h \in DOMAIN windows'[v].entered :
               \A k \in DOMAIN windows'[w].entered[i].inputs,
                  l \in DOMAIN windows'[v].entered[h].inputs :
                   LET this == windows'[w].entered[i].inputs[k]
                       that == windows'[v].entered[h].inputs[l]
                   IN  this.from = that.from /\ {this, that} \cap excused' = {} =>
                           /\ v # w => this.n # that.n
                           /\ v = w /\ (h < i \/ (h = i /\ l < k)) => that.n < this.n
  BY DEF InputArrivesWhole
<1>1. \A x \in DOMAIN windows' : windows'[x].entered # << >> \/ DOMAIN windows'[x].entered = {}
  OBVIOUS
<1>2. w \in DOMAIN windows /\ windows'[w].entered = windows[w].entered
  BY <1>1
<1>3. EnteredWhole(windows[w].entered[i])'
  BY <1>2 DEF InputArrivesWhole, EnteredWhole
<1>4. ASSUME NEW v \in DOMAIN windows', NEW h \in DOMAIN windows'[v].entered
      PROVE  v \in DOMAIN windows /\ windows'[v].entered = windows[v].entered
  BY <1>1, <1>4
<1>. QED
  BY <1>2, <1>3, <1>4 DEF InputArrivesWhole

\* A job goes on, or ends: the others are as they were.
Follows(j, m) == m.input = j.input /\ (j.late => m.late)
LEMMA ApartStays ==
    ASSUME JobsApart, NEW j \in jobs, NEW m, Follows(j, m),
           jobs' \subseteq (jobs \ {j}) \cup {m}
    PROVE  JobsApart'
BY DEF JobsApart, Follows

LEMMA OrderStays ==
    ASSUME InputInv, NEW j \in jobs, NEW m, Follows(j, m),
           jobs' \subseteq (jobs \ {j}) \cup {m},
           sent' = sent, excused \subseteq excused'
    PROVE  \A x : EnteredBefore(x) => EnteredBefore(x)'
BY DEF EnteredBefore, Follows

LEMMA TypedStays ==
    ASSUME NEW w, TypedIsOfJob(w), excused \subseteq excused',
           windows'[w].typed = windows[w].typed,
           \A k \in jobs : k.step = "enter" /\ k.window = w =>
               \/ k.input \in excused'
               \/ \E m \in jobs' : m.input = k.input /\ m.step = "enter" /\ m.window = w
    PROVE  TypedIsOfJob(w)'
<1>1. \A k \in DOMAIN windows'[w].typed :
        windows'[w].typed[k] \notin excused' =>
          \E j \in jobs' : j.input = windows'[w].typed[k] /\ j.step = "enter" /\ j.window = w
  BY DEF TypedIsOfJob
<1>2. \A k, l \in DOMAIN windows'[w].typed :
        k # l => windows'[w].typed[k] \in excused' \/ windows'[w].typed[l] \in excused'
  BY DEF TypedIsOfJob
<1>. QED
  BY <1>1, <1>2 DEF TypedIsOfJob

\* Two jobs at one place, of which one is at a step there, have met.
LEMMA BothMet ==
    ASSUME InputInv, NEW j \in jobs, NEW k \in jobs, j # k, k.step # "posted",
           (k.input.kind = "run") = (j.input.kind = "run")
    PROVE  {j.input, k.input} \subseteq Meets(j)
<1>1. k.input.from # j.input.from \/ k.late \/ j.late
  BY DEF InputInv, JobsApart
<1>2. k \in Others(j)
  BY <1>1 DEF Others
<1>3. Meets(j) = {q.input : q \in Others(j) \cup {j}}
  BY <1>2 DEF Meets
<1>. QED
  BY <1>2, <1>3

LEMMA MetAreInputs ==
    ASSUME InputTypeOK, NEW j \in jobs PROVE Meets(j) \subseteq Inputs
BY JobTyped DEF Meets, Others

LEMMA OneWindowChanges ==
    ASSUME InputTypeOK, NEW w \in DOMAIN windows, NEW e \in PaneWindows,
           windows' = [windows EXCEPT ![w] = e], w = Target => ~e.busy
    PROVE  /\ windows' \in Seq(PaneWindows) /\ windows' # << >> /\ ~windows'[Target].busy
           /\ DOMAIN windows' = DOMAIN windows
           /\ \A v \in DOMAIN windows : windows'[v] = IF v = w THEN e ELSE windows[v]
<1>1. windows \in Seq(PaneWindows) /\ w \in 1 .. Len(windows)
  BY WindowTyped DEF InputTypeOK
<1>2. windows' \in Seq(PaneWindows) /\ Len(windows') = Len(windows)
  BY <1>1, ExceptSeq
<1>3. DOMAIN windows' = DOMAIN windows
  OBVIOUS
<1>4. \A v \in DOMAIN windows : windows'[v] = IF v = w THEN e ELSE windows[v]
  OBVIOUS
<1>5. ~windows'[Target].busy
  BY <1>4, WindowTyped DEF InputTypeOK
<1>6. windows' # << >>
  BY <1>3, WindowTyped
<1>. QED
  BY <1>2, <1>3, <1>4, <1>5, <1>6

-----------------------------------------------------------------------------
\* Steps that leave the windows alone: a job is known as before, with its place.
LEMMA JobGoes ==
    ASSUME InputInv, NEW j \in jobs,
           NEW m \in [input : Inputs, step : InputSteps, window : Nat, late : BOOLEAN],
           jobs' = (jobs \ {j}) \cup {m}, Follows(j, m), JobInPlace(m), JobKnown(m)',
           j.step = "enter" => m.step = "enter" /\ m.window = j.window,
           excused \subseteq excused', excused' \subseteq Inputs,
           failures' \in Nat, UNCHANGED <<sent, windows>>
    PROVE  InputInv'
<1>1. InputTypeOK'
  BY DEF InputInv, InputTypeOK
<1>2. JobsApart'
  BY ApartStays DEF InputInv
<1>3. ASSUME NEW k \in jobs' PROVE JobInPlace(k)' /\ JobKnown(k)'
  <2>1. CASE k = m
    BY <2>1 DEF JobInPlace
  <2>2. CASE k # m
    <3>1. k \in jobs
      BY <2>2
    <3>. QED
      BY <3>1 DEF InputInv, JobInPlace, JobKnown
  <2>. QED
    BY <2>1, <2>2
<1>4. ASSUME NEW w \in DOMAIN windows' PROVE TypedIsOfJob(w)' /\ EnteredInOrder(w)'
  <2>1. TypedIsOfJob(w) /\ EnteredInOrder(w)
    BY DEF InputInv
  <2>2. \A k \in jobs : k.step = "enter" /\ k.window = w =>
            \E q \in jobs' : q.input = k.input /\ q.step = "enter" /\ q.window = w
    BY DEF Follows
  <2>3. TypedIsOfJob(w)'
    BY <2>1, <2>2, TypedStays
  <2>4. EnteredInOrder(w)'
    BY <2>1, OrderStays DEF EnteredInOrder
  <2>. QED
    BY <2>3, <2>4
<1>5. InputArrivesWhole'
  BY EnteredStays DEF InputInv
<1>. QED
  BY <1>1, <1>2, <1>3, <1>4, <1>5 DEF InputInv

LEMMA JobEnds ==
    ASSUME InputInv, NEW j \in jobs, jobs' = jobs \ {j},
           j.step = "enter" => j.input \in excused',
           excused \subseteq excused', excused' \subseteq Inputs,
           failures' \in Nat, UNCHANGED <<sent, windows>>
    PROVE  InputInv'
<1>1. InputTypeOK'
  BY DEF InputInv, InputTypeOK
<1>. Follows(j, j) /\ jobs' \subseteq (jobs \ {j}) \cup {j}
  BY DEF Follows
<1>2. JobsApart'
  BY ApartStays DEF InputInv
<1>3. ASSUME NEW k \in jobs' PROVE JobInPlace(k)' /\ JobKnown(k)'
  BY DEF InputInv, JobInPlace, JobKnown
<1>4. ASSUME NEW w \in DOMAIN windows' PROVE TypedIsOfJob(w)' /\ EnteredInOrder(w)'
  <2>1. TypedIsOfJob(w) /\ EnteredInOrder(w)
    BY DEF InputInv
  <2>2. TypedIsOfJob(w)'
    BY <2>1, TypedStays
  <2>3. EnteredInOrder(w)'
    BY <2>1, OrderStays DEF EnteredInOrder
  <2>. QED
    BY <2>2, <2>3
<1>5. InputArrivesWhole'
  BY EnteredStays DEF InputInv
<1>. QED
  BY <1>1, <1>2, <1>3, <1>4, <1>5 DEF InputInv

-----------------------------------------------------------------------------
LEMMA ReadKeeps == ASSUME InputInv, NEW b \in Browsers, ReadInput(b) PROVE InputInv'
<1>1. InputTypeOK /\ sent' = [sent EXCEPT ![b] = @ + 1] /\ UNCHANGED <<windows, excused, failures>>
  BY DEF InputInv, ReadInput
<1>2. PICK kind \in Kinds :
        jobs' = jobs \cup {[input |-> [from |-> b, n |-> sent'[b], kind |-> kind],
                            step |-> IF b \in Hubbed THEN "posted" ELSE FirstStep(kind),
                            window |-> Target, late |-> FALSE]}
  BY DEF ReadInput
<1>. DEFINE m == [input |-> [from |-> b, n |-> sent'[b], kind |-> kind],
                  step |-> IF b \in Hubbed THEN "posted" ELSE FirstStep(kind),
                  window |-> Target, late |-> FALSE]
<1>3. sent \in [Browsers -> Nat] /\ sent' \in [Browsers -> Nat] /\ sent'[b] = sent[b] + 1
        /\ \A a \in Browsers : sent[a] <= sent'[a]
  BY <1>1 DEF InputTypeOK
<1>4. m.input \in Inputs /\ m.input.from = b /\ m.input.n = sent[b] + 1
        /\ m.input.kind = kind /\ m.window = Target /\ m.late = FALSE
  BY <1>3 DEF Inputs
<1>5. /\ m.step \in {"posted", "type", "look", "enter", "done"}
      /\ m.step = "look" => kind = "run"
      /\ m.step \in {"type", "enter"} => kind # "run"
  BY DEF FirstStep
<1>6. m \in [input : Inputs, step : InputSteps, window : Nat, late : BOOLEAN]
  BY <1>4, <1>5 DEF InputSteps, Target
<1>7. jobs' = jobs \cup {m}
  BY <1>2
<1>. HIDE DEF m
<1>8. InputTypeOK'
  BY <1>1, <1>3, <1>6, <1>7 DEF InputTypeOK
<1>9. \A j \in jobs : j.input # m.input /\ (j.input.from = b => j.late)
  BY <1>1, <1>3, <1>4, JobTyped DEF InputInv, JobKnown, ReadInput, ReaderFree
<1>10. JobsApart'
  BY <1>4, <1>7, <1>9 DEF InputInv, JobsApart
<1>11. ASSUME NEW j \in jobs' PROVE JobInPlace(j)' /\ JobKnown(j)'
  <2>1. CASE j = m
    <3>1. Target \in DOMAIN windows /\ ~windows[Target].busy
      BY <1>1, WindowTyped DEF InputTypeOK
    <3>. QED
      BY <2>1, <3>1, <1>1, <1>3, <1>4, <1>5 DEF JobInPlace, JobKnown
  <2>2. CASE j \in jobs
    <3>1. JobInPlace(j) /\ JobKnown(j)
      BY <2>2 DEF InputInv
    <3>2. JobKnown(j)'
      BY <1>1, <1>3, <2>2, <3>1, JobTyped DEF JobKnown
    <3>. QED
      BY <1>1, <3>1, <3>2 DEF JobInPlace
  <2>. QED
    BY <1>7, <2>1, <2>2
<1>12. ASSUME NEW w \in DOMAIN windows' PROVE TypedIsOfJob(w)' /\ EnteredInOrder(w)'
  <2>1. TypedIsOfJob(w) /\ EnteredInOrder(w) /\ w \in DOMAIN windows
    BY <1>1 DEF InputInv
  <2>2. TypedIsOfJob(w)'
    <3>1. \A k \in jobs : k \in jobs'
      BY <1>7
    <3>2. windows'[w].typed = windows[w].typed /\ excused' = excused
      BY <1>1
    <3>. QED
      BY <2>1, <3>1, <3>2, TypedStays
  <2>3. ASSUME NEW x \in Inputs, EnteredBefore(x) PROVE EnteredBefore(x)'
    BY <1>1, <1>3, <1>4, <1>7, <2>3 DEF EnteredBefore, Inputs
  <2>4. ASSUME NEW i \in DOMAIN windows[w].entered,
               NEW k \in DOMAIN windows[w].entered[i].inputs
        PROVE  windows[w].entered[i].inputs[k] \in Inputs
    BY <1>1, <2>1, EnteredAreInputs
  <2>5. EnteredInOrder(w)'
    BY <1>1, <2>1, <2>3, <2>4 DEF EnteredInOrder
  <2>. QED
    BY <2>2, <2>5
<1>13. InputArrivesWhole'
  BY <1>1, EnteredStays DEF InputInv
<1>. QED
  BY <1>8, <1>10, <1>11, <1>12, <1>13 DEF InputInv

LEMMA PeerReceivesKeeps == ASSUME InputInv, NEW j \in jobs, PeerReceives(j) PROVE InputInv'
<1>. DEFINE m == [j EXCEPT !.step = FirstStep(j.input.kind)]
<1>1. InputTypeOK /\ JobInPlace(j) /\ JobKnown(j) /\ j.step = "posted"
        /\ jobs' = (jobs \ {j}) \cup {m}
        /\ UNCHANGED <<sent, windows, excused, failures>>
  BY DEF InputInv, PeerReceives
<1>2. /\ m.step \in {"type", "look", "enter", "done"}
      /\ m.step = "look" => j.input.kind = "run"
      /\ m.step \in {"type", "enter"} => j.input.kind # "run"
      /\ m.input = j.input /\ m.window = j.window /\ m.late = j.late
      /\ m \in [input : Inputs, step : InputSteps, window : Nat, late : BOOLEAN]
  BY <1>1, JobTyped DEF FirstStep, InputSteps
<1>. HIDE DEF m
<1>3. Target \in DOMAIN windows /\ ~windows[Target].busy
  BY <1>1, WindowTyped DEF InputTypeOK
<1>4. JobInPlace(m) /\ JobKnown(m)'
  BY <1>1, <1>2, <1>3 DEF JobInPlace, JobKnown
<1>. QED
  BY <1>1, <1>2, <1>4, JobGoes DEF Follows, InputTypeOK

LEMMA GivesUpKeeps == ASSUME InputInv, NEW j \in jobs, GivesUp(j) PROVE InputInv'
<1>. DEFINE m == [j EXCEPT !.late = TRUE]
<1>1. InputTypeOK /\ JobInPlace(j) /\ JobKnown(j)
        /\ jobs' = (jobs \ {j}) \cup {m} /\ excused' = excused \cup {j.input}
        /\ failures' \in Nat /\ UNCHANGED <<sent, windows>>
  BY DEF InputInv, GivesUp, InputFails, InputTypeOK
<1>2. /\ m.step = j.step /\ m.input = j.input /\ m.window = j.window /\ m.late
      /\ m \in [input : Inputs, step : InputSteps, window : Nat, late : BOOLEAN]
  BY <1>1, JobTyped
<1>. HIDE DEF m
<1>4. JobInPlace(m) /\ JobKnown(m)'
  BY <1>1, <1>2 DEF JobInPlace, JobKnown
<1>5. j.input \in Inputs
  BY <1>1, JobTyped
<1>. QED
  BY <1>1, <1>2, <1>4, <1>5, JobGoes DEF Follows, InputTypeOK

LEMMA EndingsKeep ==
    ASSUME InputInv, NEW j \in jobs, PostFails(j) \/ ApplyOther(j) \/ ApplyFails(j)
    PROVE  InputInv'
<1>1. InputTypeOK /\ jobs' = jobs \ {j} /\ failures' \in Nat /\ UNCHANGED <<sent, windows>>
  BY DEF InputInv, PostFails, ApplyOther, ApplyFails, Ends, InputFails, InputTypeOK
<1>2. /\ excused \subseteq excused' /\ excused' \subseteq excused \cup {j.input}
      /\ j.step = "enter" => j.input \in excused'
  BY DEF PostFails, ApplyOther, ApplyFails
<1>3. excused' \subseteq Inputs
  BY <1>1, <1>2, JobTyped DEF InputTypeOK
<1>. QED
  BY <1>1, <1>2, <1>3, JobEnds

LEMMA LookAroundKeeps ==
    ASSUME InputInv, NEW j \in jobs, LookForWindow(j) \/ CheckShell(j) PROVE InputInv'
<1>1. /\ InputTypeOK /\ JobInPlace(j) /\ JobKnown(j) /\ j.step \in {"look", "check"}
      /\ excused' = excused \cup Meets(j) /\ UNCHANGED <<sent, windows, failures>>
  BY DEF InputInv, LookForWindow, CheckShell
<1>2. excused' \subseteq Inputs /\ failures' \in Nat
  BY <1>1, MetAreInputs DEF InputTypeOK
<1>3. ASSUME NEW step, NEW window, Goes(j, step, window), step \in InputSteps,
             window \in DOMAIN windows, window # Target => j.input.kind = "run",
             step \in {"look", "create", "check"} => j.input.kind = "run",
             step \in {"posted", "look", "create"} => window = Target,
             step \in {"check", "type", "enter"} /\ j.input.kind = "run" => window # Target,
             step \in {"type", "enter"} => ~windows[window].busy
      PROVE  InputInv'
  <2>. DEFINE m == [j EXCEPT !.step = step, !.window = window]
  <2>1. jobs' = (jobs \ {j}) \cup {m}
    BY <1>3 DEF Goes
  <2>2. window \in Nat
    BY <1>1, <1>3, WindowTyped
  <2>3. /\ m.step = step /\ m.input = j.input /\ m.window = window /\ m.late = j.late
        /\ m \in [input : Inputs, step : InputSteps, window : Nat, late : BOOLEAN]
    BY <1>1, <1>3, <2>2, JobTyped
  <2>. HIDE DEF m
  <2>4. JobInPlace(m)
    BY <1>3, <2>3 DEF JobInPlace
  <2>5. JobKnown(m)'
    BY <1>1, <1>3, <2>3 DEF JobKnown
  <2>. QED
    BY <1>1, <1>2, <2>1, <2>3, <2>4, <2>5, JobGoes DEF Follows
<1>4. /\ Target \in DOMAIN windows /\ Len(windows) \in DOMAIN windows /\ Target = 1
      /\ Len(windows) \in Nat
  BY <1>1, WindowTyped DEF Target
<1>5. CASE LookForWindow(j)
  <2>1. CASE Len(windows) > 1
    BY <1>1, <1>3, <1>4, <1>5, <2>1 DEF LookForWindow, JobInPlace, InputSteps
  <2>2. CASE ~(Len(windows) > 1)
    BY <1>1, <1>3, <1>4, <1>5, <2>2 DEF LookForWindow, JobInPlace, InputSteps
  <2>. QED
    BY <2>1, <2>2
<1>6. CASE CheckShell(j)
  <2>1. CASE windows[j.window].busy
    BY <1>1, <1>2, <1>6, <2>1, JobEnds DEF CheckShell, Ends
  <2>2. CASE ~windows[j.window].busy
    BY <1>1, <1>3, <1>6, <2>2 DEF CheckShell, JobInPlace, InputSteps
  <2>. QED
    BY <2>1, <2>2
<1>. QED
  BY <1>5, <1>6

LEMMA CreateKeeps == ASSUME InputInv, NEW j \in jobs, CreateWindow(j) PROVE InputInv'
<1>. DEFINE m == [j EXCEPT !.step = "type", !.window = Len(windows')]
<1>1. /\ InputTypeOK /\ JobInPlace(j) /\ JobKnown(j) /\ j.step = "create"
      /\ windows' = Append(windows, NewWindow) /\ jobs' = (jobs \ {j}) \cup {m}
      /\ excused' = excused \cup Meets(j) /\ UNCHANGED <<sent, failures>>
  BY DEF InputInv, CreateWindow, Goes
<1>2. NewWindow \in PaneWindows /\ NewWindow.busy = FALSE /\ NewWindow.typed = << >>
        /\ NewWindow.entered = << >>
  BY DEF NewWindow, PaneWindows
<1>3. /\ windows \in Seq(PaneWindows) /\ Len(windows) \in Nat \ {0}
      /\ DOMAIN windows = 1 .. Len(windows)
  BY <1>1, WindowTyped DEF InputTypeOK
<1>4. /\ windows' \in Seq(PaneWindows) /\ Len(windows') = Len(windows) + 1
      /\ windows'[Len(windows) + 1] = NewWindow
      /\ \A w \in 1 .. Len(windows) : windows'[w] = windows[w]
  BY <1>1, <1>2, <1>3, AppendProperties
<1>5. DOMAIN windows' = DOMAIN windows \cup {Len(windows) + 1}
  BY <1>3, <1>4
<1>6. Len(windows) + 1 # Target /\ Target \in DOMAIN windows /\ Len(windows) + 1 \in Nat
        /\ Len(windows) + 1 \notin DOMAIN windows
  BY <1>3 DEF Target
<1>7. /\ m.step = "type" /\ m.input = j.input /\ m.window = Len(windows) + 1 /\ m.late = j.late
      /\ m \in [input : Inputs, step : InputSteps, window : Nat, late : BOOLEAN]
  BY <1>1, <1>4, <1>6, JobTyped DEF InputSteps
<1>. HIDE DEF m
<1>8. excused \subseteq excused' /\ excused' \subseteq Inputs /\ Follows(j, m)
  BY <1>1, <1>7, MetAreInputs DEF InputTypeOK, Follows
<1>9. InputTypeOK'
  <2>1. ~windows'[Target].busy /\ windows' # << >>
    BY <1>1, <1>3, <1>4, <1>6 DEF InputTypeOK
  <2>. QED
    BY <1>1, <1>4, <1>7, <1>8, <2>1 DEF InputTypeOK
<1>10. JobsApart'
  BY <1>1, <1>8, ApartStays DEF InputInv
<1>11. ASSUME NEW k \in jobs' PROVE JobInPlace(k)' /\ JobKnown(k)'
  <2>1. CASE k = m
    <3>1. JobInPlace(k)'
      BY <1>1, <1>5, <1>7, <2>1 DEF JobInPlace
    <3>2. JobKnown(k)'
      BY <1>1, <1>2, <1>4, <1>7, <2>1 DEF JobKnown
    <3>. QED
      BY <3>1, <3>2
  <2>2. CASE k \in jobs
    <3>1. JobInPlace(k) /\ JobKnown(k)
      BY <2>2 DEF InputInv
    <3>2. windows'[k.window] = windows[k.window]
      BY <1>3, <1>4, <3>1 DEF JobInPlace
    <3>. QED
      BY <1>1, <1>5, <3>1, <3>2 DEF JobInPlace, JobKnown
  <2>. QED
    BY <1>1, <2>1, <2>2
<1>12. ASSUME NEW w \in DOMAIN windows' PROVE TypedIsOfJob(w)' /\ EnteredInOrder(w)'
  <2>1. CASE w = Len(windows) + 1
    BY <1>2, <1>4, <2>1 DEF TypedIsOfJob, EnteredInOrder
  <2>2. CASE w \in DOMAIN windows
    <3>1. TypedIsOfJob(w) /\ EnteredInOrder(w) /\ windows'[w] = windows[w]
      BY <1>3, <1>4, <2>2 DEF InputInv
    <3>2. TypedIsOfJob(w)'
      BY <1>1, <1>8, <3>1, TypedStays
    <3>3. EnteredInOrder(w)'
      BY <1>1, <1>8, <3>1, OrderStays DEF EnteredInOrder
    <3>. QED
      BY <3>2, <3>3
  <2>. QED
    BY <1>5, <2>1, <2>2
<1>13. InputArrivesWhole'
  <2>1. \A w \in DOMAIN windows' :
            \/ windows'[w].entered = << >>
            \/ w \in DOMAIN windows /\ windows'[w].entered = windows[w].entered
    BY <1>2, <1>3, <1>4, <1>5
  <2>. QED
    BY <1>8, <2>1, EnteredStays DEF InputInv
<1>. QED
  BY <1>9, <1>10, <1>11, <1>12, <1>13 DEF InputInv

LEMMA CommandEndsKeeps ==
    ASSUME InputInv, NEW w \in DOMAIN windows, CommandEnds(w) PROVE InputInv'
<1>. DEFINE e == [windows[w] EXCEPT !.busy = FALSE]
<1>1. /\ InputTypeOK /\ windows' = [windows EXCEPT ![w] = e]
      /\ UNCHANGED <<sent, jobs, excused, failures>>
  BY DEF InputInv, CommandEnds
<1>2. /\ e \in PaneWindows /\ ~e.busy /\ e.typed = windows[w].typed
      /\ e.entered = windows[w].entered
  BY <1>1, WindowTyped DEF PaneWindows
<1>. HIDE DEF e
<1>3. /\ windows' \in Seq(PaneWindows) /\ windows' # << >> /\ ~windows'[Target].busy
      /\ DOMAIN windows' = DOMAIN windows
      /\ \A v \in DOMAIN windows : windows'[v] = IF v = w THEN e ELSE windows[v]
  BY <1>1, <1>2, OneWindowChanges
<1>4. InputTypeOK'
  BY <1>1, <1>3 DEF InputTypeOK
<1>5. JobsApart'
  BY <1>1 DEF InputInv, JobsApart
<1>6. ASSUME NEW j \in jobs' PROVE JobInPlace(j)' /\ JobKnown(j)'
  BY <1>1, <1>2, <1>3 DEF InputInv, JobInPlace, JobKnown
<1>7. ASSUME NEW v \in DOMAIN windows' PROVE TypedIsOfJob(v)' /\ EnteredInOrder(v)'
  <2>1. /\ TypedIsOfJob(v) /\ EnteredInOrder(v)
        /\ windows'[v].typed = windows[v].typed /\ windows'[v].entered = windows[v].entered
    BY <1>2, <1>3 DEF InputInv
  <2>2. TypedIsOfJob(v)'
    BY <1>1, <2>1, TypedStays
  <2>3. EnteredInOrder(v)'
    BY <1>1, <2>1 DEF EnteredInOrder, EnteredBefore
  <2>. QED
    BY <2>2, <2>3
<1>8. InputArrivesWhole'
  <2>1. \A v \in DOMAIN windows' : v \in DOMAIN windows /\ windows'[v].entered = windows[v].entered
    BY <1>2, <1>3
  <2>. QED
    BY <1>1, <2>1, EnteredStays DEF InputInv
<1>. QED
  BY <1>4, <1>5, <1>6, <1>7, <1>8 DEF InputInv

LEMMA TypeKeeps == ASSUME InputInv, NEW j \in jobs, Type(j) PROVE InputInv'
<1>. DEFINE m == [j EXCEPT !.step = "enter", !.window = j.window]
            e == [windows[j.window] EXCEPT !.typed = Append(@, j.input)]
<1>1. /\ InputTypeOK /\ JobInPlace(j) /\ JobKnown(j) /\ j.step = "type"
      /\ windows' = [windows EXCEPT ![j.window] = e] /\ jobs' = (jobs \ {j}) \cup {m}
      /\ excused' = excused \cup Meets(j) /\ UNCHANGED <<sent, failures>>
  BY DEF InputInv, Type, Goes
<1>2. j.window \in DOMAIN windows
  BY <1>1 DEF JobInPlace
<1>3. /\ m.step = "enter" /\ m.input = j.input /\ m.window = j.window /\ m.late = j.late
      /\ m \in [input : Inputs, step : InputSteps, window : Nat, late : BOOLEAN]
  BY <1>1, JobTyped DEF InputSteps
<1>4. windows[j.window].typed \in Seq(Inputs) /\ j.input \in Inputs
  BY <1>1, <1>2, WindowTyped, JobTyped
<1>5. /\ e \in PaneWindows /\ e.busy = windows[j.window].busy
      /\ e.typed = Append(windows[j.window].typed, j.input)
      /\ e.entered = windows[j.window].entered
  <2>1. windows[j.window] \in PaneWindows
    BY <1>1, <1>2, WindowTyped
  <2>2. Append(windows[j.window].typed, j.input) \in Seq(Inputs)
    BY <1>4
  <2>. QED
    BY <2>1, <2>2 DEF PaneWindows
<1>6. j.window = Target => ~e.busy
  BY <1>1, <1>5 DEF InputTypeOK
<1>. HIDE DEF m, e
<1>7. /\ windows' \in Seq(PaneWindows) /\ windows' # << >> /\ ~windows'[Target].busy
      /\ DOMAIN windows' = DOMAIN windows
      /\ \A w \in DOMAIN windows : windows'[w] = IF w = j.window THEN e ELSE windows[w]
  BY <1>1, <1>2, <1>5, <1>6, OneWindowChanges
<1>8. excused \subseteq excused' /\ excused' \subseteq Inputs /\ Follows(j, m)
  BY <1>1, <1>3, MetAreInputs DEF InputTypeOK, Follows
<1>9. InputTypeOK'
  BY <1>1, <1>3, <1>7, <1>8 DEF InputTypeOK
<1>10. JobsApart'
  BY <1>1, <1>8, ApartStays DEF InputInv
<1>11. ASSUME NEW k \in jobs' PROVE JobInPlace(k)' /\ JobKnown(k)'
  <2>1. CASE k = m
    BY <1>1, <1>2, <1>3, <1>5, <1>7, <1>8, <2>1 DEF JobInPlace, JobKnown
  <2>2. CASE k \in jobs
    <3>1. JobInPlace(k) /\ JobKnown(k)
      BY <2>2 DEF InputInv
    <3>2. windows'[k.window].busy = windows[k.window].busy
      BY <1>5, <1>7, <3>1 DEF JobInPlace
    <3>. QED
      BY <1>1, <1>7, <1>8, <3>1, <3>2 DEF JobInPlace, JobKnown
  <2>. QED
    BY <1>1, <2>1, <2>2
<1>12. ASSUME NEW w \in DOMAIN windows' PROVE TypedIsOfJob(w)' /\ EnteredInOrder(w)'
  <2>1. TypedIsOfJob(w) /\ EnteredInOrder(w) /\ w \in DOMAIN windows
    BY <1>7 DEF InputInv
  <2>2. CASE w # j.window
    <3>1. windows'[w].typed = windows[w].typed
      BY <1>7, <2>1, <2>2
    <3>2. \A k \in jobs : k.step = "enter" => k \in jobs'
      BY <1>1
    <3>. QED
      BY <1>7, <1>8, <1>1, <2>1, <2>2, <3>1, <3>2, TypedStays, OrderStays DEF EnteredInOrder
  <2>3. CASE w = j.window
    <3>. DEFINE typed == windows[w].typed
    <3>1. /\ Len(typed) \in Nat /\ DOMAIN typed = 1 .. Len(typed)
          /\ DOMAIN windows'[w].typed = 1 .. Len(typed) + 1
          /\ windows'[w].typed[Len(typed) + 1] = j.input
          /\ \A k \in 1 .. Len(typed) : windows'[w].typed[k] = typed[k]
      BY <1>4, <1>5, <1>7, <2>1, <2>3, SMTT(60)
    <3>2. ASSUME NEW k \in DOMAIN typed, typed[k] \notin excused
          PROVE  \E q \in jobs \ {j} : q.input = typed[k] /\ q.step = "enter" /\ q.window = w
      BY <1>1, <2>1, <3>2 DEF TypedIsOfJob
    <3>3. ASSUME NEW k \in DOMAIN typed, typed[k] \notin excused
          PROVE  typed[k] \in excused'
      <4>1. PICK q \in jobs \ {j} : q.input = typed[k] /\ q.step = "enter" /\ q.window = w
        BY <3>2, <3>3
      <4>2. (q.input.kind = "run") = (j.input.kind = "run")
        BY <1>1, <2>3, <4>1 DEF InputInv, JobInPlace
      <4>. QED
        BY <1>1, <4>1, <4>2, BothMet
    <3>4. \A k \in DOMAIN typed : typed[k] \in excused'
      BY <3>3, <1>8
    <3>5. m \in jobs'
      BY <1>1
    <3>6. \A k \in DOMAIN windows'[w].typed :
            k # Len(typed) + 1 => windows'[w].typed[k] \in excused'
      BY <3>1, <3>4
    <3>. HIDE DEF typed
    <3>7. TypedIsOfJob(w)'
      BY <1>3, <2>3, <3>1, <3>5, <3>6 DEF TypedIsOfJob
    <3>8. EnteredInOrder(w)'
      BY <1>1, <1>5, <1>7, <1>8, <2>1, <2>3, OrderStays DEF EnteredInOrder
    <3>. QED
      BY <3>7, <3>8
  <2>. QED
    BY <2>2, <2>3
<1>13. InputArrivesWhole'
  <2>1. \A w \in DOMAIN windows' : w \in DOMAIN windows /\ windows'[w].entered = windows[w].entered
    BY <1>5, <1>7
  <2>. QED
    BY <1>8, <2>1, EnteredStays DEF InputInv
<1>. QED
  BY <1>9, <1>10, <1>11, <1>12, <1>13 DEF InputInv

\* What else is at the window was met, and what is entered with it.
LEMMA EnterMeets ==
    ASSUME InputInv, NEW j \in jobs, Enter(j)
    PROVE  /\ \A q \in jobs \ {j} : q.step \in {"type", "enter"} /\ q.window = j.window =>
                  q.input \in excused'
           /\ \A k \in DOMAIN windows[j.window].typed :
                  LET x == windows[j.window].typed[k] IN x \in excused' \/ x = j.input
<1>1. /\ InputTypeOK /\ JobInPlace(j) /\ j.step = "enter" /\ excused' = excused \cup Meets(j)
      /\ TypedIsOfJob(j.window)
  BY DEF InputInv, Enter, JobInPlace
<1>2. ASSUME NEW q \in jobs \ {j}, q.step \in {"type", "enter"}, q.window = j.window
      PROVE  q.input \in excused'
  <2>1. (q.input.kind = "run") = (j.input.kind = "run")
    BY <1>1, <1>2 DEF InputInv, JobInPlace
  <2>2. q.step # "posted"
    BY <1>2
  <2>3. {j.input, q.input} \subseteq Meets(j)
    BY <2>1, <2>2, BothMet
  <2>. QED
    BY <1>1, <2>3
<1>3. ASSUME NEW k \in DOMAIN windows[j.window].typed
      PROVE  \/ windows[j.window].typed[k] \in excused'
             \/ windows[j.window].typed[k] = j.input
  <2>1. CASE windows[j.window].typed[k] \in excused
    BY <1>1, <2>1
  <2>2. CASE windows[j.window].typed[k] \notin excused
    <3>1. PICK q \in jobs : /\ q.input = windows[j.window].typed[k]
                            /\ q.step = "enter" /\ q.window = j.window
      BY <1>1, <2>2 DEF TypedIsOfJob
    <3>. QED
      BY <1>2, <3>1
  <2>. QED
    BY <2>1, <2>2
<1>. QED
  BY <1>2, <1>3

LEMMA OnlyOne ==
    ASSUME NEW S, NEW s \in Seq(S), Len(s) # 0, \A k, l \in DOMAIN s : k = l
    PROVE  Len(s) = 1
<1>1. Len(s) \in Nat /\ DOMAIN s = 1 .. Len(s)
  OBVIOUS
<1>2. 1 \in DOMAIN s /\ Len(s) \in DOMAIN s
  BY <1>1
<1>. QED
  BY <1>2

LEMMA EnterKeeps == ASSUME InputInv, NEW j \in jobs, Enter(j) PROVE InputInv'
<1>. DEFINE w == windows[j.window]
            line == [inputs |-> w.typed, busy |-> w.busy]
            e == [busy |-> w.busy \/ (w.typed # << >> /\ j.window # Target), typed |-> << >>,
                  entered |-> IF w.typed = << >> THEN w.entered ELSE Append(w.entered, line)]
<1>1. /\ InputTypeOK /\ JobInPlace(j) /\ JobKnown(j) /\ j.step = "enter"
      /\ windows' = [windows EXCEPT ![j.window] = e] /\ jobs' = jobs \ {j}
      /\ excused' = excused \cup Meets(j) /\ UNCHANGED <<sent, failures>>
  BY DEF InputInv, Enter, Ends
<1>2. /\ j.window \in DOMAIN windows
      /\ w.typed \in Seq(Inputs) /\ w.busy \in BOOLEAN /\ w.entered \in Seq(InputLines)
  BY <1>1, WindowTyped DEF JobInPlace
<1>3. line \in InputLines
  BY <1>2 DEF InputLines
<1>4. e \in PaneWindows
  <2>1. Append(w.entered, line) \in Seq(InputLines)
    BY <1>2, <1>3
  <2>2. e.entered \in Seq(InputLines) /\ e.typed \in Seq(Inputs) /\ e.busy \in BOOLEAN
    BY <1>2, <2>1
  <2>. QED
    BY <2>2 DEF PaneWindows
<1>5. j.window = Target => ~e.busy
  BY <1>1 DEF InputTypeOK
<1>6. /\ windows' \in Seq(PaneWindows) /\ windows' # << >> /\ ~windows'[Target].busy
      /\ DOMAIN windows' = DOMAIN windows
      /\ \A v \in DOMAIN windows : windows'[v] = IF v = j.window THEN e ELSE windows[v]
  <2>. HIDE DEF e
  <2>. QED
    BY <1>1, <1>2, <1>4, <1>5, OneWindowChanges
<1>7. excused \subseteq excused' /\ excused' \subseteq Inputs /\ Follows(j, j)
        /\ jobs' \subseteq (jobs \ {j}) \cup {j}
  BY <1>1, MetAreInputs DEF InputTypeOK, Follows
<1>8. /\ \A q \in jobs \ {j} : q.step \in {"type", "enter"} /\ q.window = j.window =>
             q.input \in excused'
      /\ \A k \in DOMAIN w.typed : w.typed[k] \in excused' \/ w.typed[k] = j.input
  BY EnterMeets
<1>9. InputTypeOK'
  BY <1>1, <1>6, <1>7 DEF InputTypeOK
<1>10. JobsApart'
  BY <1>7, ApartStays DEF InputInv
<1>11. ASSUME NEW k \in jobs' PROVE JobInPlace(k)' /\ JobKnown(k)'
  <2>1. k \in jobs \ {j} /\ JobInPlace(k) /\ JobKnown(k)
    BY <1>1 DEF InputInv
  <2>2. CASE k.window = j.window
    <3>1. k.step \in {"type", "enter"} => k.input \in excused'
      BY <1>8, <2>1, <2>2
    <3>. QED
      BY <1>1, <1>6, <1>7, <2>1, <3>1 DEF JobInPlace, JobKnown
  <2>3. CASE k.window # j.window
    <3>1. windows'[k.window] = windows[k.window]
      BY <1>6, <2>1, <2>3 DEF JobInPlace
    <3>. QED
      BY <1>1, <1>6, <1>7, <2>1, <3>1 DEF JobInPlace, JobKnown
  <2>. QED
    BY <2>2, <2>3
<1>12. \A x : EnteredBefore(x) => EnteredBefore(x)'
  BY <1>1, <1>7, OrderStays
<1>13. EnteredBefore(j.input)'
  BY <1>1, <1>7 DEF InputInv, EnteredBefore, JobKnown, JobsApart
<1>14. /\ Len(w.entered) \in Nat /\ DOMAIN w.entered = 1 .. Len(w.entered)
       /\ w.typed # << >> =>
            /\ DOMAIN e.entered = 1 .. Len(w.entered) + 1
            /\ e.entered[Len(w.entered) + 1] = line
            /\ \A i \in 1 .. Len(w.entered) : e.entered[i] = w.entered[i]
       /\ w.typed = << >> => e.entered = w.entered
  BY <1>2, <1>3
<1>15. e.typed = << >> /\ line.inputs = w.typed /\ line.busy = w.busy
  OBVIOUS
<1>. HIDE DEF e
<1>16. ASSUME NEW v \in DOMAIN windows' PROVE TypedIsOfJob(v)' /\ EnteredInOrder(v)'
  <2>1. TypedIsOfJob(v) /\ EnteredInOrder(v) /\ v \in DOMAIN windows
    BY <1>6 DEF InputInv
  <2>2. CASE v # j.window
    <3>1. windows'[v] = windows[v]
      BY <1>6, <2>1, <2>2
    <3>2. \A k \in jobs : k.step = "enter" /\ k.window = v => k \in jobs'
      BY <1>1, <2>2
    <3>3. TypedIsOfJob(v)'
      BY <1>7, <2>1, <3>1, <3>2, TypedStays
    <3>4. EnteredInOrder(v)'
      BY <1>12, <2>1, <3>1 DEF EnteredInOrder
    <3>. QED
      BY <3>3, <3>4
  <2>3. CASE v = j.window
    <3>1. TypedIsOfJob(v)'
      BY <1>6, <1>15, <2>1, <2>3 DEF TypedIsOfJob
    <3>2. windows'[v].entered = e.entered
      BY <1>6, <2>1, <2>3
    <3>3. ASSUME NEW i \in DOMAIN w.entered, NEW k \in DOMAIN w.entered[i].inputs,
                 NEW x, x = w.entered[i].inputs[k]
          PROVE  EnteredBefore(x)'
      BY <1>12, <2>1, <2>3, <3>3 DEF EnteredInOrder
    <3>4. ASSUME NEW k \in DOMAIN line.inputs, NEW x, x = line.inputs[k]
          PROVE  EnteredBefore(x)'
      <4>1. CASE x \in excused'
        BY <4>1 DEF EnteredBefore
      <4>2. CASE x = j.input
        BY <1>13, <4>2
      <4>. QED
        BY <1>8, <1>15, <3>4, <4>1, <4>2
    <3>. HIDE DEF w, line
    <3>5. ASSUME NEW i \in DOMAIN e.entered, NEW k \in DOMAIN e.entered[i].inputs,
                 NEW x, x = e.entered[i].inputs[k]
          PROVE  EnteredBefore(x)'
      <4>1. CASE i \in DOMAIN w.entered
        <5>1. e.entered[i] = w.entered[i]
          BY <1>14, <4>1
        <5>. QED
          BY <3>3, <3>5, <4>1, <5>1
      <4>2. CASE i = Len(w.entered) + 1 /\ w.typed # << >>
        <5>1. e.entered[i] = line
          BY <1>14, <4>2
        <5>. QED
          BY <3>4, <3>5, <5>1
      <4>. QED
        BY <1>14, <3>5, <4>1, <4>2
    <3>6. EnteredInOrder(v)'
      BY <3>2, <3>5 DEF EnteredInOrder
    <3>. QED
      BY <3>1, <3>6
  <2>. QED
    BY <2>2, <2>3
<1>17. InputArrivesWhole'
  <2>1. CASE w.typed = << >>
    <3>1. \A v \in DOMAIN windows' :
            v \in DOMAIN windows /\ windows'[v].entered = windows[v].entered
      BY <1>6, <1>14, <2>1
    <3>. QED
      BY <1>7, <3>1, EnteredStays DEF InputInv
  <2>2. CASE w.typed # << >>
    <3>1. /\ \A k \in DOMAIN w.typed : w.typed[k] \notin excused =>
                \E q \in jobs : q.input = w.typed[k] /\ q.step = "enter" /\ q.window = j.window
          /\ \A k, l \in DOMAIN w.typed : k # l => w.typed[k] \in excused \/ w.typed[l] \in excused
          /\ EnteredInOrder(j.window)
      BY <1>2 DEF InputInv, TypedIsOfJob
    <3>2. \/ Len(line.inputs) = 1 /\ ~line.busy
          \/ \E k \in DOMAIN line.inputs : line.inputs[k] \in excused'
      <4>1. SUFFICES ASSUME \A k \in DOMAIN w.typed : w.typed[k] \notin excused'
            PROVE  Len(w.typed) = 1 /\ ~w.busy
        BY <1>15
      <4>2. Len(w.typed) \in Nat /\ DOMAIN w.typed = 1 .. Len(w.typed)
        BY <1>2
      <4>3. Len(w.typed) # 0
        BY <1>2, <2>2
      <4>4. \A k, l \in DOMAIN w.typed : k = l
        BY <1>7, <3>1, <4>1
      <4>5. Len(w.typed) = 1
        BY <1>2, <4>3, <4>4, OnlyOne
      <4>6. w.typed[1] = j.input /\ w.typed[1] \notin excused
        BY <1>7, <1>8, <4>1, <4>2, <4>5
      <4>7. ~w.busy
        BY <1>1, <4>6 DEF JobKnown
      <4>. QED
        BY <4>5, <4>7
    <3>3. ASSUME NEW k \in DOMAIN w.typed, w.typed[k] \notin excused'
          PROVE  w.typed[k] = j.input
      BY <1>8, <3>3
    <3>4. ASSUME NEW v \in DOMAIN windows, NEW h \in DOMAIN windows[v].entered,
                 NEW l \in DOMAIN windows[v].entered[h].inputs,
                 windows[v].entered[h].inputs[l] \notin excused',
                 windows[v].entered[h].inputs[l].from = j.input.from,
                 j.input \notin excused'
          PROVE  windows[v].entered[h].inputs[l].n < j.input.n
      <4>. DEFINE x == windows[v].entered[h].inputs[l]
      <4>1. EnteredBefore(x) /\ x \notin excused
        BY <1>7, <3>4 DEF InputInv, EnteredInOrder
      <4>2. ~j.late
        BY <1>1, <1>7, <3>4 DEF JobKnown
      <4>. QED
        BY <3>4, <4>1, <4>2 DEF EnteredBefore
    <3>5. ASSUME NEW v \in DOMAIN windows', NEW h \in DOMAIN windows'[v].entered
          PROVE  /\ v \in DOMAIN windows
                 /\ \/ /\ h \in DOMAIN windows[v].entered
                       /\ windows'[v].entered[h] = windows[v].entered[h]
                    \/ /\ v = j.window /\ h = Len(w.entered) + 1
                       /\ windows'[v].entered[h] = line
      <4>1. v \in DOMAIN windows
        BY <1>6
      <4>2. CASE v # j.window
        BY <1>6, <4>1, <4>2, <3>5
      <4>3. CASE v = j.window
        <5>1. windows'[v].entered = e.entered
          BY <1>6, <4>1, <4>3
        <5>. HIDE DEF line
        <5>. QED
          BY <1>14, <2>2, <3>5, <4>1, <4>3, <5>1, SMTT(60)
      <4>. QED
        BY <4>2, <4>3
    <3>6. ASSUME NEW v \in DOMAIN windows', NEW h \in DOMAIN windows'[v].entered
          PROVE  \/ Len(windows'[v].entered[h].inputs) = 1 /\ ~windows'[v].entered[h].busy
                 \/ \E k \in DOMAIN windows'[v].entered[h].inputs :
                        windows'[v].entered[h].inputs[k] \in excused'
      <4>1. CASE windows'[v].entered[h] = line
        BY <3>2, <4>1
      <4>2. CASE h \in DOMAIN windows[v].entered /\ windows'[v].entered[h] = windows[v].entered[h]
        BY <1>6, <1>7, <4>2 DEF InputInv, InputArrivesWhole, EnteredWhole
      <4>. QED
        BY <3>5, <4>1, <4>2
    <3>7. ASSUME NEW u \in DOMAIN windows', NEW i \in DOMAIN windows'[u].entered,
                 NEW v \in DOMAIN windows', NEW h \in DOMAIN windows'[v].entered,
                 NEW k \in DOMAIN windows'[u].entered[i].inputs,
                 NEW l \in DOMAIN windows'[v].entered[h].inputs,
                 NEW x, x = windows'[u].entered[i].inputs[k],
                 NEW y, y = windows'[v].entered[h].inputs[l],
                 x.from = y.from, {x, y} \cap excused' = {}
          PROVE  /\ v # u => x.n # y.n
                 /\ v = u /\ (h < i \/ (h = i /\ l < k)) => y.n < x.n
      <4>. DEFINE OldLine(q, g) == /\ g \in DOMAIN windows[q].entered
                                   /\ windows'[q].entered[g] = windows[q].entered[g]
                  NewLine(q, g) == /\ q = j.window /\ g = Len(w.entered) + 1
                                   /\ windows'[q].entered[g] = line
      <4>1. /\ u \in DOMAIN windows /\ (OldLine(u, i) \/ NewLine(u, i))
            /\ v \in DOMAIN windows /\ (OldLine(v, h) \/ NewLine(v, h))
        BY <3>5
      <4>2. x \notin excused' /\ y \notin excused' /\ x \notin excused /\ y \notin excused
        BY <1>7, <3>7
      <4>3. NewLine(u, i) => k \in DOMAIN w.typed /\ x = w.typed[k] /\ x = j.input
        BY <1>15, <3>3, <3>7, <4>2
      <4>4. NewLine(v, h) => l \in DOMAIN w.typed /\ y = w.typed[l] /\ y = j.input
        BY <1>15, <3>3, <3>7, <4>2, SMTT(60)
      <4>5. x \in Inputs /\ y \in Inputs
        BY <1>1, <3>7, <4>1, <4>3, <4>4, EnteredAreInputs, JobTyped, SMTT(60)
      <4>6. CASE OldLine(u, i) /\ OldLine(v, h)
        BY <3>7, <4>1, <4>2, <4>6 DEF InputInv, InputArrivesWhole
      <4>7. CASE NewLine(u, i) /\ OldLine(v, h)
        <5>1. y.n < x.n
          BY <3>4, <3>7, <4>1, <4>2, <4>3, <4>7
        <5>. QED
          BY <4>5, <5>1 DEF Inputs
      <4>8. CASE OldLine(u, i) /\ NewLine(v, h)
        <5>1. x.n < y.n
          BY <3>4, <3>7, <4>1, <4>2, <4>4, <4>8
        <5>2. v = u => i < h
          BY <1>14, <4>8
        <5>3. v = u => i \in Nat /\ h \in Nat
          BY <1>14, <4>8
        <5>. QED
          BY <4>5, <5>1, <5>2, <5>3 DEF Inputs
      <4>9. CASE NewLine(u, i) /\ NewLine(v, h)
        <5>1. u = v /\ i = h /\ k = l
          BY <3>1, <4>2, <4>3, <4>4, <4>9
        <5>2. k \in Nat /\ i \in Nat
          BY <1>2, <1>14, <4>3, <4>9
        <5>. QED
          BY <5>1, <5>2
      <4>. QED
        BY <4>1, <4>6, <4>7, <4>8, <4>9
    <3>. QED
      BY <3>6, <3>7 DEF InputArrivesWhole, EnteredWhole
  <2>. QED
    BY <2>1, <2>2
<1>. QED
  BY <1>9, <1>10, <1>11, <1>16, <1>17 DEF InputInv

LEMMA InputStep == ASSUME InputInv, [InputNext]_inputVars PROVE InputInv'
<1>1. CASE \E b \in Browsers : ReadInput(b)
  BY <1>1, ReadKeeps
<1>2. CASE \E j \in jobs : PeerReceives(j)
  BY <1>2, PeerReceivesKeeps
<1>3. CASE \E j \in jobs : GivesUp(j)
  BY <1>3, GivesUpKeeps
<1>4. CASE \E j \in jobs : PostFails(j) \/ ApplyOther(j) \/ ApplyFails(j)
  BY <1>4, EndingsKeep
<1>5. CASE \E j \in jobs : LookForWindow(j) \/ CheckShell(j)
  BY <1>5, LookAroundKeeps
<1>6. CASE \E j \in jobs : CreateWindow(j)
  BY <1>6, CreateKeeps
<1>7. CASE \E j \in jobs : Type(j)
  BY <1>7, TypeKeeps
<1>8. CASE \E j \in jobs : Enter(j)
  BY <1>8, EnterKeeps
<1>9. CASE \E w \in DOMAIN windows : CommandEnds(w)
  BY <1>9, CommandEndsKeeps
<1>10. CASE UNCHANGED inputVars
  <2>1. UNCHANGED <<sent, jobs, windows, excused, failures>>
    BY <1>10 DEF inputVars
  <2>2. InputTypeOK' /\ JobsApart'
    BY <2>1 DEF InputInv, InputTypeOK, JobsApart
  <2>3. \A j \in jobs' : JobInPlace(j)' /\ JobKnown(j)'
    BY <2>1 DEF InputInv, JobInPlace, JobKnown
  <2>4. \A w \in DOMAIN windows' : TypedIsOfJob(w)' /\ EnteredInOrder(w)'
    BY <2>1 DEF InputInv, TypedIsOfJob, EnteredInOrder, EnteredBefore
  <2>5. InputArrivesWhole'
    BY <2>1, EnteredStays DEF InputInv
  <2>. QED
    BY <2>2, <2>3, <2>4, <2>5 DEF InputInv
<1>. QED
  BY <1>1, <1>2, <1>3, <1>4, <1>5, <1>6, <1>7, <1>8, <1>9, <1>10 DEF InputNext

LEMMA InputInitial == InputInit => InputInv
<1>. SUFFICES ASSUME InputInit PROVE InputInv
  OBVIOUS
<1>1. NewWindow \in PaneWindows /\ ~NewWindow.busy /\ NewWindow.typed = << >>
        /\ NewWindow.entered = << >>
  BY DEF NewWindow, PaneWindows
<1>2. windows \in Seq(PaneWindows) /\ windows # << >> /\ DOMAIN windows = {1}
        /\ windows[1] = NewWindow
  BY <1>1 DEF InputInit
<1>3. InputTypeOK
  BY <1>1, <1>2 DEF InputInit, InputTypeOK, Target
<1>4. JobsApart /\ \A j \in jobs : JobInPlace(j) /\ JobKnown(j)
  BY DEF InputInit, JobsApart
<1>5. \A w \in DOMAIN windows : windows[w].typed = << >> /\ windows[w].entered = << >>
  BY <1>1, <1>2
<1>6. \A w \in DOMAIN windows : TypedIsOfJob(w) /\ EnteredInOrder(w)
  BY <1>5 DEF TypedIsOfJob, EnteredInOrder
<1>7. InputArrivesWhole
  BY <1>5 DEF InputArrivesWhole
<1>. QED
  BY <1>3, <1>4, <1>6, <1>7 DEF InputInv

\* An input arrives whole, alone and in order, or something came between
\* (pane_ws.go:128-146, pane_http_diff.go:225-250).
THEOREM InputHolds == InputSpec => []InputArrivesWhole
<1>1. InputInv => InputArrivesWhole
  BY DEF InputInv
<1>. QED
  BY <1>1, InputInitial, InputStep, PTL DEF InputSpec

(***************************************************************************)
(* PaneRows: a row is read as the pane it shows.  The proof says where     *)
(* each field of the pane stands in its row, finds the places where the    *)
(* parser splits the row again, and compares the fields.                   *)
(***************************************************************************)
Rows == [session : SessionNames, sessionID : {<<"$1">>}, windowIndex : {<<"7">>},
         window : WindowNames, paneIndex : {<<"0">>}, paneID : {<<"%1">>},
         pid : {<<"7">>}, command : CommandNames, path : Paths,
         active : {<<"1">>}, inMode : {<<"0">>, <<"1">>}, windowActive : {<<"0">>}]

\* A sequence appended to another keeps both where they were; so does a piece.
Joins(S, z, t, x) ==
    /\ z \in Seq(S) /\ Len(z) = Len(t) + Len(x)
    /\ \A i \in 1 .. Len(t) : z[i] = t[i]
    /\ \A i \in 1 .. Len(x) : z[Len(t) + i] = x[i]
Adds(z, t, e) ==
    /\ z \in Seq(Pieces) /\ Len(z) = Len(t) + 1
    /\ \A i \in 1 .. Len(t) : z[i] = t[i]
    /\ z[Len(t) + 1] = e

LEMMA Appended ==
    ASSUME NEW S, NEW t \in Seq(S), NEW x \in Seq(S)
    PROVE  Joins(S, t \o x, t, x)
<1>1. /\ t \o x \in Seq(S) /\ Len(t \o x) = Len(t) + Len(x)
      /\ \A i \in 1 .. Len(t) + Len(x) :
             (t \o x)[i] = IF i <= Len(t) THEN t[i] ELSE x[i - Len(t)]
  BY ConcatProperties
<1>2. Len(t) \in Nat /\ Len(x) \in Nat
  BY LenProperties
<1>. DEFINE z == t \o x
<1>. HIDE DEF z
<1>. QED
  BY <1>1, <1>2 DEF Joins, z

LEMMA AppendedOne ==
    ASSUME NEW t \in Seq(Pieces), NEW e \in Pieces
    PROVE  Adds(t \o <<e>>, t, e)
<1>. DEFINE x == <<e>>
            z == t \o x
<1>1. x \in Seq(Pieces) /\ Len(x) = 1 /\ x[1] = e
  OBVIOUS
<1>. HIDE DEF x
<1>2. Joins(Pieces, z, t, x)
  BY <1>1, Appended, Zenon
<1>. HIDE DEF z
<1>3. z[Len(t) + 1] = e
  BY <1>1, <1>2 DEF Joins
<1>4. Adds(z, t, e)
  BY <1>1, <1>2, <1>3 DEF Joins, Adds
<1>. QED
  BY <1>4, Zenon DEF z, x

\* What stands where.
LEMMA RowIs ==
    ASSUME NEW pane \in Rows
    PROVE  LET n == Len(pane.session)
               k == n + 2 + Len(pane.window)
               a == k + 3 + Len(pane.command)
               b == a + Len(pane.path)
               row == Row(pane)
           IN /\ row \in Seq(Pieces) /\ Len(row) = b + 3
              /\ \A i \in 1 .. n : row[i] = pane.session[i]
              /\ row[n + 1] = "$1" /\ row[n + 2] = "7"
              /\ \A i \in 1 .. Len(pane.window) : row[n + 2 + i] = pane.window[i]
              /\ row[k + 1] = "0" /\ row[k + 2] = "%1" /\ row[k + 3] = "7"
              /\ \A i \in 1 .. Len(pane.command) : row[k + 3 + i] = pane.command[i]
              /\ \A i \in 1 .. Len(pane.path) : row[a + i] = pane.path[i]
              /\ row[b + 1] = "1" /\ row[b + 2] \in Flags /\ <<row[b + 2]>> = pane.inMode
              /\ row[b + 3] = "0"
<1>. DEFINE s == pane.session
            w == pane.window
            c == pane.command
            p == pane.path
<1>1. /\ s \in Seq(Pieces) /\ w \in Seq(Pieces) /\ c \in Seq(Pieces) /\ p \in Seq(Pieces)
      /\ Len(s) \in Nat /\ Len(w) \in Nat /\ Len(c) \in Nat /\ Len(p) \in Nat
  BY RowsAssumption, LenProperties DEF Rows
<1>2. PICK m \in Flags : pane.inMode = <<m>>
  BY DEF Rows, Flags
<1>0. "$1" \in Pieces /\ "7" \in Pieces /\ "0" \in Pieces /\ "%1" \in Pieces /\ "1" \in Pieces
  BY RowsAssumption
<1>. DEFINE r1 == s \o <<"$1">>
            r2 == r1 \o <<"7">>
            r3 == r2 \o w
            r4 == r3 \o <<"0">>
            r5 == r4 \o <<"%1">>
            r6 == r5 \o <<"7">>
            r7 == r6 \o c
            r8 == r7 \o p
            r9 == r8 \o <<"1">>
            r10 == r9 \o <<m>>
            row == r10 \o <<"0">>
<1>3. Row(pane) = row
  BY <1>2 DEF Row, Rows
<1>. HIDE DEF s, w, c, p
<1>4. Adds(r1, s, "$1") /\ Adds(r2, r1, "7")
  <2>1. Adds(r1, s, "$1")
    BY <1>1, <1>0, AppendedOne, Zenon
  <2>2. r1 \in Seq(Pieces)
    BY <2>1, Zenon DEF Adds
  <2>. HIDE DEF r1
  <2>3. Adds(r2, r1, "7")
    BY <2>2, <1>0, AppendedOne, Zenon
  <2>. QED
    BY <2>1, <2>3
<1>5. r2 \in Seq(Pieces)
  BY <1>4, Zenon DEF Adds
<1>. HIDE DEF r1, r2
<1>6. Joins(Pieces, r3, r2, w)
  BY <1>1, <1>5, Appended, Zenon
<1>7. r3 \in Seq(Pieces)
  BY <1>6, Zenon DEF Joins
<1>. HIDE DEF r3
<1>8. Adds(r4, r3, "0")
  BY <1>7, <1>0, AppendedOne, Zenon
<1>9. r4 \in Seq(Pieces)
  BY <1>8, Zenon DEF Adds
<1>. HIDE DEF r4
<1>10. Adds(r5, r4, "%1")
  BY <1>9, <1>0, AppendedOne, Zenon
<1>11. r5 \in Seq(Pieces)
  BY <1>10, Zenon DEF Adds
<1>. HIDE DEF r5
<1>12. Adds(r6, r5, "7")
  BY <1>11, <1>0, AppendedOne, Zenon
<1>13. r6 \in Seq(Pieces)
  BY <1>12, Zenon DEF Adds
<1>. HIDE DEF r6
<1>14. Joins(Pieces, r7, r6, c)
  BY <1>1, <1>13, Appended, Zenon
<1>15. r7 \in Seq(Pieces)
  BY <1>14, Zenon DEF Joins
<1>. HIDE DEF r7
<1>16. Joins(Pieces, r8, r7, p)
  BY <1>1, <1>15, Appended, Zenon
<1>17. r8 \in Seq(Pieces)
  BY <1>16, Zenon DEF Joins
<1>. HIDE DEF r8
<1>18. Adds(r9, r8, "1")
  BY <1>17, <1>0, AppendedOne, Zenon
<1>19. r9 \in Seq(Pieces) /\ m \in Pieces
  <2>1. r9 \in Seq(Pieces)
    BY <1>18, Zenon DEF Adds
  <2>2. m \in Pieces
    BY <1>0, Zenon DEF Flags
  <2>. QED
    BY <2>1, <2>2
<1>. HIDE DEF r9
<1>20. Adds(r10, r9, m)
  BY <1>19, <1>0, AppendedOne, Zenon
<1>21. r10 \in Seq(Pieces)
  BY <1>20, Zenon DEF Adds
<1>. HIDE DEF r10
<1>22. Adds(row, r10, "0")
  BY <1>21, <1>0, AppendedOne, Zenon
<1>. HIDE DEF row
<1>. DEFINE n == Len(s)
            k == n + 2 + Len(w)
            a == k + 3 + Len(c)
            b == a + Len(p)
<1>23. /\ Len(r2) = n + 2
       /\ \A i \in 1 .. n : r2[i] = s[i]
       /\ r2[n + 1] = "$1" /\ r2[n + 2] = "7"
  BY <1>1, <1>4 DEF Adds
<1>24. Len(r3) = k /\ (\A i \in 1 .. n + 2 : r3[i] = r2[i])
       /\ \A i \in 1 .. Len(w) : r3[n + 2 + i] = w[i]
  BY <1>6, <1>23 DEF Joins
<1>25. /\ n \in Nat /\ k \in Nat /\ a \in Nat /\ b \in Nat
       /\ n + 2 =< k /\ k + 3 =< a /\ a =< b
  BY <1>1
<1>26. /\ Len(r6) = k + 3
       /\ \A i \in 1 .. k : r6[i] = r3[i]
       /\ r6[k + 1] = "0" /\ r6[k + 2] = "%1" /\ r6[k + 3] = "7"
  <2>. HIDE DEF k
  <2>. QED
    BY <1>8, <1>10, <1>12, <1>24, <1>25 DEF Adds
<1>27. /\ Len(r7) = a
       /\ \A i \in 1 .. k + 3 : r7[i] = r6[i]
       /\ \A i \in 1 .. Len(c) : r7[k + 3 + i] = c[i]
  BY <1>14, <1>26 DEF Joins
<1>28. /\ Len(r8) = b
       /\ \A i \in 1 .. a : r8[i] = r7[i]
       /\ \A i \in 1 .. Len(p) : r8[a + i] = p[i]
  BY <1>16, <1>27 DEF Joins
<1>29. /\ row \in Seq(Pieces) /\ Len(row) = b + 3
       /\ \A i \in 1 .. b : row[i] = r8[i]
       /\ row[b + 1] = "1" /\ row[b + 2] = m /\ row[b + 3] = "0"
  <2>. HIDE DEF b
  <2>. QED
    BY <1>18, <1>20, <1>22, <1>25, <1>28 DEF Adds
<1>30. \A i \in 1 .. Len(p) : row[a + i] = p[i]
  BY <1>1, <1>25, <1>28, <1>29, SMTT(60)
<1>31. \A i \in 1 .. a : row[i] = r7[i]
  <2>. HIDE DEF a, b
  <2>. QED
    BY <1>25, <1>28, <1>29
<1>32. \A i \in 1 .. Len(c) : row[k + 3 + i] = c[i]
  BY <1>1, <1>25, <1>27, <1>31
<1>33. \A i \in 1 .. k + 3 : row[i] = r6[i]
  <2>. HIDE DEF a, b, k
  <2>. QED
    BY <1>25, <1>27, <1>31
<1>34. row[k + 1] = "0" /\ row[k + 2] = "%1" /\ row[k + 3] = "7"
       /\ \A i \in 1 .. k : row[i] = r3[i]
  <2>. HIDE DEF a, b, k
  <2>. QED
    BY <1>25, <1>26, <1>33
<1>35. \A i \in 1 .. Len(w) : row[n + 2 + i] = w[i]
  BY <1>1, <1>24, <1>25, <1>34
<1>36. (\A i \in 1 .. n : row[i] = s[i]) /\ row[n + 1] = "$1" /\ row[n + 2] = "7"
  <2>. HIDE DEF k, n
  <2>. QED
    BY <1>23, <1>24, <1>25, <1>34
<1>. HIDE DEF n, k, a, b
<1>37. LET R == row
       IN /\ R \in Seq(Pieces) /\ Len(R) = b + 3
          /\ \A i \in 1 .. n : R[i] = s[i]
          /\ R[n + 1] = "$1" /\ R[n + 2] = "7"
          /\ \A i \in 1 .. Len(w) : R[n + 2 + i] = w[i]
          /\ R[k + 1] = "0" /\ R[k + 2] = "%1" /\ R[k + 3] = "7"
          /\ \A i \in 1 .. Len(c) : R[k + 3 + i] = c[i]
          /\ \A i \in 1 .. Len(p) : R[a + i] = p[i]
          /\ R[b + 1] = "1" /\ R[b + 2] \in Flags /\ <<R[b + 2]>> = pane.inMode
          /\ R[b + 3] = "0"
  BY <1>2, <1>29, <1>30, <1>32, <1>34, <1>35, <1>36
<1>. QED
  BY <1>3, <1>37, Zenon DEF s, w, c, p, n, k, a, b

\* The first of the positions that fit.
LEMMA FirstFitIs ==
    ASSUME NEW S, S \subseteq Nat, NEW x \in S
    PROVE  /\ FirstFit(S) = Min(S) /\ Min(S) \in S /\ Min(S) =< x
           /\ (\A y \in S : x =< y) => Min(S) = x
<1>1. Min(S) \in S /\ \A y \in S : Min(S) =< y
  BY MinIn
<1>2. FirstFit(S) = Min(S)
  BY DEF FirstFit
<1>. DEFINE m == Min(S)
<1>3. m \in Nat /\ m \in S /\ \A y \in S : m =< y
  BY <1>1
<1>. HIDE DEF m
<1>4. m =< x /\ ((\A y \in S : x =< y) => m = x)
  BY <1>3
<1>. QED
  BY <1>2, <1>3, <1>4 DEF m

\* A part of a sequence.
LEMMA PartIs ==
    ASSUME NEW t \in Seq(Pieces), NEW lo \in Nat \ {0}, NEW hi \in Nat,
           hi =< Len(t), lo =< hi + 1
    PROVE  /\ SubSeq(t, lo, hi) \in Seq(Pieces)
           /\ Len(SubSeq(t, lo, hi)) = hi - lo + 1
           /\ \A i \in 1 .. hi - lo + 1 : SubSeq(t, lo, hi)[i] = t[lo + i - 1]
<1>1. \A i \in lo .. hi : t[i] \in Pieces
  <2>1. \A i \in lo .. hi : i \in 1 .. Len(t)
    OBVIOUS
  <2>. QED
    BY <2>1, ElementOfSeq
<1>2. lo \in Int /\ hi \in Int
  OBVIOUS
<1>3. /\ SubSeq(t, lo, hi) \in Seq(Pieces)
      /\ Len(SubSeq(t, lo, hi)) = IF lo <= hi THEN hi - lo + 1 ELSE 0
      /\ \A i \in 1 .. hi - lo + 1 : SubSeq(t, lo, hi)[i] = t[lo + i - 1]
  BY <1>1, <1>2, SubSeqProperties
<1>4. (IF lo <= hi THEN hi - lo + 1 ELSE 0) = hi - lo + 1
  OBVIOUS
<1>. QED
  BY <1>3, <1>4, Zenon

\* A part that has the elements of a sequence is that sequence.
LEMMA PartEquals ==
    ASSUME NEW t \in Seq(Pieces), NEW x \in Seq(Pieces), NEW lo \in Nat \ {0},
           lo + Len(x) - 1 =< Len(t),
           \A i \in 1 .. Len(x) : t[lo + i - 1] = x[i]
    PROVE  SubSeq(t, lo, lo + Len(x) - 1) = x
<1>. DEFINE hi == lo + Len(x) - 1
            y == SubSeq(t, lo, hi)
<1>1. Len(x) \in Nat /\ hi \in Nat /\ lo =< hi + 1 /\ hi - lo + 1 = Len(x)
  BY LenProperties
<1>2. /\ y \in Seq(Pieces) /\ Len(y) = hi - lo + 1
      /\ \A i \in 1 .. hi - lo + 1 : y[i] = t[lo + i - 1]
  <2>. HIDE DEF hi
  <2>. QED
    BY <1>1, PartIs
<1>. HIDE DEF y
<1>3. Len(y) = Len(x) /\ \A i \in 1 .. Len(y) : y[i] = x[i]
  BY <1>1, <1>2
<1>4. y = x
  BY <1>2, <1>3, SeqEqual
<1>. QED
  BY <1>4 DEF y

\* Pieces that are fields of their own.
LEMMA OneOfTwo ==
    ASSUME NEW t \in Seq(Pieces), NEW lo \in Nat \ {0}, lo + 1 =< Len(t)
    PROVE  LET x == One(SubSeq(t, lo, lo + 1))
           IN x \in Seq(Seq(Pieces)) /\ Len(x) = 2 /\ x[1] = <<t[lo]>> /\ x[2] = <<t[lo + 1]>>
<1>. DEFINE y == SubSeq(t, lo, lo + 1)
<1>1. y \in Seq(Pieces) /\ Len(y) = 2 /\ y[1] = t[lo] /\ y[2] = t[lo + 1]
  <2>1. /\ y \in Seq(Pieces) /\ Len(y) = lo + 1 - lo + 1
        /\ \A i \in 1 .. lo + 1 - lo + 1 : y[i] = t[lo + i - 1]
    BY PartIs
  <2>. HIDE DEF y
  <2>. QED
    BY <2>1
<1>2. DOMAIN y = 1 .. 2 /\ y[1] \in Pieces /\ y[2] \in Pieces
  BY <1>1, LenProperties, ElementOfSeq
<1>. HIDE DEF y
<1>3. One(y) = [i \in 1 .. 2 |-> <<y[i]>>]
  BY <1>2 DEF One
<1>4. \A i \in 1 .. 2 : <<y[i]>> \in Seq(Pieces)
  BY <1>2
<1>5. One(y) \in Seq(Seq(Pieces)) /\ Len(One(y)) = 2 /\ One(y)[1] = <<y[1]>> /\ One(y)[2] = <<y[2]>>
  BY <1>3, <1>4
<1>. QED
  BY <1>1, <1>5 DEF y

LEMMA OneOfThree ==
    ASSUME NEW t \in Seq(Pieces), NEW lo \in Nat \ {0}, lo + 2 =< Len(t)
    PROVE  LET x == One(SubSeq(t, lo, lo + 2))
           IN /\ x \in Seq(Seq(Pieces)) /\ Len(x) = 3
              /\ x[1] = <<t[lo]>> /\ x[2] = <<t[lo + 1]>> /\ x[3] = <<t[lo + 2]>>
<1>. DEFINE y == SubSeq(t, lo, lo + 2)
<1>1. y \in Seq(Pieces) /\ Len(y) = 3 /\ y[1] = t[lo] /\ y[2] = t[lo + 1] /\ y[3] = t[lo + 2]
  <2>1. /\ y \in Seq(Pieces) /\ Len(y) = lo + 2 - lo + 1
        /\ \A i \in 1 .. lo + 2 - lo + 1 : y[i] = t[lo + i - 1]
    BY PartIs
  <2>. HIDE DEF y
  <2>. QED
    BY <2>1
<1>2. DOMAIN y = 1 .. 3 /\ y[1] \in Pieces /\ y[2] \in Pieces /\ y[3] \in Pieces
  BY <1>1, LenProperties, ElementOfSeq
<1>. HIDE DEF y
<1>3. One(y) = [i \in 1 .. 3 |-> <<y[i]>>]
  BY <1>2 DEF One
<1>4. \A i \in 1 .. 3 : <<y[i]>> \in Seq(Pieces)
  BY <1>2
<1>5. /\ One(y) \in Seq(Seq(Pieces)) /\ Len(One(y)) = 3
      /\ One(y)[1] = <<y[1]>> /\ One(y)[2] = <<y[2]>> /\ One(y)[3] = <<y[3]>>
  BY <1>3, <1>4
<1>. QED
  BY <1>1, <1>5 DEF y

\* The row of the pane that is shown: the flags at its end are three, and what
\* is before them begins with the session and its id.
Body == SubSeq(Row(shown), 1, Len(Row(shown)) - 3)
SessionLen == Len(shown.session)
PaneAt == SessionLen + Len(shown.window) + 3        \* where the pane's number is
PathAt == PaneAt + 2 + Len(shown.command) + 1       \* where its path begins

LEMMA BodyIs ==
    ASSUME shown \in Rows
    PROVE  /\ Row(shown) \in Seq(Pieces) /\ SuffixCount(Row(shown)) = 3
           /\ Body \in Seq(Pieces) /\ Len(Row(shown)) = Len(Body) + 3
           /\ Len(Body) = PathAt + Len(shown.path) - 1
           /\ SessionLen \in Nat \ {0} /\ Len(shown.window) \in Nat \ {0}
           /\ Len(shown.command) \in Nat \ {0} /\ Len(shown.path) \in Nat \ {0}
           /\ \A i \in 1 .. SessionLen : Body[i] = shown.session[i]
           /\ Body[SessionLen + 1] = "$1" /\ Body[SessionLen + 2] = "7"
           /\ \A i \in 1 .. Len(shown.window) : Body[SessionLen + 2 + i] = shown.window[i]
           /\ Body[PaneAt] = "0" /\ Body[PaneAt + 1] = "%1" /\ Body[PaneAt + 2] = "7"
           /\ \A i \in 1 .. Len(shown.command) : Body[PaneAt + 2 + i] = shown.command[i]
           /\ \A i \in 1 .. Len(shown.path) : Body[PathAt - 1 + i] = shown.path[i]
           /\ <<Row(shown)[Len(Body) + 1]>> = shown.active
           /\ <<Row(shown)[Len(Body) + 2]>> = shown.inMode
           /\ <<Row(shown)[Len(Body) + 3]>> = shown.windowActive
<1>. DEFINE n == Len(shown.session)
            lw == Len(shown.window)
            lc == Len(shown.command)
            lp == Len(shown.path)
            k == n + 2 + lw
            a == k + 3 + lc
            b == a + lp
            row == Row(shown)
<1>1. /\ row \in Seq(Pieces) /\ Len(row) = b + 3
      /\ \A i \in 1 .. n : row[i] = shown.session[i]
      /\ row[n + 1] = "$1" /\ row[n + 2] = "7"
      /\ \A i \in 1 .. lw : row[n + 2 + i] = shown.window[i]
      /\ row[k + 1] = "0" /\ row[k + 2] = "%1" /\ row[k + 3] = "7"
      /\ \A i \in 1 .. lc : row[k + 3 + i] = shown.command[i]
      /\ \A i \in 1 .. lp : row[a + i] = shown.path[i]
      /\ row[b + 1] = "1" /\ row[b + 2] \in Flags /\ <<row[b + 2]>> = shown.inMode
      /\ row[b + 3] = "0"
  BY RowIs, Zenon
<1>2. /\ n \in Nat \ {0} /\ lw \in Nat \ {0}
      /\ lc \in Nat \ {0} /\ lp \in Nat \ {0}
  <2>1. /\ shown.session \in Seq(Pieces) \ {<< >>} /\ shown.window \in Seq(Pieces) \ {<< >>}
        /\ shown.command \in Seq(Pieces) \ {<< >>} /\ shown.path \in Seq(Pieces) \ {<< >>}
    BY RowsAssumption DEF Rows
  <2>2. \A x \in Seq(Pieces) \ {<< >>} : Len(x) \in Nat \ {0}
    BY LenProperties, EmptySeq
  <2>. QED
    BY <2>1, <2>2, Zenon
<1>3. shown.active = <<"1">> /\ shown.windowActive = <<"0">>
  BY DEF Rows
<1>4. b \in Nat /\ b >= 8 /\ PaneAt = k + 1 /\ PathAt = a + 1
  <2>1. PaneAt = n + lw + 3 /\ PathAt = PaneAt + 2 + lc + 1
    BY DEF PaneAt, PathAt, SessionLen
  <2>. HIDE DEF n, lw, lc, lp
  <2>. QED
    BY <1>2, <2>1
<1>5. n \in Nat /\ k \in Nat /\ a \in Nat /\ n + 2 =< k /\ k + 3 =< a /\ a =< b
  <2>. HIDE DEF n, lw, lc, lp
  <2>. QED
    BY <1>2
<1>. DEFINE B == SubSeq(row, 1, b)
<1>6. B \in Seq(Pieces) /\ Len(B) = b /\ \A i \in 1 .. b : B[i] = row[i]
  <2>. HIDE DEF b, row
  <2>1. /\ B \in Seq(Pieces) /\ Len(B) = b - 1 + 1
        /\ \A i \in 1 .. b - 1 + 1 : B[i] = row[1 + i - 1]
    BY <1>1, <1>4, PartIs
  <2>. HIDE DEF B
  <2>. QED
    BY <1>4, <2>1
<1>7. Body = B
  <2>. HIDE DEF b
  <2>1. Len(row) - 3 = b
    BY <1>1, <1>4
  <2>. QED
    BY <2>1 DEF Body
<1>8. SuffixCount(row) = 3
  <2>. HIDE DEF b, row
  <2>1. \A i \in Len(row) - 3 + 1 .. Len(row) : row[i] \in Flags
    BY <1>1, <1>4 DEF Flags
  <2>2. Len(row) >= 11
    BY <1>1, <1>4
  <2>. QED
    BY <2>1, <2>2 DEF SuffixCount
<1>. HIDE DEF row, B, k, a, b, n, lw, lc, lp
<1>9. /\ \A i \in 1 .. n : B[i] = shown.session[i]
      /\ B[n + 1] = "$1" /\ B[n + 2] = "7"
      /\ B[k + 1] = "0" /\ B[k + 2] = "%1" /\ B[k + 3] = "7"
  BY <1>1, <1>4, <1>5, <1>6
<1>10. ASSUME NEW i \in 1 .. lw
       PROVE  B[n + 2 + i] = shown.window[i]
  <2>1. n + 2 + i \in 1 .. b
    BY <1>2, <1>4, <1>5 DEF k
  <2>. QED
    BY <1>1, <1>6, <2>1
<1>11. ASSUME NEW i \in 1 .. lc
       PROVE  B[k + 3 + i] = shown.command[i]
  <2>1. k + 3 + i \in 1 .. b
    BY <1>2, <1>4, <1>5 DEF a
  <2>. QED
    BY <1>1, <1>6, <2>1
<1>12. ASSUME NEW i \in 1 .. lp
       PROVE  B[a + i] = shown.path[i]
  <2>1. a + i \in 1 .. b
    BY <1>2, <1>4, <1>5 DEF b
  <2>. QED
    BY <1>1, <1>6, <2>1
<1>13. /\ SessionLen = n /\ PaneAt + 1 = k + 2 /\ PaneAt + 2 = k + 3 /\ PathAt - 1 = a
       /\ b = PathAt + lp - 1
  <2>1. b = a + lp /\ SessionLen = n
    BY DEF b, SessionLen, n
  <2>. QED
    BY <1>2, <1>4, <1>5, <2>1
<1>14. /\ row[b + 1] = "1" /\ <<row[b + 2]>> = shown.inMode /\ row[b + 3] = "0"
  BY <1>1, Zenon
<1>15. /\ row \in Seq(Pieces) /\ SuffixCount(row) = 3
       /\ B \in Seq(Pieces) /\ Len(row) = Len(B) + 3
       /\ Len(B) = b
  BY <1>1, <1>6, <1>8
<1>. QED
  BY <1>2, <1>3, <1>4, <1>7, <1>9, <1>10, <1>11, <1>12, <1>13, <1>14, <1>15, Zenon
       DEF row, n, lw, lc, lp

\* Where the parser ends the session: at an id before a number, and at its own
\* unless its name has such a place.
LEMMA SessionEnds ==
    ASSUME shown \in Rows
    PROVE  LET e == AfterSession(Body)
           IN /\ e \in 2 .. SessionLen + 1
              /\ Body[e] = "$1" /\ IsInt(Body[e + 1])
              /\ PlainSession => e = SessionLen + 1
<1>. DEFINE n == SessionLen
            withID == {i \in 2 .. Len(Body) - 1 : IsSessionID(Body[i]) /\ IsInt(Body[i + 1])}
<1>1. /\ n \in Nat \ {0} /\ Len(Body) \in Nat /\ n + 2 =< Len(Body) - 1
      /\ \A i \in 1 .. n : Body[i] = shown.session[i]
      /\ Body[n + 1] = "$1" /\ Body[n + 2] = "7"
  <2>. DEFINE lw == Len(shown.window)
              lc == Len(shown.command)
              lp == Len(shown.path)
  <2>1. /\ n \in Nat \ {0} /\ lw \in Nat \ {0} /\ lc \in Nat \ {0} /\ lp \in Nat \ {0}
        /\ Len(Body) = PathAt + lp - 1
        /\ \A i \in 1 .. n : Body[i] = shown.session[i]
        /\ Body[n + 1] = "$1" /\ Body[n + 2] = "7"
    BY BodyIs, Zenon
  <2>2. PathAt = n + lw + 3 + 2 + lc + 1
    BY DEF PathAt, PaneAt
  <2>. HIDE DEF n, lw, lc, lp
  <2>. QED
    BY <2>1, <2>2
<1>. HIDE DEF n
<1>2. n + 1 \in withID /\ withID \subseteq Nat
  BY <1>1 DEF IsSessionID, IsInt
<1>3. AfterSession(Body) = Min(withID)
  BY <1>2 DEF AfterSession
<1>4. /\ Min(withID) \in withID /\ Min(withID) =< n + 1
      /\ (\A y \in withID : n + 1 =< y) => Min(withID) = n + 1
  <2>. HIDE DEF withID
  <2>. QED
    BY <1>2, FirstFitIs
<1>5. ASSUME PlainSession, NEW y \in withID
      PROVE  n + 1 =< y
  <2>1. SUFFICES ASSUME y =< n PROVE FALSE
    BY <1>1
  <2>2. CASE y = n
    <3>1. Body[y + 1] = "$1"
      BY <1>1, <2>2
    <3>. QED
      BY <3>1 DEF IsInt, Flags
  <2>3. CASE y < n
    <3>1. y \in 2 .. n - 1 /\ y \in 1 .. n /\ y + 1 \in 1 .. n
      BY <1>1, <2>3
    <3>2. IsSessionID(shown.session[y]) /\ IsInt(shown.session[y + 1])
      BY <1>1, <3>1
    <3>. QED
      BY <1>5, <3>1, <3>2 DEF PlainSession, n, SessionLen
  <2>. QED
    BY <1>1, <2>1, <2>2, <2>3
<1>. DEFINE e == AfterSession(Body)
<1>6. e \in withID /\ e =< n + 1 /\ (PlainSession => e = n + 1)
  BY <1>3, <1>4, <1>5
<1>. HIDE DEF e
<1>7. e \in 2 .. n + 1 /\ Body[e] = "$1" /\ IsInt(Body[e + 1])
  BY <1>1, <1>6 DEF IsSessionID
<1>. QED
  BY <1>6, <1>7 DEF e, n

\* And the window: at a number before a pane's id, and at its own unless its name,
\* or that of the session, has such a place.
LEMMA WindowEnds ==
    ASSUME shown \in Rows, NEW from \in 3 .. SessionLen + 4
    PROVE  LET g == AfterWindow(Body, from)
           IN /\ g \in from .. PaneAt
              /\ IsInt(Body[g]) /\ IsPaneID(Body[g + 1]) /\ IsInt(Body[g + 2])
              /\ PlainWindow /\ from = SessionLen + 4 => g = PaneAt
<1>. DEFINE n == SessionLen
            lw == Len(shown.window)
            k == PaneAt
            T == {i \in from .. Len(Body) - 4 :
                     IsInt(Body[i]) /\ IsPaneID(Body[i + 1]) /\ IsInt(Body[i + 2])}
<1>1. /\ n \in Nat \ {0} /\ lw \in Nat \ {0} /\ k = n + lw + 3
      /\ Len(Body) \in Nat /\ k =< Len(Body) - 4
      /\ \A i \in 1 .. lw : Body[n + 2 + i] = shown.window[i]
      /\ Body[k] = "0" /\ Body[k + 1] = "%1" /\ Body[k + 2] = "7"
  <2>. DEFINE lc == Len(shown.command)
              lp == Len(shown.path)
  <2>1. /\ n \in Nat \ {0} /\ lw \in Nat \ {0} /\ lc \in Nat \ {0} /\ lp \in Nat \ {0}
        /\ Len(Body) = PathAt + lp - 1
        /\ \A i \in 1 .. lw : Body[n + 2 + i] = shown.window[i]
        /\ Body[k] = "0" /\ Body[k + 1] = "%1" /\ Body[k + 2] = "7"
    BY BodyIs, Zenon
  <2>2. PathAt = k + 2 + lc + 1 /\ k = n + lw + 3
    BY DEF PathAt, PaneAt
  <2>. HIDE DEF n, lw, lc, lp, k
  <2>. QED
    BY <2>1, <2>2
<1>. HIDE DEF n, lw, k
<1>2. k \in T /\ T \subseteq Nat
  BY <1>1 DEF IsPaneID, IsInt, Flags, n
<1>3. AfterWindow(Body, from) = FirstFit(T)
  BY DEF AfterWindow
<1>4. /\ FirstFit(T) \in T /\ FirstFit(T) =< k
      /\ (\A y \in T : k =< y) => FirstFit(T) = k
  <2>. HIDE DEF T
  <2>. QED
    BY <1>2, FirstFitIs
<1>5. ASSUME PlainWindow, from = n + 4, NEW y \in T
      PROVE  k =< y
  <2>1. SUFFICES ASSUME y < k PROVE FALSE
    BY <1>1
  <2>. DEFINE j == y - n - 2
  <2>2. j \in 2 .. lw /\ y = n + 2 + j
    <3>1. y \in Int /\ n + 4 =< y
      BY <1>1, <1>5
    <3>. QED
      BY <1>1, <2>1, <3>1
  <2>. HIDE DEF j
  <2>3. CASE j = lw
    <3>1. y + 1 = k
      BY <1>1, <2>2, <2>3
    <3>2. Body[y + 1] = "0"
      BY <1>1, <3>1
    <3>. QED
      BY <3>2 DEF IsPaneID
  <2>4. CASE j # lw
    <3>1. j \in 2 .. lw - 1 /\ j \in 1 .. lw /\ j + 1 \in 1 .. lw /\ y + 1 = n + 2 + (j + 1)
      BY <1>1, <2>2, <2>4
    <3>2. Body[y] = shown.window[j] /\ Body[y + 1] = shown.window[j + 1]
      BY <1>1, <2>2, <3>1
    <3>3. IsInt(shown.window[j]) /\ IsPaneID(shown.window[j + 1])
      BY <3>2
    <3>. QED
      BY <1>5, <3>1, <3>3 DEF PlainWindow, lw
  <2>. QED
    BY <2>3, <2>4
<1>. DEFINE g == AfterWindow(Body, from)
<1>6. g \in T /\ g =< k /\ (PlainWindow /\ from = n + 4 => g = k)
  BY <1>3, <1>4, <1>5
<1>. HIDE DEF g
<1>7. g \in from .. k /\ IsInt(Body[g]) /\ IsPaneID(Body[g + 1]) /\ IsInt(Body[g + 2])
  BY <1>1, <1>6
<1>. QED
  BY <1>6, <1>7 DEF g, n, k

\* What is left begins with the command, and its path is found unless the command
\* has what looks like one.
LEMMA PathIsFound ==
    ASSUME shown \in Rows, NEW g \in 3 .. PaneAt
    PROVE  LET rest == SubSeq(Body, g + 3, Len(Body))
           IN /\ rest \in Seq(Pieces) /\ PathBegins(rest) \in 2 .. Len(rest)
              /\ g = PaneAt /\ PlainCommand =>
                    /\ SubSeq(rest, 1, PathBegins(rest) - 1) = shown.command
                    /\ SubSeq(rest, PathBegins(rest), Len(rest)) = shown.path
<1>. DEFINE c == shown.command
            p == shown.path
            lc == Len(c)
            lp == Len(p)
            k == PaneAt
            rest == SubSeq(Body, g + 3, Len(Body))
            paths == {i \in 2 .. Len(rest) : LooksLikePath(rest[i])}
            at == PathBegins(rest)
<1>1. /\ Body \in Seq(Pieces) /\ Len(Body) \in Nat /\ Len(Body) = k + 2 + lc + lp
      /\ lc \in Nat \ {0} /\ lp \in Nat \ {0} /\ k \in Nat
      /\ \A i \in 1 .. lc : Body[k + 2 + i] = c[i]
      /\ \A i \in 1 .. lp : Body[k + 2 + lc + i] = p[i]
  <2>1. /\ Body \in Seq(Pieces) /\ Len(Body) = PathAt + lp - 1
        /\ SessionLen \in Nat \ {0} /\ Len(shown.window) \in Nat \ {0}
        /\ lc \in Nat \ {0} /\ lp \in Nat \ {0}
        /\ \A i \in 1 .. lc : Body[k + 2 + i] = c[i]
        /\ \A i \in 1 .. lp : Body[PathAt - 1 + i] = p[i]
    BY BodyIs, Zenon
  <2>2. k \in Nat
    BY <2>1 DEF PaneAt
  <2>3. PathAt = k + 2 + lc + 1
    BY DEF PathAt
  <2>. HIDE DEF lc, lp, k, c, p
  <2>4. lc \in Nat \ {0} /\ lp \in Nat \ {0}
    BY <2>1, Zenon
  <2>5. PathAt - 1 = k + 2 + lc /\ PathAt + lp - 1 = k + 2 + lc + lp /\ k + 2 + lc + lp \in Nat
    BY <2>2, <2>3, <2>4
  <2>. QED
    BY <2>1, <2>2, <2>5, Zenon
<1>2. c \in Seq(Pieces) /\ p \in Seq(Pieces) /\ p \in Paths
  BY RowsAssumption DEF Rows
<1>. HIDE DEF c, p, lc, lp, k
<1>3. /\ rest \in Seq(Pieces) /\ Len(rest) = Len(Body) - g - 2 /\ Len(rest) \in Nat /\ Len(rest) >= 2
      /\ \A i \in 1 .. Len(rest) : rest[i] = Body[g + 2 + i]
  <2>1. g \in Nat /\ g =< k /\ g >= 3
    BY <1>1 DEF k
  <2>2. g + 3 \in Nat \ {0} /\ Len(Body) \in Nat /\ g + 3 =< Len(Body) + 1
    BY <1>1, <2>1
  <2>3. /\ rest \in Seq(Pieces) /\ Len(rest) = Len(Body) - (g + 3) + 1
        /\ \A i \in 1 .. Len(Body) - (g + 3) + 1 : rest[i] = Body[g + 3 + i - 1]
    BY <1>1, <2>2, PartIs
  <2>. HIDE DEF rest
  <2>4. Len(rest) = Len(Body) - g - 2 /\ Len(rest) \in Nat /\ Len(rest) >= 2
    BY <1>1, <2>1, <2>3
  <2>5. ASSUME NEW i \in 1 .. Len(rest)
        PROVE  rest[i] = Body[g + 2 + i]
    <3>1. i \in 1 .. Len(Body) - (g + 3) + 1 /\ g + 3 + i - 1 = g + 2 + i
      BY <1>1, <2>1, <2>4
    <3>. QED
      BY <2>3, <3>1
  <2>. QED
    BY <2>3, <2>4, <2>5
<1>. HIDE DEF rest
<1>4. at = IF paths = {} THEN 2 ELSE Min(paths)
  BY DEF PathBegins
<1>5. paths \subseteq 2 .. Len(rest) /\ paths \subseteq Nat
  BY <1>3
<1>6. paths # {} => Min(paths) \in paths /\ \A y \in paths : Min(paths) =< y
  <2>. HIDE DEF paths
  <2>. QED
    BY <1>5, MinIn
<1>. HIDE DEF at
<1>7. at \in 2 .. Len(rest)
  BY <1>3, <1>4, <1>5, <1>6
<1>8. ASSUME g = k, PlainCommand
      PROVE  SubSeq(rest, 1, at - 1) = c /\ SubSeq(rest, at, Len(rest)) = p
  <2>1. /\ Len(rest) = lc + lp
        /\ \A i \in 1 .. lc : rest[i] = c[i]
        /\ \A i \in 1 .. lp : rest[lc + i] = p[i]
    <3>1. Len(rest) = lc + lp
      <4>1. Len(rest) = Len(Body) - g - 2 /\ Len(Body) = k + 2 + lc + lp
            /\ k \in Nat /\ lc \in Nat /\ lp \in Nat
        BY <1>1, <1>3
      <4>. QED
        BY <1>8, <4>1
    <3>2. ASSUME NEW i \in 1 .. lc
          PROVE  rest[i] = c[i]
      <4>1. i \in 1 .. Len(rest) /\ g + 2 + i = k + 2 + i
        BY <1>1, <1>8, <3>1
      <4>. QED
        BY <1>1, <1>3, <4>1
    <3>3. ASSUME NEW i \in 1 .. lp
          PROVE  rest[lc + i] = p[i]
      <4>1. lc + i \in 1 .. Len(rest) /\ g + 2 + (lc + i) = k + 2 + lc + i
        BY <1>1, <1>8, <3>1
      <4>. QED
        BY <1>1, <1>3, <4>1
    <3>. QED
      BY <3>1, <3>2, <3>3
  <2>2. /\ \A i \in 2 .. lc : ~LooksLikePath(c[i])
        /\ lc = 1 \/ LooksLikePath(p[1])
        /\ LooksLikePath(p[1]) \/ lp = 1
    BY <1>2, <1>8, RowsAssumption DEF PlainCommand, c, p, lc, lp
  <2>3. ASSUME NEW y \in paths
        PROVE  lc + 1 =< y
    <3>1. y \in Nat /\ y >= 2 /\ LooksLikePath(rest[y])
      BY <1>3
    <3>2. ASSUME y =< lc
          PROVE  FALSE
      <4>1. y \in 2 .. lc /\ y \in 1 .. lc
        BY <1>1, <3>1, <3>2
      <4>. QED
        BY <2>1, <2>2, <3>1, <4>1, Zenon
    <3>. QED
      BY <1>1, <3>1, <3>2
  <2>4. at = lc + 1
    <3>1. CASE LooksLikePath(p[1])
      <4>1. rest[lc + 1] = p[1] /\ lc + 1 \in 2 .. Len(rest)
        BY <1>1, <2>1
      <4>2. lc + 1 \in paths
        BY <3>1, <4>1
      <4>. HIDE DEF paths
      <4>3. at \in paths /\ at =< lc + 1 /\ lc + 1 =< at
        BY <1>4, <1>6, <2>3, <4>2
      <4>4. at \in Nat /\ lc \in Nat
        BY <1>1, <1>7
      <4>. QED
        BY <4>3, <4>4
    <3>2. CASE ~LooksLikePath(p[1])
      <4>1. lc = 1 /\ lp = 1 /\ rest[2] = p[1] /\ Len(rest) = 2
        BY <2>1, <2>2, <3>2
      <4>2. paths = {}
        BY <3>2, <4>1
      <4>. QED
        BY <1>4, <4>1, <4>2
    <3>. QED
      BY <3>1, <3>2
  <2>5. SubSeq(rest, 1, 1 + Len(c) - 1) = c
    <3>1. 1 + Len(c) - 1 =< Len(rest) /\ \A i \in 1 .. Len(c) : rest[1 + i - 1] = c[i]
      BY <1>1, <2>1 DEF lc
    <3>. QED
      BY <1>2, <1>3, <3>1, PartEquals
  <2>6. SubSeq(rest, lc + 1, lc + 1 + Len(p) - 1) = p
    <3>1. /\ lc + 1 \in Nat \ {0} /\ lc + 1 + Len(p) - 1 =< Len(rest)
          /\ \A i \in 1 .. Len(p) : rest[lc + 1 + i - 1] = p[i]
      BY <1>1, <2>1 DEF lp
    <3>. QED
      BY <1>2, <1>3, <3>1, PartEquals
  <2>7. 1 + Len(c) - 1 = at - 1 /\ lc + 1 + Len(p) - 1 = Len(rest)
    BY <1>1, <2>1, <2>4 DEF lc, lp
  <2>. QED
    BY <2>4, <2>5, <2>6, <2>7
<1>. QED
  BY <1>3, <1>7, <1>8 DEF rest, at, c, p, k

\* The fields that the row is split into.
RestFrom(g) == SubSeq(Body, g + 3, Len(Body))
LEMMA FieldsAre ==
    ASSUME shown \in Rows
    PROVE  \E e \in 2 .. SessionLen + 1, g \in 3 .. PaneAt, fields \in Seq(Seq(Pieces)) :
               /\ Normalized(Row(shown)) = fields /\ Len(fields) = 12
               /\ PlainSession => e = SessionLen + 1
               /\ PlainSession /\ PlainWindow => g = PaneAt
               /\ Body[e] = "$1" /\ IsInt(Body[e + 1])
               /\ IsInt(Body[g]) /\ IsPaneID(Body[g + 1]) /\ IsInt(Body[g + 2])
               /\ fields[1] = SubSeq(Body, 1, e - 1)
               /\ fields[2] = <<Body[e]>> /\ fields[3] = <<Body[e + 1]>>
               /\ fields[4] = SubSeq(Body, e + 2, g - 1)
               /\ fields[5] = <<Body[g]>> /\ fields[6] = <<Body[g + 1]>> /\ fields[7] = <<Body[g + 2]>>
               /\ fields[8] = SubSeq(RestFrom(g), 1, PathBegins(RestFrom(g)) - 1)
               /\ fields[9] = SubSeq(RestFrom(g), PathBegins(RestFrom(g)), Len(RestFrom(g)))
               /\ fields[10] = shown.active /\ fields[11] = shown.inMode
               /\ fields[12] = shown.windowActive
<1>. DEFINE row == Row(shown)
            e == AfterSession(Body)
            from == e + 1 + 2
            g == AfterWindow(Body, from)
            rest == RestFrom(g)
            at == PathBegins(rest)
            n == SessionLen
            k == PaneAt
<1>1. e \in 2 .. n + 1 /\ Body[e] = "$1" /\ IsInt(Body[e + 1]) /\ (PlainSession => e = n + 1)
  BY SessionEnds, Zenon
<1>2. /\ row \in Seq(Pieces) /\ SuffixCount(row) = 3
      /\ Body \in Seq(Pieces) /\ Len(row) = Len(Body) + 3 /\ Len(Body) \in Nat
      /\ n \in Nat \ {0} /\ k \in Nat /\ n + 4 =< k /\ k + 4 =< Len(Body)
      /\ <<row[Len(Body) + 1]>> = shown.active
      /\ <<row[Len(Body) + 2]>> = shown.inMode
      /\ <<row[Len(Body) + 3]>> = shown.windowActive
  <2>. DEFINE lw == Len(shown.window)
              lc == Len(shown.command)
              lp == Len(shown.path)
  <2>1. /\ row \in Seq(Pieces) /\ SuffixCount(row) = 3
        /\ Body \in Seq(Pieces) /\ Len(row) = Len(Body) + 3
        /\ <<row[Len(Body) + 1]>> = shown.active
        /\ <<row[Len(Body) + 2]>> = shown.inMode
        /\ <<row[Len(Body) + 3]>> = shown.windowActive
    BY BodyIs, Zenon
  <2>2. /\ n \in Nat \ {0} /\ lw \in Nat \ {0} /\ lc \in Nat \ {0} /\ lp \in Nat \ {0}
        /\ Len(Body) = PathAt + lp - 1
    BY BodyIs, Zenon
  <2>3. PathAt = k + 2 + lc + 1 /\ k = n + lw + 3
    BY DEF PathAt, PaneAt
  <2>. HIDE DEF n, lw, lc, lp, k
  <2>4. /\ Len(Body) \in Nat
        /\ n \in Nat \ {0} /\ k \in Nat /\ n + 4 =< k /\ k + 4 =< Len(Body)
    BY <2>2, <2>3
  <2>. QED
    BY <2>1, <2>4
<1>3. from \in 3 .. n + 4 /\ from = e + 3 /\ e \in Nat
  <2>. HIDE DEF e, n
  <2>. QED
    BY <1>1, <1>2
<1>4. /\ g \in from .. k /\ IsInt(Body[g]) /\ IsPaneID(Body[g + 1]) /\ IsInt(Body[g + 2])
      /\ PlainWindow /\ from = n + 4 => g = k
  <2>. HIDE DEF from
  <2>. QED
    BY <1>3, WindowEnds, Zenon
<1>. DEFINE f1 == << SubSeq(Body, 1, e - 1) >>
            f2 == One(SubSeq(Body, e, e + 1))
            f3 == << SubSeq(Body, e + 1 + 1, g - 1) >>
            f4 == One(SubSeq(Body, g, g + 2))
            f5 == << SubSeq(rest, 1, at - 1), SubSeq(rest, at, Len(rest)) >>
            f6 == One(SubSeq(row, Len(Body) + 1, Len(row)))
            g2 == f1 \o f2
            g3 == g2 \o f3
            g4 == g3 \o f4
            g5 == g4 \o f5
            fields == g5 \o f6
<1>5. /\ g \in Nat /\ e + 2 =< g /\ g >= 3 /\ g =< k /\ g + 4 =< Len(Body) /\ g \in 3 .. k
      /\ e + 1 =< Len(Body) /\ e \in Nat \ {0}
  <2>. HIDE DEF e, from, g, n, k
  <2>1. from \in Nat /\ from >= 3 /\ from = e + 3 /\ k \in Nat /\ k + 4 =< Len(Body) /\ Len(Body) \in Nat
    BY <1>2, <1>3
  <2>2. g \in from .. k
    BY <1>4
  <2>3. e \in Nat \ {0} /\ e =< n + 1 /\ n \in Nat /\ n + 4 =< k
    BY <1>1, <1>2
  <2>4. g \in Nat /\ from =< g /\ g =< k
    BY <2>1, <2>2
  <2>. QED
    BY <2>1, <2>3, <2>4
<1>6. Normalized(row) = fields
  <2>1. SubSeq(row, 1, Len(row) - SuffixCount(row)) = Body
    BY <1>2 DEF Body
  <2>2. e # 0 /\ g # 0
    <3>. HIDE DEF e, from, g
    <3>. QED
      BY <1>5
  <2>3. IsSessionID(Body[e])
    BY <1>1 DEF IsSessionID
  <2>4. (IF e # 0 /\ IsSessionID(Body[e]) THEN e + 1 ELSE e) = e + 1
    BY <2>2, <2>3
  <2>5. 0 \notin {SuffixCount(row), e, g}
    BY <1>2, <2>2
  <2>. QED
    BY <2>1, <2>4, <2>5, ZenonT(60) DEF Normalized, RestFrom
<1>7. rest \in Seq(Pieces) /\ at \in 2 .. Len(rest) /\ Len(rest) \in Nat
  <2>1. rest \in Seq(Pieces) /\ at \in 2 .. Len(rest)
    <3>. HIDE DEF g
    <3>. QED
      BY <1>5, PathIsFound, Zenon DEF RestFrom
  <2>. QED
    BY <2>1, LenProperties
<1>. HIDE DEF row, e, from, g, rest, at, n, k
<1>8. f1 \in Seq(Seq(Pieces)) /\ Len(f1) = 1 /\ f1[1] = SubSeq(Body, 1, e - 1)
  <2>1. SubSeq(Body, 1, e - 1) \in Seq(Pieces)
    <3>1. 1 \in Nat \ {0} /\ e - 1 \in Nat /\ e - 1 =< Len(Body) /\ 1 =< e - 1 + 1
      BY <1>2, <1>5
    <3>. QED
      BY <1>2, <3>1, PartIs
  <2>. DEFINE x == SubSeq(Body, 1, e - 1)
  <2>. HIDE DEF x
  <2>2. <<x>> \in Seq(Seq(Pieces)) /\ Len(<<x>>) = 1 /\ <<x>>[1] = x
    BY <2>1 DEF x
  <2>. QED
    BY <2>2, Zenon DEF x
<1>9. f2 \in Seq(Seq(Pieces)) /\ Len(f2) = 2 /\ f2[1] = <<Body[e]>> /\ f2[2] = <<Body[e + 1]>>
  BY <1>2, <1>5, OneOfTwo, Zenon
<1>10. f3 \in Seq(Seq(Pieces)) /\ Len(f3) = 1 /\ f3[1] = SubSeq(Body, e + 2, g - 1)
  <2>1. e + 1 + 1 = e + 2
    BY <1>5
  <2>. DEFINE x == SubSeq(Body, e + 2, g - 1)
  <2>2. x \in Seq(Pieces)
    <3>1. e + 2 \in Nat \ {0} /\ g - 1 \in Nat /\ g - 1 =< Len(Body) /\ e + 2 =< g - 1 + 1
      BY <1>2, <1>5
    <3>. QED
      BY <1>2, <3>1, PartIs
  <2>3. f3 = <<x>>
    BY <2>1
  <2>. HIDE DEF x, f3
  <2>4. <<x>> \in Seq(Seq(Pieces)) /\ Len(<<x>>) = 1 /\ <<x>>[1] = x
    BY <2>2
  <2>. QED
    BY <2>3, <2>4, Zenon DEF x
<1>11. /\ f4 \in Seq(Seq(Pieces)) /\ Len(f4) = 3
       /\ f4[1] = <<Body[g]>> /\ f4[2] = <<Body[g + 1]>> /\ f4[3] = <<Body[g + 2]>>
  <2>1. g \in Nat \ {0} /\ g + 2 =< Len(Body)
    BY <1>2, <1>5
  <2>. QED
    BY <1>2, <2>1, OneOfThree, Zenon
<1>12. /\ f5 \in Seq(Seq(Pieces)) /\ Len(f5) = 2
       /\ f5[1] = SubSeq(rest, 1, at - 1) /\ f5[2] = SubSeq(rest, at, Len(rest))
  <2>. DEFINE x == SubSeq(rest, 1, at - 1)
              y == SubSeq(rest, at, Len(rest))
  <2>1. x \in Seq(Pieces)
    <3>1. 1 \in Nat \ {0} /\ at - 1 \in Nat /\ at - 1 =< Len(rest) /\ 1 =< at - 1 + 1
      BY <1>7
    <3>. QED
      BY <1>7, <3>1, PartIs
  <2>2. y \in Seq(Pieces)
    <3>1. at \in Nat \ {0} /\ Len(rest) =< Len(rest) /\ at =< Len(rest) + 1
      BY <1>7
    <3>. QED
      BY <1>7, <3>1, PartIs
  <2>. HIDE DEF x, y
  <2>3. /\ <<x, y>> \in Seq(Seq(Pieces)) /\ Len(<<x, y>>) = 2
        /\ <<x, y>>[1] = x /\ <<x, y>>[2] = y
    BY <2>1, <2>2
  <2>. QED
    BY <2>3, Zenon DEF x, y
<1>13. /\ f6 \in Seq(Seq(Pieces)) /\ Len(f6) = 3
       /\ f6[1] = shown.active /\ f6[2] = shown.inMode /\ f6[3] = shown.windowActive
  <2>. DEFINE b == Len(Body) + 1
  <2>1. /\ b \in Nat \ {0} /\ b + 2 =< Len(row) /\ b + 2 = Len(row)
        /\ b + 1 = Len(Body) + 2 /\ b + 2 = Len(Body) + 3
    BY <1>2
  <2>. HIDE DEF b
  <2>2. LET x == One(SubSeq(row, b, b + 2))
        IN /\ x \in Seq(Seq(Pieces)) /\ Len(x) = 3
           /\ x[1] = <<row[b]>> /\ x[2] = <<row[b + 1]>> /\ x[3] = <<row[b + 2]>>
    BY <1>2, <2>1, OneOfThree, Zenon
  <2>. QED
    BY <1>2, <2>1, <2>2, Zenon DEF b
<1>. HIDE DEF f1, f2, f3, f4, f5, f6
<1>14. Joins(Seq(Pieces), g2, f1, f2)
  BY <1>8, <1>9, Appended, Zenon
<1>15. g2 \in Seq(Seq(Pieces))
  BY <1>14, Zenon DEF Joins
<1>. HIDE DEF g2
<1>16. Joins(Seq(Pieces), g3, g2, f3)
  BY <1>10, <1>15, Appended, Zenon
<1>17. g3 \in Seq(Seq(Pieces))
  BY <1>16, Zenon DEF Joins
<1>. HIDE DEF g3
<1>18. Joins(Seq(Pieces), g4, g3, f4)
  BY <1>11, <1>17, Appended, Zenon
<1>19. g4 \in Seq(Seq(Pieces))
  BY <1>18, Zenon DEF Joins
<1>. HIDE DEF g4
<1>20. Joins(Seq(Pieces), g5, g4, f5)
  BY <1>12, <1>19, Appended, Zenon
<1>21. g5 \in Seq(Seq(Pieces))
  BY <1>20, Zenon DEF Joins
<1>. HIDE DEF g5
<1>22. Joins(Seq(Pieces), fields, g5, f6)
  BY <1>13, <1>21, Appended, Zenon
<1>. HIDE DEF fields
<1>23. Len(g2) = 3 /\ g2[1] = f1[1] /\ g2[2] = f2[1] /\ g2[3] = f2[2]
  BY <1>8, <1>9, <1>14 DEF Joins
<1>24. Len(g3) = 4 /\ (\A i \in 1 .. 3 : g3[i] = g2[i]) /\ g3[4] = f3[1]
  BY <1>10, <1>16, <1>23 DEF Joins
<1>25. Len(g4) = 7 /\ (\A i \in 1 .. 4 : g4[i] = g3[i])
       /\ g4[5] = f4[1] /\ g4[6] = f4[2] /\ g4[7] = f4[3]
  BY <1>11, <1>18, <1>24 DEF Joins
<1>26. Len(g5) = 9 /\ (\A i \in 1 .. 7 : g5[i] = g4[i]) /\ g5[8] = f5[1] /\ g5[9] = f5[2]
  BY <1>12, <1>20, <1>25 DEF Joins
<1>27. /\ fields \in Seq(Seq(Pieces)) /\ Len(fields) = 12 /\ (\A i \in 1 .. 9 : fields[i] = g5[i])
       /\ fields[10] = f6[1] /\ fields[11] = f6[2] /\ fields[12] = f6[3]
  BY <1>13, <1>22, <1>26 DEF Joins
<1>28. /\ fields[1] = SubSeq(Body, 1, e - 1)
       /\ fields[2] = <<Body[e]>> /\ fields[3] = <<Body[e + 1]>>
       /\ fields[4] = SubSeq(Body, e + 2, g - 1)
       /\ fields[5] = <<Body[g]>> /\ fields[6] = <<Body[g + 1]>> /\ fields[7] = <<Body[g + 2]>>
       /\ fields[8] = SubSeq(rest, 1, at - 1) /\ fields[9] = SubSeq(rest, at, Len(rest))
       /\ fields[10] = shown.active /\ fields[11] = shown.inMode /\ fields[12] = shown.windowActive
  <2>1. /\ fields[1] = f1[1] /\ fields[2] = f2[1] /\ fields[3] = f2[2] /\ fields[4] = f3[1]
        /\ fields[5] = f4[1] /\ fields[6] = f4[2] /\ fields[7] = f4[3]
        /\ fields[8] = f5[1] /\ fields[9] = f5[2]
    BY <1>23, <1>24, <1>25, <1>26, <1>27
  <2>. QED
    BY <1>8, <1>9, <1>10, <1>11, <1>12, <1>13, <1>27, <2>1, Zenon
<1>29. PlainSession /\ PlainWindow => g = k
  <2>1. e = n + 1 => from = n + 4
    BY <1>2, <1>3
  <2>. QED
    BY <1>1, <1>4, <2>1
<1>30. e \in 2 .. SessionLen + 1 /\ g \in 3 .. PaneAt /\ n = SessionLen /\ k = PaneAt
  BY <1>1, <1>5, Zenon DEF n, k
<1>. QED
  BY <1>1, <1>4, <1>6, <1>27, <1>28, <1>29, <1>30, Zenon DEF rest, at, row

\* The names of the fields are different, so each is at one place.
LEMMA FieldAt ==
    ASSUME NEW i \in 1 .. 12
    PROVE  /\ PaneFields[i] \in Range(PaneFields) /\ i \in DOMAIN PaneFields
           /\ (CHOOSE k \in DOMAIN PaneFields : PaneFields[k] = PaneFields[i]) = i
<1>1. DOMAIN PaneFields = 1 .. 12
  BY DEF PaneFields
<1>2. \A j \in 1 .. 12 : PaneFields[j] = PaneFields[i] => j = i
  <2>1. /\ PaneFields[1] = "session" /\ PaneFields[2] = "sessionID"
        /\ PaneFields[3] = "windowIndex" /\ PaneFields[4] = "window"
        /\ PaneFields[5] = "paneIndex" /\ PaneFields[6] = "paneID"
        /\ PaneFields[7] = "pid" /\ PaneFields[8] = "command"
        /\ PaneFields[9] = "path" /\ PaneFields[10] = "active"
        /\ PaneFields[11] = "inMode" /\ PaneFields[12] = "windowActive"
    BY DEF PaneFields
  <2>2. 1 .. 12 = {1, 2, 3, 4, 5, 6, 7, 8, 9, 10, 11, 12}
    OBVIOUS
  <2>. QED
    BY <2>1, <2>2
<1>3. PaneFields[i] \in Range(PaneFields)
  BY <1>1 DEF Range
<1>. QED
  BY <1>1, <1>2, <1>3

\* The row is accepted, and its fields are taken in their order.
ParsedAs(row, fields) ==
    /\ ParsePane(row) # Refused
    /\ ParsePane(row) = [f \in Range(PaneFields) |-> ParsePane(row)[f]]
    /\ \A i \in 1 .. 12 : ParsePane(row)[PaneFields[i]] = fields[i]
LEMMA ParsedIs ==
    ASSUME NEW row, NEW fields, Normalized(row) = fields, Len(fields) = 12,
           Len(fields[2]) = 1, ~IsInt(fields[2][1]),
           Len(fields[3]) = 1, IsInt(fields[3][1]),
           Len(fields[5]) = 1, IsInt(fields[5][1]),
           Len(fields[7]) = 1, IsInt(fields[7][1])
    PROVE  ParsedAs(row, fields)
<1>. DEFINE offset == IF Len(fields[2]) = 1 /\ IsInt(fields[2][1]) THEN 0 ELSE 1
            Place(f) == CHOOSE k \in DOMAIN PaneFields : PaneFields[k] = f
            At12(i) == IF i = 1 THEN 1 ELSE i - 1 + offset
            Value(f) == IF f = "sessionID" /\ offset = 0 THEN <<"">>
                        ELSE IF At12(Place(f)) > Len(fields) THEN <<"1">> ELSE fields[At12(Place(f))]
            parsed == [f \in Range(PaneFields) |-> Value(f)]
<1>1. offset = 1
  OBVIOUS
<1>2. ParsePane(row) = parsed
  <2>1. /\ ~(Len(fields) \notin 10 .. 12)
        /\ Len(fields[2 + 1]) = 1 /\ IsInt(fields[2 + 1][1])
        /\ Len(fields[4 + 1]) = 1 /\ IsInt(fields[4 + 1][1])
        /\ Len(fields[6 + 1]) = 1 /\ IsInt(fields[6 + 1][1])
    OBVIOUS
  <2>. QED
    BY <1>1, <2>1 DEF ParsePane
<1>3. ASSUME NEW i \in 1 .. 12
      PROVE  parsed[PaneFields[i]] = fields[i]
  <2>1. Place(PaneFields[i]) = i /\ PaneFields[i] \in Range(PaneFields)
    BY FieldAt
  <2>2. At12(i) = i
    BY <1>1
  <2>3. Value(PaneFields[i]) = fields[i]
    <3>1. i =< Len(fields)
      OBVIOUS
    <3>. HIDE DEF offset, Place, At12
    <3>. QED
      BY <1>1, <2>1, <2>2, <3>1
  <2>. QED
    BY <2>1, <2>3
<1>4. parsed # Refused
  <2>1. "session" \in Range(PaneFields)
    <3>1. PaneFields[1] = "session"
      BY DEF PaneFields
    <3>2. PaneFields[1] \in Range(PaneFields)
      BY FieldAt
    <3>. QED
      BY <3>1, <3>2
  <2>2. DOMAIN parsed = Range(PaneFields)
    OBVIOUS
  <2>3. DOMAIN Refused = {"refused"}
    BY DEF Refused
  <2>. QED
    BY <2>1, <2>2, <2>3
<1>5. parsed = [f \in Range(PaneFields) |-> parsed[f]]
  OBVIOUS
<1>. HIDE DEF parsed
<1>. QED
  BY <1>2, <1>3, <1>4, <1>5 DEF ParsedAs

\* The row of any pane is accepted and read as that pane, as far as its names can
\* be told from what follows them (client.go:523-648).
THEOREM RowsHold == RowsSpec => []RowsAreRead
<1>. DEFINE Inv == shown \in Rows /\ read \in {Unread, ParsePane(Row(shown))}
<1>1. RowsInit => Inv
  BY DEF RowsInit, Rows
<1>2. Inv /\ [ReadRow]_rowVars => Inv'
  BY DEF ReadRow, rowVars, Row, Rows
<1>3. Inv => RowsAreRead
  <2>1. SUFFICES ASSUME shown \in Rows, read = ParsePane(Row(shown))
                 PROVE  RowsAreRead
    BY DEF RowsAreRead
  <2>2. PICK e \in 2 .. SessionLen + 1, g \in 3 .. PaneAt, fields \in Seq(Seq(Pieces)) :
            /\ Normalized(Row(shown)) = fields /\ Len(fields) = 12
            /\ PlainSession => e = SessionLen + 1
            /\ PlainSession /\ PlainWindow => g = PaneAt
            /\ Body[e] = "$1" /\ IsInt(Body[e + 1])
            /\ IsInt(Body[g]) /\ IsPaneID(Body[g + 1]) /\ IsInt(Body[g + 2])
            /\ fields[1] = SubSeq(Body, 1, e - 1)
            /\ fields[2] = <<Body[e]>> /\ fields[3] = <<Body[e + 1]>>
            /\ fields[4] = SubSeq(Body, e + 2, g - 1)
            /\ fields[5] = <<Body[g]>> /\ fields[6] = <<Body[g + 1]>> /\ fields[7] = <<Body[g + 2]>>
            /\ fields[8] = SubSeq(RestFrom(g), 1, PathBegins(RestFrom(g)) - 1)
            /\ fields[9] = SubSeq(RestFrom(g), PathBegins(RestFrom(g)), Len(RestFrom(g)))
            /\ fields[10] = shown.active /\ fields[11] = shown.inMode
            /\ fields[12] = shown.windowActive
    BY <2>1, FieldsAre, Zenon
  <2>3. \A x : Len(<<x>>) = 1 /\ <<x>>[1] = x
    OBVIOUS
  <2>4. ~IsInt(Body[e])
    BY <2>2 DEF IsInt, Flags
  <2>5. /\ read # Refused /\ read = [f \in Range(PaneFields) |-> read[f]]
        /\ \A i \in 1 .. 12 : read[PaneFields[i]] = fields[i]
    <3>1. /\ Len(fields[2]) = 1 /\ ~IsInt(fields[2][1])
          /\ Len(fields[3]) = 1 /\ IsInt(fields[3][1])
          /\ Len(fields[5]) = 1 /\ IsInt(fields[5][1])
          /\ Len(fields[7]) = 1 /\ IsInt(fields[7][1])
      BY <2>2, <2>3, <2>4, ZenonT(60)
    <3>2. Normalized(Row(shown)) = fields /\ Len(fields) = 12
      BY <2>2
    <3>. DEFINE row == Row(shown)
    <3>3. read = ParsePane(row) /\ Normalized(row) = fields
      BY <2>1, <3>2
    <3>. HIDE DEF row
    <3>4. ParsedAs(row, fields)
      BY <3>1, <3>2, <3>3, ParsedIs, Zenon
    <3>. QED
      BY <3>3, <3>4 DEF ParsedAs
  <2>6. /\ read["session"] = fields[1] /\ read["sessionID"] = fields[2]
        /\ read["windowIndex"] = fields[3] /\ read["window"] = fields[4]
        /\ read["paneIndex"] = fields[5] /\ read["paneID"] = fields[6]
        /\ read["pid"] = fields[7] /\ read["command"] = fields[8]
        /\ read["path"] = fields[9] /\ read["active"] = fields[10]
        /\ read["inMode"] = fields[11] /\ read["windowActive"] = fields[12]
    BY <2>5 DEF PaneFields
  <2>7. /\ Body \in Seq(Pieces) /\ Len(Body) \in Nat
        /\ SessionLen \in Nat \ {0} /\ Len(shown.window) \in Nat \ {0}
        /\ Len(Body) >= PaneAt
        /\ Body[SessionLen + 1] = "$1" /\ Body[SessionLen + 2] = "7"
        /\ \A i \in 1 .. SessionLen : Body[i] = shown.session[i]
        /\ \A i \in 1 .. Len(shown.window) : Body[SessionLen + 2 + i] = shown.window[i]
        /\ Body[PaneAt] = "0" /\ Body[PaneAt + 1] = "%1" /\ Body[PaneAt + 2] = "7"
    <3>. DEFINE lw == Len(shown.window)
                lc == Len(shown.command)
                lp == Len(shown.path)
                n == SessionLen
    <3>1. /\ Len(Body) = PathAt + lp - 1
          /\ n \in Nat \ {0} /\ lw \in Nat \ {0} /\ lc \in Nat \ {0} /\ lp \in Nat \ {0}
      BY <2>1, BodyIs, Zenon
    <3>2. PathAt = n + lw + 3 + 2 + lc + 1 /\ PaneAt = n + lw + 3
      BY DEF PathAt, PaneAt
    <3>3. Len(Body) \in Nat /\ Len(Body) >= PaneAt
      <4>. HIDE DEF n, lw, lc, lp
      <4>. QED
        BY <3>1, <3>2
    <3>. QED
      BY <2>1, <3>3, BodyIs, Zenon
  <2>8. /\ shown.session \in Seq(Pieces) /\ shown.window \in Seq(Pieces)
        /\ shown.sessionID = <<"$1">> /\ shown.windowIndex = <<"7">>
        /\ shown.paneIndex = <<"0">> /\ shown.paneID = <<"%1">> /\ shown.pid = <<"7">>
    BY <2>1, RowsAssumption DEF Rows
  <2>9. ASSUME PlainSession
        PROVE  \A f \in {"session", "sessionID", "windowIndex", "active", "inMode", "windowActive"} :
                   read[f] = shown[f]
    <3>1. e = SessionLen + 1 /\ e - 1 = SessionLen /\ e + 1 = SessionLen + 2
      <4>1. e = SessionLen + 1
        BY <2>2, <2>9, Zenon
      <4>2. SessionLen \in Nat
        BY <2>7
      <4>. QED
        BY <4>1, <4>2
    <3>2. SubSeq(Body, 1, 1 + Len(shown.session) - 1) = shown.session
      <4>1. /\ 1 \in Nat \ {0} /\ 1 + Len(shown.session) - 1 =< Len(Body)
            /\ \A i \in 1 .. Len(shown.session) : Body[1 + i - 1] = shown.session[i]
        <5>. DEFINE n == Len(shown.session)
        <5>. DEFINE lw == Len(shown.window)
        <5>1. PaneAt = n + lw + 3 /\ SessionLen = n
          BY DEF PaneAt, SessionLen
        <5>. HIDE DEF n, lw
        <5>2. n \in Nat /\ n =< Len(Body) /\ \A i \in 1 .. n : Body[i] = shown.session[i]
          <6>1. lw \in Nat /\ n \in Nat /\ Len(Body) \in Nat /\ Len(Body) >= n + lw + 3
            BY <2>7, <5>1 DEF lw
          <6>. QED
            BY <2>7, <5>1, <6>1
        <5>3. /\ 1 \in Nat \ {0} /\ 1 + n - 1 =< Len(Body)
              /\ \A i \in 1 .. n : Body[1 + i - 1] = shown.session[i]
          BY <2>7, <5>2
        <5>. QED
          BY <5>3 DEF n
      <4>. QED
        BY <2>7, <2>8, <4>1, PartEquals
    <3>3. 1 + Len(shown.session) - 1 = e - 1
      BY <2>7, <3>1 DEF SessionLen
    <3>4. fields[1] = shown.session /\ fields[2] = shown.sessionID /\ fields[3] = shown.windowIndex
      <4>1. /\ fields[1] = SubSeq(Body, 1, e - 1)
            /\ fields[2] = <<Body[e]>> /\ fields[3] = <<Body[e + 1]>>
        BY <2>2, Zenon
      <4>2. Body[e] = "$1" /\ Body[e + 1] = "7"
        BY <2>7, <3>1, Zenon
      <4>3. fields[1] = shown.session
        BY <3>2, <3>3, <4>1, Zenon
      <4>. QED
        BY <2>8, <4>1, <4>2, <4>3, ZenonT(60)
    <3>. QED
      BY <2>2, <2>6, <3>4, ZenonT(60)
  <2>10. ASSUME PlainSession, PlainWindow
         PROVE  \A f \in {"window", "paneIndex", "paneID", "pid"} : read[f] = shown[f]
    <3>. DEFINE lo == SessionLen + 3
    <3>1. e = SessionLen + 1 /\ g = PaneAt
      BY <2>2, <2>10, Zenon
    <3>2. /\ lo \in Nat \ {0} /\ e + 2 = lo /\ g - 1 = lo + Len(shown.window) - 1
          /\ lo + Len(shown.window) - 1 =< Len(Body)
      <4>. DEFINE lw == Len(shown.window)
      <4>1. PaneAt = SessionLen + lw + 3 /\ SessionLen \in Nat /\ lw \in Nat
            /\ Len(Body) \in Nat /\ PaneAt =< Len(Body)
        BY <2>7 DEF PaneAt
      <4>. HIDE DEF lw
      <4>2. /\ lo \in Nat \ {0} /\ e + 2 = lo /\ g - 1 = lo + lw - 1
            /\ lo + lw - 1 =< Len(Body)
        BY <3>1, <4>1
      <4>. QED
        BY <4>2 DEF lw
    <3>3. ASSUME NEW i \in 1 .. Len(shown.window)
          PROVE  Body[lo + i - 1] = shown.window[i]
      <4>1. lo + i - 1 = SessionLen + 2 + i
        BY <2>7
      <4>. QED
        BY <2>7, <4>1
    <3>. HIDE DEF lo
    <3>4. SubSeq(Body, lo, lo + Len(shown.window) - 1) = shown.window
      BY <2>7, <2>8, <3>2, <3>3, PartEquals
    <3>5. /\ fields[4] = shown.window /\ fields[5] = shown.paneIndex
          /\ fields[6] = shown.paneID /\ fields[7] = shown.pid
      <4>1. /\ fields[4] = SubSeq(Body, e + 2, g - 1) /\ fields[5] = <<Body[g]>>
            /\ fields[6] = <<Body[g + 1]>> /\ fields[7] = <<Body[g + 2]>>
        BY <2>2, Zenon
      <4>2. Body[g] = "0" /\ Body[g + 1] = "%1" /\ Body[g + 2] = "7"
        BY <2>7, <3>1, Zenon
      <4>3. fields[4] = shown.window
        BY <3>2, <3>4, <4>1, Zenon
      <4>. QED
        BY <2>8, <4>1, <4>2, <4>3, ZenonT(60)
    <3>. QED
      BY <2>6, <3>5
  <2>11. ASSUME PlainSession, PlainWindow, PlainCommand
         PROVE  read = shown
    <3>1. g = PaneAt
      BY <2>2, <2>11, Zenon
    <3>2. fields[8] = shown.command /\ fields[9] = shown.path
      BY <2>1, <2>2, <2>11, <3>1, PathIsFound, Zenon DEF RestFrom
    <3>3. read["command"] = shown.command /\ read["path"] = shown.path
      BY <2>6, <3>2
    <3>4. Range(PaneFields) =
              {"session", "sessionID", "windowIndex", "window", "paneIndex", "paneID",
               "pid", "command", "path", "active", "inMode", "windowActive"}
      BY DEF Range, PaneFields
    <3>5. DOMAIN shown = Range(PaneFields) /\ shown = [f \in Range(PaneFields) |-> shown[f]]
      BY <2>1, <3>4 DEF Rows
    <3>6. \A f \in Range(PaneFields) : read[f] = shown[f]
      BY <2>9, <2>10, <2>11, <3>3, <3>4
    <3>. QED
      BY <2>5, <3>5, <3>6
  <2>. QED
    BY <2>5, <2>9, <2>10, <2>11 DEF RowsAreRead
<1>. QED
  BY <1>1, <1>2, <1>3, PTL DEF RowsSpec
=============================================================================
