----------------------------- MODULE QuotaWait -----------------------------
(* A turn of an agent_dev stage whose agent meets its usage limit: the       *)
(* runner waits for the reset and types the prompt of the same turn again.   *)
(* Claude shows a menu, in which the runner presses Enter to wait; Codex     *)
(* only says so.  The runner may be killed between any two of its steps, and *)
(* agents, reports and the operator go on between them.  A write of the      *)
(* state is refused if the state was changed since the tick read it.         *)
EXTENDS Integers

CONSTANTS
    Providers,      \* "claude", "codex"
    LimitLasts,     \* what a limit shows as its reset, from now
    Recheck,        \* agentDevQuotaRecheck; the grace is left out
    MaxQuotaOps,    \* bound on commands of the operator
    MaxQuotaKills,  \* bound on kills and failures
    MaxLimits,      \* bound on limits
    LastQuotaTime   \* bound on time

ASSUME QuotaAssumption ==
    /\ Providers \subseteq {"claude", "codex"}
    /\ LimitLasts \subseteq Nat \ {0} /\ Recheck \in Nat \ {0}
    /\ {MaxQuotaOps, MaxQuotaKills, MaxLimits, LastQuotaTime} \subseteq Nat

VARIABLES
    provider,
    agentPane,      \* what it shows, and the reset of the limit it shows
    devTurn,        \* the current turn, 0 without one, and its last record
    quotaWait,      \* QuotaWait, NoWait without one
    devStage,       \* the stage
    tick,           \* what the runner does next, and whether a write is refused
    onceMore,       \* times the prompt was typed in this wait; whether the state
                    \* never learnt of the last time
    quotaOps, quotaKills, limits, quotaTime
quotaVars == <<provider, agentPane, devTurn, quotaWait, devStage, tick, onceMore,
               quotaOps, quotaKills, limits, quotaTime>>

NoWait == [turn |-> 0, reset |-> 0, next |-> 0, answered |-> TRUE]
Shows(what) == [shows |-> what, reset |-> 0]
LimitShown == agentPane.shows \in {"menu", "notice"}
Now == quotaTime

\* What another process does to the state has the tick's write refused.
StateChanges == tick' = [tick EXCEPT !.refused = tick.at \notin {"idle", "dead"}]
At(step) == tick.at = step
TickGoes(step) == tick' = [tick EXCEPT !.at = step]
QuotaTickEnds == tick' = [at |-> "idle", refused |-> FALSE]
NotTyped == [times |-> 0, unknown |-> FALSE]

BlockStage == devStage' = "blocked" /\ UNCHANGED quotaWait /\ QuotaTickEnds
quotaBounds == <<quotaOps, quotaKills, limits, quotaTime>>
aroundRunner == <<provider, agentPane, quotaBounds>>

----------------------------------------------------------------------------
(* A limit is seen.                                                          *)

\* The wait is written before Enter is pressed.
BeginWait ==
    /\ quotaWait' = [turn |-> devTurn.id, reset |-> agentPane.reset,
                     next |-> IF agentPane.reset < Now THEN Now ELSE agentPane.reset,
                     answered |-> agentPane.shows = "notice"]
    /\ devStage' = "running"
    /\ tick' = [at |-> IF agentPane.shows = "menu" THEN "select" ELSE "idle",
                refused |-> FALSE]
    /\ onceMore' = NotTyped

TickSeesLimit ==
    /\ At("idle") /\ devStage = "running" /\ quotaWait = NoWait
    /\ devTurn.id # 0 /\ devTurn.record = "sent" /\ LimitShown
    /\ BeginWait
    /\ UNCHANGED <<aroundRunner, devTurn>>
\* So does a run that was left to the user before it knew of limits.
RecoverBlocked ==
    /\ At("idle") /\ devStage = "blocked"
    /\ devTurn.id # 0 /\ devTurn.record = "sent" /\ LimitShown
    /\ BeginWait
    /\ UNCHANGED <<aroundRunner, devTurn>>
TickSeesPrompt ==
    /\ At("idle") /\ devStage = "running" /\ quotaWait = NoWait
    /\ devTurn.id # 0 /\ devTurn.record = "sent"
    /\ agentPane.shows \in {"dialog", "gone"}
    /\ BlockStage
    /\ UNCHANGED <<aroundRunner, devTurn, onceMore>>
\* Enter is pressed in what was a menu when the tick looked.
EnterIsPressed == agentPane' = IF agentPane.shows = "menu" THEN Shows("ready") ELSE agentPane
Select ==
    /\ At("select") /\ EnterIsPressed
    /\ IF agentPane.shows = "gone" THEN BlockStage
       ELSE TickGoes("selected") /\ UNCHANGED <<devStage, quotaWait>>
    /\ UNCHANGED <<provider, devTurn, onceMore, quotaBounds>>
\* Store.Update, which is not refused.
Selected ==
    /\ At("selected") /\ QuotaTickEnds
    /\ quotaWait' = [quotaWait EXCEPT !.answered = TRUE]
    /\ UNCHANGED <<aroundRunner, devTurn, devStage, onceMore>>

----------------------------------------------------------------------------
(* A tick during a wait.                                                     *)

Waiting == At("idle") /\ devStage = "running" /\ quotaWait # NoWait
\* The mutant: the prompt that may have been typed is typed again.
WaitIsOfTurn == quotaWait.turn = devTurn.id
WaitIsCurrent == quotaWait.turn = devTurn.id /\ devTurn.record = "sent"

TickFindsOther ==
    /\ Waiting /\ ~WaitIsCurrent
    /\ BlockStage
    /\ UNCHANGED <<aroundRunner, devTurn, onceMore>>
\* Enter has perhaps not been pressed: only if the same limit is still shown.
TickSelectsAgain ==
    /\ Waiting /\ WaitIsCurrent /\ ~quotaWait.answered
    /\ \/ /\ agentPane.shows = "menu" /\ agentPane.reset = quotaWait.reset
          /\ TickGoes("again") /\ UNCHANGED <<devStage, quotaWait>>
       \/ /\ \/ agentPane.shows \in {"dialog", "gone"}
             \/ agentPane.shows = "menu" /\ agentPane.reset # quotaWait.reset
          /\ BlockStage
       \/ /\ agentPane.shows \notin {"menu", "dialog", "gone"}
          /\ quotaWait' = [quotaWait EXCEPT !.answered = TRUE]
          /\ QuotaTickEnds /\ UNCHANGED devStage
    /\ UNCHANGED <<aroundRunner, devTurn, onceMore>>
SelectAgain ==
    /\ At("again") /\ EnterIsPressed
    /\ CASE tick.refused -> QuotaTickEnds /\ UNCHANGED <<devStage, quotaWait>>
         [] agentPane.shows = "gone" /\ ~tick.refused -> BlockStage
         [] OTHER -> /\ quotaWait' = [quotaWait EXCEPT !.answered = TRUE]
                     /\ QuotaTickEnds /\ UNCHANGED devStage
    /\ UNCHANGED <<provider, devTurn, onceMore, quotaBounds>>

Due == Now >= quotaWait.next
RecordTurn(status) == devTurn' = [devTurn EXCEPT !.record = status]
\* Claude's pane is looked at first: the limit may last, or another prompt be up.
TickExtends ==
    /\ Waiting /\ WaitIsCurrent /\ quotaWait.answered /\ Due
    /\ provider = "claude" /\ agentPane.shows \in {"menu", "dialog", "gone"}
    /\ IF agentPane.shows = "menu"
       THEN /\ quotaWait' = [quotaWait EXCEPT !.next = Now + Recheck]
            /\ QuotaTickEnds /\ UNCHANGED devStage
       ELSE BlockStage
    /\ UNCHANGED <<aroundRunner, devTurn, onceMore>>
TickResumes ==
    /\ Waiting /\ WaitIsCurrent /\ quotaWait.answered /\ Due
    /\ provider = "claude" => agentPane.shows \notin {"menu", "dialog", "gone"}
    /\ RecordTurn("sending") /\ TickGoes("resume")
    /\ UNCHANGED <<aroundRunner, quotaWait, devStage, onceMore>>

----------------------------------------------------------------------------
(* The turn is resumed: its record says "sending" until it is settled.       *)

\* Codex: dispatch takes the very limit that was waited for, or an idle pane.
\* Claude: the preflight.
TakesPrompt ==
    \/ agentPane.shows = "ready"
    \/ provider = "codex" /\ agentPane = [shows |-> "notice", reset |-> quotaWait.reset]
TypeAgain ==
    /\ At("resume") /\ TakesPrompt
    /\ agentPane' = Shows("work")
    /\ onceMore' = [onceMore EXCEPT !.times = @ + 1]
    /\ TickGoes("typed")
    /\ UNCHANGED <<provider, devTurn, quotaWait, devStage, quotaBounds>>
\* Claude goes on by itself: nothing is typed.
ResumedRunning ==
    /\ At("resume") /\ provider = "claude" /\ agentPane.shows = "work"
    /\ TickGoes("typed")
    /\ UNCHANGED <<aroundRunner, devTurn, quotaWait, devStage, onceMore>>
\* A new limit begins a new wait; anything else is left to the user.
ResumeFails ==
    /\ At("resume") /\ ~TakesPrompt /\ (provider = "claude" => agentPane.shows # "work")
    /\ IF LimitShown /\ (provider = "codex" => agentPane.reset > Now)
       THEN RecordTurn("sent") /\ IF tick.refused
                                THEN QuotaTickEnds /\ UNCHANGED <<quotaWait, devStage, onceMore>>
                                ELSE BeginWait
       ELSE /\ IF tick.refused THEN QuotaTickEnds /\ UNCHANGED <<quotaWait, devStage>> ELSE BlockStage
            /\ UNCHANGED <<devTurn, onceMore>>
    /\ UNCHANGED aroundRunner
TypedIsRecorded ==
    /\ At("typed") /\ RecordTurn("sent") /\ TickGoes("recorded")
    /\ UNCHANGED <<aroundRunner, quotaWait, devStage, onceMore>>
\* If this write is refused the wait goes on, and the turn is resumed once more.
ResumeEnds ==
    /\ At("recorded") /\ QuotaTickEnds
    /\ IF tick.refused
       THEN onceMore' = [onceMore EXCEPT !.unknown = TRUE] /\ UNCHANGED quotaWait
       ELSE quotaWait' = NoWait /\ UNCHANGED onceMore
    /\ UNCHANGED <<aroundRunner, devTurn, devStage>>

----------------------------------------------------------------------------
(* The runner is killed, and started again.                                  *)

RunnerDies ==
    /\ tick.at # "dead" /\ quotaKills < MaxQuotaKills /\ quotaKills' = quotaKills + 1
    /\ tick' = [at |-> "dead", refused |-> FALSE]
    /\ onceMore' = [onceMore EXCEPT !.unknown = @ \/ At("recorded")]
    /\ UNCHANGED <<provider, agentPane, devTurn, quotaWait, devStage, quotaOps, limits, quotaTime>>
\* NewEngine.
RunnerStarts ==
    /\ At("dead")
    /\ IF devStage = "running" /\ devTurn.id # 0 /\ devTurn.record = "sending"
       THEN BlockStage ELSE QuotaTickEnds /\ UNCHANGED <<devStage, quotaWait>>
    /\ UNCHANGED <<aroundRunner, devTurn, onceMore>>

----------------------------------------------------------------------------
(* The pane, reports and the operator.                                       *)

LimitHits ==
    /\ agentPane.shows = "work" /\ limits < MaxLimits /\ limits' = limits + 1
    /\ \E l \in LimitLasts :
        agentPane' = [shows |-> IF provider = "claude" THEN "menu" ELSE "notice",
                      reset |-> Now + l]
    /\ UNCHANGED <<provider, devTurn, quotaWait, devStage, tick, onceMore, quotaOps, quotaKills,
                   quotaTime>>
\* The agent ends its turn without a report or shows a dialog, a human goes on
\* with it or chooses in its menu, or the pane is closed.
PaneGoesOn ==
    /\ \E shows \in {"work", "ready", "dialog", "gone"} :
        /\ agentPane.shows \notin {"gone", shows}
        /\ agentPane.shows = "notice" => shows # "ready"
        /\ agentPane' = Shows(shows)
    /\ UNCHANGED <<provider, devTurn, quotaWait, devStage, tick, onceMore, quotaBounds>>
\* A report settles the turn and keeps the wait for it.
ReportSettles ==
    /\ devTurn.id # 0 /\ agentPane.shows \in {"work", "ready"}
    /\ devTurn' = [id |-> 0, record |-> "sent"] /\ StateChanges
    /\ UNCHANGED <<aroundRunner, quotaWait, devStage, onceMore>>
\* dispatchNextAgentDev, in one step.
NextTurn ==
    /\ At("idle") /\ devStage = "running" /\ quotaWait = NoWait /\ devTurn.id = 0
    /\ agentPane.shows = "ready"
    /\ devTurn' = [id |-> 2, record |-> "sent"] /\ agentPane' = Shows("work")
    /\ onceMore' = NotTyped
    /\ UNCHANGED <<provider, quotaWait, devStage, tick, quotaBounds>>
Operates == quotaOps < MaxQuotaOps /\ quotaOps' = quotaOps + 1 /\ StateChanges
QuotaAcknowledge ==
    /\ Operates /\ devStage = "blocked" /\ devTurn.id # 0
    /\ devStage' = "running"
    /\ UNCHANGED <<provider, agentPane, devTurn, quotaWait, onceMore, quotaKills, limits, quotaTime>>
\* A retry gives the turn up and keeps the wait for it, too.
QuotaRetry ==
    /\ Operates /\ devStage' = "running" /\ devTurn' = [id |-> 0, record |-> "sent"]
    /\ UNCHANGED <<provider, agentPane, quotaWait, onceMore, quotaKills, limits, quotaTime>>
\* A pause and a resume.
QuotaPause ==
    /\ Operates
    /\ UNCHANGED <<provider, agentPane, devTurn, quotaWait, devStage, onceMore, quotaKills,
                   limits, quotaTime>>
QuotaTimePasses ==
    /\ quotaTime < LastQuotaTime /\ quotaTime' = quotaTime + 1
    /\ UNCHANGED <<provider, agentPane, devTurn, quotaWait, devStage, tick, onceMore, quotaOps,
                   quotaKills, limits>>

QuotaInit ==
    /\ provider \in Providers /\ agentPane = Shows("work")
    /\ devTurn = [id |-> 1, record |-> "sent"] /\ quotaWait = NoWait /\ devStage = "running"
    /\ tick = [at |-> "idle", refused |-> FALSE] /\ onceMore = NotTyped
    /\ quotaOps = 0 /\ quotaKills = 0 /\ limits = 0 /\ quotaTime = 0
QuotaNext ==
    \/ TickSeesLimit \/ RecoverBlocked \/ TickSeesPrompt \/ Select \/ Selected
    \/ TickFindsOther \/ TickSelectsAgain \/ SelectAgain \/ TickExtends \/ TickResumes
    \/ TypeAgain \/ ResumedRunning \/ ResumeFails \/ TypedIsRecorded \/ ResumeEnds
    \/ RunnerDies \/ RunnerStarts
    \/ LimitHits \/ PaneGoesOn \/ ReportSettles \/ NextTurn
    \/ QuotaAcknowledge \/ QuotaRetry \/ QuotaPause \/ QuotaTimePasses
QuotaSpec == QuotaInit /\ [][QuotaNext]_quotaVars

----------------------------------------------------------------------------
(* Property                                                                  *)

\* What agent_dev.go:294 refuses, a duplicate resume: a limit has the prompt of
\* its turn typed once more, not before the reset that was waited for and not
\* twice, whenever the runner is killed, whatever the operator does, and unless
\* the state never learnt that the prompt had been typed and recorded.
ResumedOnce ==
    [][onceMore'.times > onceMore.times =>
         Now >= quotaWait.reset /\ (onceMore.times = 0 \/ onceMore.unknown)]_quotaVars
=============================================================================
