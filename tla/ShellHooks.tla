----------------------------- MODULE ShellHooks -----------------------------
(* What the shell of one pane tells the status daemon of its commands.  The *)
(* hooks of the shell start a process for each event: it looks up who owns  *)
(* the pane and sends, at once, late or, when there is no daemon or it does *)
(* not answer in time, never; and the daemon, scanning meanwhile, keeps the *)
(* latest of what it was told in memory.                                    *)
EXTENDS Naturals, FiniteSets

CONSTANTS
    MaxHooked,      \* bound on the commands the shell runs
    MaxStored,      \* bound on the events that reach the daemon
    HookGrace,      \* how long a preexec outranks a prompt on the screen (10 s)
    PruneGrace,     \* how long an event of another owner is kept (1 min)
    LastHookTime,   \* bound on the clock
    StampsAtOnce    \* an event is stamped in the order it happened, not later

ASSUME HooksAssumption ==
    /\ {MaxHooked, MaxStored, HookGrace, PruneGrace, LastHookTime} \subseteq Nat
    /\ StampsAtOnce \in BOOLEAN

Nobody == 0
NoShellCommand == 0

VARIABLES
    paneOwner, shellRuns, shellShows,   \* the pane and its shell
    emits,          \* processes that have yet to send their event
    stamps, hookTime, \* timestamps handed out; the clock
    hook,           \* what the daemon has stored for the pane
    told,           \* commands whose start is what the daemon knows last
    hookScan,       \* the scan of the daemon
    commandsRun, stored
shellVars == <<paneOwner, shellRuns, shellShows>>
hookVars == <<shellVars, emits, stamps, hookTime, hook, told, hookScan, commandsRun, stored>>

NotActive == [id |-> NoShellCommand, stamp |-> 0, started |-> 0]
NoHook == [session |-> Nobody, active |-> NotActive, completed |-> FALSE, updated |-> 0, at |-> 0]
NoHookScan == [step |-> "idle", session |-> Nobody, began |-> 0, forced |-> FALSE,
               shows |-> "none", stale |-> 0]

----------------------------------------------------------------------------
(* The shell and the processes it starts in the background.                  *)

Emit(type, id, stamp) ==
    emits' = emits \cup {[type |-> type, id |-> id, stamp |-> stamp, at |-> hookTime,
                          session |-> Nobody, asked |-> FALSE]}
\* An event is stamped when its process builds it.
Emits(type, id) ==
    IF StampsAtOnce THEN Emit(type, id, stamps + 1) /\ stamps' = stamps + 1
    ELSE Emit(type, id, 0) /\ UNCHANGED stamps

Preexec ==
    /\ shellRuns = NoShellCommand /\ commandsRun < MaxHooked
    /\ commandsRun' = commandsRun + 1 /\ shellRuns' = commandsRun + 1
    /\ Emits("preexec", commandsRun + 1)
    /\ UNCHANGED <<paneOwner, shellShows, hookTime, hook, told, hookScan, stored>>
\* Nothing new, words of work, a question, or a prompt of its own.
CommandShows ==
    /\ shellRuns # NoShellCommand
    /\ shellShows' \in {"silent", "busy", "asking", "ready"} \ {shellShows}
    /\ UNCHANGED <<paneOwner, shellRuns, emits, stamps, hookTime, hook, told, hookScan, commandsRun, stored>>
\* The prompt may be one that no capture recognizes.
Precmd ==
    /\ shellRuns # NoShellCommand
    /\ shellRuns' = NoShellCommand /\ shellShows' \in {"ready", "silent"}
    /\ Emits("precmd", shellRuns)
    /\ UNCHANGED <<paneOwner, hookTime, hook, told, hookScan, commandsRun, stored>>

\* The owner is asked of tmux once; the answer may be another pane's, or none.
LookUpOwner(e) ==
    /\ ~e.asked
    /\ \E session \in {paneOwner, Nobody} :
        emits' = (emits \ {e}) \cup {[e EXCEPT !.asked = TRUE, !.session = session,
                    !.stamp = IF StampsAtOnce THEN @ ELSE stamps + 1]}
    /\ stamps' = IF StampsAtOnce THEN stamps ELSE stamps + 1
    /\ UNCHANGED <<shellVars, hookTime, hook, told, hookScan, commandsRun, stored>>
----------------------------------------------------------------------------
(* The store.                                                                *)

OtherSession(e) ==
    hook.session # Nobody /\ e.session # Nobody /\ hook.session # e.session
\* The mutant: whatever command it ends, a precmd ends the active one.
NeverOutdated(e, state) == FALSE
\* A precmd that was stamped before the active command of another id began.
Outdated(e, state) ==
    /\ e.type = "precmd" /\ state.active # NotActive
    /\ e.id # state.active.id /\ e.stamp < state.active.stamp

RecordEvent(e) ==
    LET state == IF OtherSession(e) THEN NoHook ELSE hook
        kept == [state EXCEPT
            !.session = IF e.session # Nobody THEN e.session ELSE @,
            !.updated = e.stamp, !.at = e.at]
        knew == IF OtherSession(e) THEN {} ELSE told
    IN /\ e.asked /\ stored < MaxStored
       /\ emits' = emits \ {e} /\ stored' = stored + 1
       /\ IF Outdated(e, state) THEN UNCHANGED <<hook, told>>
          ELSE IF e.type = "preexec"
          THEN /\ hook' = [kept EXCEPT
                      !.active = [id |-> e.id, stamp |-> e.stamp, started |-> e.at]]
               /\ told' = {e.id}
          ELSE /\ hook' = [kept EXCEPT !.active = NotActive, !.completed = TRUE]
               /\ told' = knew \ {e.id}
       /\ UNCHANGED <<shellVars, stamps, hookTime, hookScan, commandsRun>>

----------------------------------------------------------------------------
(* A scan.                                                                   *)

\* A pane that has an active command is captured though it is not an agent's.
HookScanBegins ==
    /\ hookScan.step = "idle"
    /\ hookScan' = [NoHookScan EXCEPT !.step = "captured", !.session = paneOwner,
            !.began = hookTime, !.forced = hook.active # NotActive]
    /\ UNCHANGED <<shellVars, emits, stamps, hookTime, hook, told, commandsRun, stored>>
\* A screen that has just changed counts as running, whatever it shows.
HookScanCaptures ==
    /\ hookScan.step = "captured"
    /\ \E changed \in BOOLEAN :
        hookScan' = [hookScan EXCEPT !.step = "pruned",
            !.shows = IF ~hookScan.forced THEN "none"
                      ELSE IF changed /\ shellShows # "asking" THEN "changed" ELSE shellShows]
    /\ UNCHANGED <<shellVars, emits, stamps, hookTime, hook, told, commandsRun, stored>>
\* What is stored of an earlier owner goes, unless it may be news.
Prune ==
    LET foreign == hook.session \notin {Nobody, hookScan.session}
    IN /\ hookScan.step = "pruned"
       /\ hookScan' = [hookScan EXCEPT !.step = "merged"]
       /\ IF hook # NoHook /\ foreign /\ hook.at + PruneGrace < hookScan.began
          THEN hook' = NoHook /\ told' = {} ELSE UNCHANGED <<hook, told>>
       /\ UNCHANGED <<shellVars, emits, stamps, hookTime, commandsRun, stored>>

Applies == hook.session \in {Nobody, hookScan.session}
\* A prompt is on the screen, long after the active command began.
StaleActive ==
    /\ hook.active # NotActive /\ hookScan.shows = "ready"
    /\ hook.active.started + HookGrace < hookScan.began
ApplyShellHooks ==
    /\ hookScan.step = "merged"
    /\ hookScan' = IF Applies /\ StaleActive
                   THEN [hookScan EXCEPT !.step = "stale", !.stale = hook.updated]
                   ELSE NoHookScan
    /\ UNCHANGED <<shellVars, emits, stamps, hookTime, hook, told, commandsRun, stored>>
DeleteIfUpdatedAt ==
    /\ hookScan.step = "stale"
    /\ hookScan' = NoHookScan
    /\ IF hook.updated = hookScan.stale
       THEN hook' = NoHook /\ told' = {} ELSE UNCHANGED <<hook, told>>
    /\ UNCHANGED <<shellVars, emits, stamps, hookTime, commandsRun, stored>>

\* The status of the pane, as far as its shell decides it.
Reports ==
    IF ~Applies THEN hookScan.shows
    ELSE IF hook.active # NotActive
    THEN IF hookScan.shows = "asking" \/ StaleActive THEN hookScan.shows ELSE "working"
    ELSE IF hook.completed /\ hookScan.shows \notin {"asking", "busy"} THEN "ready"
    ELSE hookScan.shows

----------------------------------------------------------------------------
(* The tmux server restarts and numbers panes anew; the daemon restarts.     *)
OwnerChanges ==
    /\ paneOwner = 1 /\ paneOwner' = 2
    /\ shellRuns' = NoShellCommand /\ shellShows' = "ready"
    /\ UNCHANGED <<emits, stamps, hookTime, hook, told, hookScan, commandsRun, stored>>
HooksRestart ==
    /\ hook # NoHook
    /\ hook' = NoHook /\ told' = {} /\ hookScan' = NoHookScan
    /\ UNCHANGED <<shellVars, emits, stamps, hookTime, commandsRun, stored>>
HookTick ==
    /\ hookTime < LastHookTime /\ hookTime' = hookTime + 1
    /\ UNCHANGED <<shellVars, emits, stamps, hook, told, hookScan, commandsRun, stored>>

HooksInit ==
    /\ paneOwner = 1 /\ shellRuns = NoShellCommand /\ shellShows = "ready"
    /\ emits = {} /\ stamps = 0 /\ hookTime = 0
    /\ hook = NoHook /\ told = {} /\ hookScan = NoHookScan
    /\ commandsRun = 0 /\ stored = 0

HooksNext ==
    \/ Preexec \/ CommandShows \/ Precmd \/ OwnerChanges \/ HooksRestart \/ HookTick
    \/ \E e \in emits : LookUpOwner(e) \/ RecordEvent(e)
    \/ HookScanBegins \/ HookScanCaptures \/ Prune \/ ApplyShellHooks \/ DeleteIfUpdatedAt
HooksSpec == HooksInit /\ [][HooksNext]_hookVars

\* A command that runs, and whose start the daemon was told, is the active one,
\* whatever comes late and whatever a scan removes meanwhile, and the pane is
\* not reported as ready because of it (store.go:66-123, 158-166).
ActiveIsKept ==
    shellRuns \in told =>
        /\ hook.active.id = shellRuns
        /\ hookScan.step = "merged" /\ hookScan.shows # "ready" => Reports # "ready"
=============================================================================
