---------------------------- MODULE PaneActivity ----------------------------
(* When the status daemon calls a pane running: from the words on its screen *)
(* or because the screen changed a moment ago.  It remembers, for each pane, *)
(* the last screen and when that changed, and saves it for the daemon that   *)
(* is started after it stops or dies.                                        *)
EXTENDS Integers, FiniteSetsExt

CONSTANTS
    Debounce,       \* how long after a change a pane counts as running
    ScanGap,        \* bound: time between scans, and what a scan takes
    DownTime,       \* bound: how long the daemon may be down
    MaxChanges,     \* bound on the screens a pane shows
    MaxDaemons,     \* bound on the daemons
    LastActivity    \* bound on the clock

ASSUME ActivityAssumption ==
    {Debounce, ScanGap, DownTime, MaxChanges, MaxDaemons, LastActivity} \subseteq Nat

Unset == 0          \* a time that is not known; the clock starts at 1

VARIABLES
    screenNow, changedNow, says,    \* the screen, when it changed, what it says
    nowTime,
    watcher,        \* the daemon: the step of its scan, its scans; when the pane was
                    \* last captured, and how long not, before the last change
    memory, saved,   \* what it remembers of the pane, and what is on disk
    reported        \* the last report: running, since when unchanged
activityVars == <<screenNow, changedNow, says, nowTime, watcher, memory, saved, reported>>

NoEntry == [screen |-> -1, changed |-> Unset, restored |-> FALSE, oldHash |-> FALSE]
NoPaneReport == [running |-> FALSE, changed |-> Unset, state |-> "none", at |-> Unset, busy |-> FALSE]
PaneEntry(screen, changed) == [NoEntry EXCEPT !.screen = screen, !.changed = changed]

----------------------------------------------------------------------------
(* The pane.                                                                 *)
PaneScreenChanges ==
    /\ screenNow < MaxChanges
    /\ screenNow' = screenNow + 1 /\ changedNow' = nowTime
    /\ says' \in {"working", "unknown", "waiting_input"}
    /\ UNCHANGED <<nowTime, watcher, memory, saved, reported>>
ActivityTimePasses ==
    /\ nowTime < LastActivity
    /\ nowTime < watcher.last + (IF watcher.up THEN ScanGap ELSE DownTime)
    /\ nowTime' = nowTime + 1
    /\ UNCHANGED <<screenNow, changedNow, says, watcher, memory, saved, reported>>

----------------------------------------------------------------------------
(* A scan of the pane: its time, then a capture, or two when it is the first *)
(* one of this daemon.                                                       *)

ScanStarts ==
    /\ watcher.up /\ watcher.step = "wait"
    /\ watcher' = [watcher EXCEPT !.step = IF watcher.scanned THEN "capture" ELSE "sample",
                                !.began = nowTime]
    /\ UNCHANGED <<screenNow, changedNow, says, nowTime, memory, saved, reported>>
FirstSample ==
    /\ watcher.step = "sample"
    /\ watcher' = [watcher EXCEPT !.step = "capture", !.sample = screenNow]
    /\ UNCHANGED <<screenNow, changedNow, says, nowTime, memory, saved, reported>>

\* What the inspection says of the pane: a screen that changes is working.
Inspected == IF watcher.sample \notin {-1, screenNow} THEN "working" ELSE says
Recently(changed) == watcher.began - changed <= Debounce

\* The entry kept, whether the pane is running and whether there is a history of it.
Judged(next, running, history) == [entry |-> next, running |-> running, history |-> history]
\* The mutant: a restored entry keeps its time whatever the screen shows.
AsIfSeen == memory
\* A restored memory, of which the change is put just outside the debounce.
RestoredPane ==
    IF ~memory.restored \/ memory.screen = screenNow \/ memory.oldHash THEN memory
    ELSE [memory EXCEPT !.changed = Max({Unset + 1, watcher.began - Debounce - 1})]
RunningState ==
    LET changed == IF memory.restored \/ memory.screen = screenNow
                   THEN RestoredPane.changed ELSE watcher.began
        next == PaneEntry(screenNow, changed)
        works == Inspected = "working"
    IN IF memory = NoEntry
       THEN Judged(PaneEntry(screenNow, IF works THEN watcher.began ELSE Unset), works, FALSE)
       ELSE IF memory.restored
       THEN IF memory.screen # screenNow \/ memory.oldHash THEN Judged(next, works, FALSE)
            ELSE Judged(next, Recently(changed), TRUE)
       ELSE IF changed = Unset THEN Judged(next, works, TRUE)
       ELSE Judged(next, Recently(changed), TRUE)

Scanned == [watcher EXCEPT !.step = "wait", !.scanned = TRUE, !.sample = -1, !.last = nowTime]
ScanReports ==
    LET judged == RunningState
    IN /\ watcher.step = "capture"
       /\ memory' = judged.entry
       /\ reported' = [running |-> judged.running, changed |-> judged.entry.changed,
                       at |-> watcher.began, busy |-> Inspected = "working",
                       state |-> IF judged.running THEN "working"
                                 ELSE IF judged.history /\ Inspected = "unknown" THEN "idle"
                                 ELSE Inspected]
       /\ watcher' = [Scanned EXCEPT !.seen = watcher.began,
              !.unseen = IF memory.screen # screenNow /\ judged.entry.changed = watcher.began
                         THEN watcher.began - watcher.seen ELSE @]
       /\ UNCHANGED <<screenNow, changedNow, says, nowTime, saved>>
\* A pane that could not be captured keeps its history.
ScanErrs ==
    /\ watcher.step = "capture"
    /\ reported' = [NoPaneReport EXCEPT !.state = "blocked", !.at = watcher.began]
    /\ watcher' = Scanned
    /\ UNCHANGED <<screenNow, changedNow, says, nowTime, memory, saved>>

----------------------------------------------------------------------------
(* The memory on disk.  Only what has a history is worth keeping.            *)

SavedEntry == IF memory.changed = Unset THEN NoEntry ELSE PaneEntry(memory.screen, memory.changed)
SavePaneMemory ==
    /\ watcher.up /\ watcher.step = "wait" /\ watcher.scanned
    /\ saved # SavedEntry /\ saved' = SavedEntry
    /\ UNCHANGED <<screenNow, changedNow, says, nowTime, watcher, memory, reported>>
\* A daemon that is stopped saves; one that dies does not.
DaemonEnds ==
    /\ watcher.up
    /\ saved' \in {saved} \cup (IF watcher.step = "wait" THEN {SavedEntry} ELSE {})
    /\ watcher' = [watcher EXCEPT !.up = FALSE, !.step = "wait", !.scanned = FALSE, !.sample = -1,
                                !.last = nowTime]
    /\ memory' = NoEntry /\ reported' = NoPaneReport
    /\ UNCHANGED <<screenNow, changedNow, says, nowTime>>
\* The file may be of a version whose hashes cannot be compared.
LoadPaneMemory ==
    /\ ~watcher.up /\ watcher.count < MaxDaemons
    /\ \E old \in BOOLEAN :
        memory' = IF saved = NoEntry THEN NoEntry
                 ELSE [saved EXCEPT !.restored = TRUE, !.oldHash = old]
    /\ watcher' = [watcher EXCEPT !.up = TRUE, !.count = @ + 1, !.last = nowTime,
                                !.hidden = @ \/ memory'.oldHash]
    /\ UNCHANGED <<screenNow, changedNow, says, nowTime, saved, reported>>

----------------------------------------------------------------------------
MemoryInit ==
    /\ screenNow = 0 /\ changedNow = 1 /\ says = "unknown" /\ nowTime = 1
    /\ watcher = [up |-> FALSE, step |-> "wait", scanned |-> FALSE, began |-> 1, last |-> 1,
                 sample |-> -1, count |-> 0, hidden |-> FALSE, seen |-> 1, unseen |-> 0]
    /\ memory = NoEntry /\ saved = NoEntry /\ reported = NoPaneReport
MemoryNext ==
    \/ PaneScreenChanges \/ ActivityTimePasses
    \/ ScanStarts \/ FirstSample \/ ScanReports \/ ScanErrs
    \/ SavePaneMemory \/ DaemonEnds \/ LoadPaneMemory
MemorySpec == MemoryInit /\ [][MemoryNext]_activityVars

\* A pane is reported running because its screen says so, or changed no longer
\* ago than the debounce and the time without a capture before that.  And a screen
\* reported as unchanged since some time did not change later than a scan, a
\* debounce and a restart after it, except that a file of the old version hides a
\* change (snapshot.go:268-311).
ActivityIsTrue ==
    /\ reported.running /\ ~reported.busy =>
        reported.at - changedNow <= Debounce + watcher.unseen
    /\ watcher.step = "wait" /\ reported.changed # Unset /\ ~watcher.hidden =>
        \/ memory.screen # screenNow
        \/ changedNow <= reported.changed + ScanGap + Debounce + 1
=============================================================================
