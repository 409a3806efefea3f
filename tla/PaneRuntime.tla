----------------------------- MODULE PaneRuntime -----------------------------
(* What runs below the shell of a pane, as internal/panestatus finds it: in  *)
(* a table of all processes read at most once in a scan, or process by       *)
(* process when that fails, and remembered for a while.  Processes come and  *)
(* go between any two steps.                                                 *)
EXTENDS Integers, FiniteSetsExt

CONSTANTS
    Pids,           \* processes that may come to run below the shell, by pid
    KindOf,         \* what the name of each says: "claude", "codex" or "unknown"
    MaxDepth,       \* levels searched below the shell (3 in the code)
    MaxFound,       \* processes after which the search goes no deeper (64)
    Ttl,            \* how long a detection is remembered (5 s)
    ScanTakes,      \* bound: how long a scan may take
    LastTime        \* bound on the clock

ASSUME RuntimeAssumption ==
    /\ Pids \subseteq Nat \ {0} /\ IsFiniteSet(Pids) /\ MaxDepth \in Nat /\ MaxFound \in Nat
    /\ Ttl \in Nat \ {0} /\ ScanTakes \in Nat /\ LastTime \in Nat
    /\ KindOf \in [Pids -> {"claude", "codex", "unknown"}]

Shell == 0
NoProcess == -1
Orphaned == -2
Never == -1
VARIABLES
    parent,         \* the parent of each process: Orphaned, it lives elsewhere
    foreground,     \* the foreground command of the pane
    time,
    scan,           \* the scan: its start, what tmux listed, the table it read
    walk,           \* a walk process by process
    remembered,     \* the entry of the cache for this pane
    answered,       \* the last detection of the scan: how long ago that ran
    ranAt           \* when an agent was last found by an ideal search
runtimeVars == <<parent, foreground, time, scan, walk, remembered, answered, ranAt>>

Children(table, of) == {p \in Pids : table[p] \in of}
NoTable == [p \in Pids |-> NoProcess]

\* The processes of each level, none once this many have been found.
Levels(table, enough) ==
    LET level[d \in 0 .. MaxDepth] ==
            IF d = 0 THEN {Shell}
            ELSE IF Cardinality(UNION {level[k] : k \in 0 .. d - 1}) >= enough THEN {}
            ELSE Children(table, level[d - 1])
    IN level

\* The first agent, level by level, and in each by pid.
FirstAgent(level, depth) ==
    LET agents(d) == {p \in level[d] \ {Shell} : KindOf[p] # "unknown"}
        at == {d \in 0 .. depth : agents(d) # {}}
    IN IF at = {} THEN "unknown" ELSE KindOf[Min(agents(Min(at)))]

\* All that run below the shell, at whatever depth: the least set with the
\* shell in it that has the children of its members.
Closed(table, S) == Shell \in S /\ Children(table, S) \subseteq S
AllBelow(table) ==
    {p \in Pids \cup {Shell} :
        \A S \in SUBSET (Pids \cup {Shell}) : Closed(table, S) => p \in S}
RunsBelow(table, kind) == \E p \in AllBelow(table) \ {Shell} : KindOf[p] = kind

----------------------------------------------------------------------------
(* The world: a process is started by one below the shell, or ends and       *)
(* leaves its children to init; a child of the shell is in the foreground.   *)

Lives(p) == parent[p] # NoProcess
Changes(table, command) ==
    /\ parent' = table /\ foreground' = command
    /\ ranAt' = [k \in DOMAIN ranAt |->
            IF RunsBelow(parent, k) \/ RunsBelow(table, k) THEN time ELSE ranAt[k]]
    /\ UNCHANGED <<time, scan, walk, remembered, answered>>
RunStarts ==
    \E p \in Pids, q \in Pids \cup {Shell} :
        /\ ~Lives(p) /\ q \in AllBelow(parent) /\ p > q
        /\ Changes([parent EXCEPT ![p] = q], IF q = Shell THEN p ELSE foreground)
RunEnds ==
    \E p \in Pids :
        /\ Lives(p)
        /\ Changes([q \in Pids |-> IF q = p THEN NoProcess
                                   ELSE IF parent[q] = p THEN Orphaned ELSE parent[q]],
                   IF foreground = p THEN Shell ELSE foreground)
ScanMayGoOn == scan.on => time < scan.began + ScanTakes
Passes ==
    /\ time < LastTime /\ ScanMayGoOn
    /\ time' = time + 1
    /\ ranAt' = [k \in DOMAIN ranAt |-> IF RunsBelow(parent, k) THEN time + 1 ELSE ranAt[k]]
    /\ UNCHANGED <<parent, foreground, scan, walk, remembered, answered>>

----------------------------------------------------------------------------
(* A scan and its lookups.  Those of other panes may read the table first.   *)

NotWalking == [on |-> FALSE, level |-> [d \in 0 .. MaxDepth |-> {}], depth |-> 0,
               listed |-> {}, found |-> 0, began |-> 0]
NoScan == [on |-> FALSE, began |-> 0, command |-> Shell, read |-> "no", table |-> NoTable]

ScanBegins ==
    /\ ~scan.on
    /\ scan' = [NoScan EXCEPT !.on = TRUE, !.began = time, !.command = foreground]
    /\ UNCHANGED <<parent, foreground, time, walk, remembered, answered, ranAt>>

\* The table, all of it at once, or an error that is kept for the scan.
ReadTable(ok) ==
    /\ scan.on /\ scan.read = "no"
    /\ scan' = [scan EXCEPT !.read = IF ok THEN "yes" ELSE "failed",
                            !.table = IF ok THEN parent ELSE NoTable]
    /\ UNCHANGED <<parent, foreground, time, walk, remembered, answered, ranAt>>

\* The mutant: as long as the command is the same.
FreshForCommand == remembered.command = scan.command /\ remembered.expires > 0
\* An entry is good from before it was computed.
Expires(began) == began + Ttl
Fresh == remembered.command = scan.command /\ time < remembered.expires

NoRuntime == [kind |-> "unknown", age |-> 0]
Gives(kind) == answered' =
    IF kind = "unknown" THEN NoRuntime
    ELSE [kind |-> kind, age |-> IF ranAt[kind] = Never THEN LastTime + 1 ELSE time - ranAt[kind]]
Remembers(kind, began) ==
    /\ Gives(kind)
    /\ remembered' = [command |-> scan.command, kind |-> kind, expires |-> Expires(began)]

LookUpFresh ==
    /\ scan.on /\ ~walk.on /\ Fresh
    /\ Gives(remembered.kind)
    /\ UNCHANGED <<parent, foreground, time, scan, walk, remembered, ranAt>>

\* With the table there is nothing to wait for.
LookUpTable ==
    /\ scan.on /\ ~walk.on /\ ~Fresh /\ scan.read = "yes"
    /\ Remembers(FirstAgent(Levels(scan.table, MaxFound), MaxDepth), time)
    /\ UNCHANGED <<parent, foreground, time, scan, walk, ranAt>>

WalkBegins ==
    /\ scan.on /\ ~walk.on /\ ~Fresh /\ scan.read = "failed"
    /\ walk' = [NotWalking EXCEPT !.on = TRUE, !.level[0] = {Shell}, !.began = time, !.found = 1]
    /\ UNCHANGED <<parent, foreground, time, scan, remembered, answered, ranAt>>

\* pgrep: the children of the last level as they are now.
WalkLists ==
    /\ walk.on /\ walk.listed = {}
    /\ walk.depth < MaxDepth /\ walk.found < MaxFound
    /\ Children(parent, walk.level[walk.depth]) # {}
    /\ walk' = [walk EXCEPT !.listed = Children(parent, walk.level[walk.depth])]
    /\ UNCHANGED <<parent, foreground, time, scan, remembered, answered, ranAt>>

\* ps: those of them that still live, but for those that were found on an
\* earlier level; it fails when there is none.
Seen == UNION {walk.level[d] : d \in 0 .. walk.depth}
WalkReads ==
    LET alive == {p \in walk.listed : Lives(p)}
    IN /\ walk.listed # {} /\ alive # {}
       /\ walk' = [walk EXCEPT !.listed = {}, !.depth = @ + 1,
                               !.found = @ + Cardinality(alive \ Seen),
                               !.level[walk.depth + 1] = alive \ Seen]
       /\ UNCHANGED <<parent, foreground, time, scan, remembered, answered, ranAt>>

WalkEnds ==
    /\ walk.on /\ walk.listed = {}
    /\ \/ walk.depth = MaxDepth \/ walk.found >= MaxFound
       \/ Children(parent, walk.level[walk.depth]) = {}
    /\ Remembers(FirstAgent(walk.level, walk.depth), walk.began)
    /\ walk' = NotWalking
    /\ UNCHANGED <<parent, foreground, time, scan, ranAt>>

\* A command that fails, or finds nobody left, makes the whole walk unknown.
WalkFails ==
    /\ walk.on
    /\ Remembers("unknown", walk.began)
    /\ walk' = NotWalking
    /\ UNCHANGED <<parent, foreground, time, scan, ranAt>>

\* A pane that is gone from the list is forgotten: its shell has ended.
ScanEnds ==
    /\ scan.on /\ ~walk.on
    /\ scan' = NoScan /\ answered' = NoRuntime
    /\ UNCHANGED <<parent, foreground, time, walk, remembered, ranAt>>

----------------------------------------------------------------------------
RuntimeInit ==
    /\ parent = NoTable /\ foreground = Shell
    /\ time = 0 /\ scan = NoScan /\ walk = NotWalking
    /\ remembered = [command |-> Shell, kind |-> "unknown", expires |-> 0]
    /\ answered = NoRuntime
    /\ ranAt = [k \in {KindOf[p] : p \in Pids} \ {"unknown"} |-> Never]

RuntimeNext ==
    \/ RunStarts \/ RunEnds \/ Passes
    \/ ScanBegins \/ (\E ok \in BOOLEAN : ReadTable(ok)) \/ ScanEnds
    \/ LookUpFresh \/ LookUpTable
    \/ WalkBegins \/ WalkLists \/ WalkReads \/ WalkEnds \/ WalkFails

RuntimeSpec == RuntimeInit /\ [][RuntimeNext]_runtimeVars

\* An agent that is reported ran below the shell, though perhaps deeper than the
\* search goes, not longer ago than a detection is remembered and a scan takes
\* (runtimecache.go:48-64, process_table.go:26-35).
ReportedAgentRan ==
    answered.kind # "unknown" => answered.age <= Ttl + ScanTakes - 1
=============================================================================
