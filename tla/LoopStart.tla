------------------------------ MODULE LoopStart -----------------------------
(***************************************************************************)
(* `loop start` and `loop restart` of one config (loop_lifecycle_cmd.go):  *)
(* the start lock, the look for an active run, the launch in a tmux        *)
(* window, the wait for its registration.  What a run does once it is      *)
(* registered is LoopRunner's; here it is registered, then ends.           *)
(*                                                                         *)
(* start locks in the machine-wide registry.  restart ends the active run  *)
(* and then starts with --run-dir, which locks in that directory: the two  *)
(* commands do not exclude each other.                                     *)
(***************************************************************************)
EXTENDS Integers, FiniteSets

CONSTANTS
    Starters,         \* commands, each used once
    Restarts,         \* those that restart
    LoopRuns,         \* runtimes that can be launched
    MayCrash,         \* commands may be killed
    NoOne

ASSUME StartAssumption ==
    /\ Restarts \subseteq Starters /\ NoOne \notin Starters
    /\ MayCrash \in BOOLEAN

VARIABLES
    startAt,          \* command -> where it is
    lock,             \* lock file -> its owner; "none" until it has a pid
    life,             \* run -> what it is at
    asked,            \* runs that were asked to stop
    launched,         \* command -> the run it launched, the older ones
    excuses           \* history: why two runs may be alive

startVars == <<startAt, lock, life, asked, launched, excuses>>

Locks == {"registry", "directory"}
LockOf(s) == IF s \in Restarts THEN "directory" ELSE "registry"
NoFile == [file |-> FALSE, pid |-> NoOne, old |-> FALSE]

StartInit ==
    /\ startAt = [s \in Starters |-> "ready"]
    /\ lock = [l \in Locks |-> NoFile]
    /\ life = [r \in LoopRuns |-> "unused"]
    /\ asked = {} /\ launched = [s \in Starters |-> [run |-> {}, old |-> {}]] /\ excuses = {}

ActiveRuns == {r \in LoopRuns : life[r] = "registered"}
LiveRuns == {r \in LoopRuns : life[r] \in {"launched", "registered"}}

Goes(s, to) == startAt' = [startAt EXCEPT ![s] = to]

(***************************************************************************)
(* restart: ask the active run to stop and wait until it is not active.    *)
(***************************************************************************)
RestartAsks(s) ==
    /\ startAt[s] = "ready" /\ s \in Restarts
    /\ \/ Cardinality(ActiveRuns) > 1 /\ Goes(s, "failed") /\ UNCHANGED asked
       \/ /\ Cardinality(ActiveRuns) <= 1
          /\ asked' = asked \cup ActiveRuns /\ Goes(s, "stopping")
    /\ UNCHANGED <<lock, life, launched, excuses>>

\* It waits for the runs it asked; a timeout fails the command.
RestartWaits(s) ==
    /\ startAt[s] = "stopping"
    /\ \/ asked \cap ActiveRuns = {} /\ Goes(s, "locking")
       \/ asked \cap ActiveRuns # {} /\ Goes(s, "failed")
    /\ UNCHANGED <<lock, life, asked, launched, excuses>>

StartBegins(s) ==
    /\ startAt[s] = "ready" /\ s \notin Restarts /\ Goes(s, "locking")
    /\ UNCHANGED <<lock, life, asked, launched, excuses>>

(***************************************************************************)
(* acquireLoopStartLock: create the file; if it exists and is stale,       *)
(* remove it and create it again; then write the process id.               *)
(***************************************************************************)
Gone(s) == startAt[s] \in {"crashed", "started", "already", "failed"}
Stale(f) == f.old \/ (f.pid # NoOne /\ Gone(f.pid))

CreatesLock(s) ==
    /\ startAt[s] \in {"locking", "again"} /\ ~lock[LockOf(s)].file
    /\ lock' = [lock EXCEPT ![LockOf(s)] = [NoFile EXCEPT !.file = TRUE]]
    /\ Goes(s, "locked")
    /\ UNCHANGED <<life, asked, launched, excuses>>

FindsLock(s) ==
    /\ startAt[s] \in {"locking", "again"} /\ lock[LockOf(s)].file
    /\ Goes(s, IF startAt[s] = "locking" /\ Stale(lock[LockOf(s)])
               THEN "removing" ELSE "failed")
    /\ UNCHANGED <<lock, life, asked, launched, excuses>>

\* os.Remove takes away whatever file is there by now.
RemovesLock(s) ==
    /\ startAt[s] = "removing" /\ Goes(s, "again")
    /\ lock' = [lock EXCEPT ![LockOf(s)] = NoFile]
    /\ excuses' = excuses \cup {"takeover"}
    /\ UNCHANGED <<life, asked, launched>>

WritesPid(s) ==
    /\ startAt[s] = "locked" /\ Goes(s, "looking")
    /\ lock' = [lock EXCEPT ![LockOf(s)] =
                  IF @.file THEN [@ EXCEPT !.pid = s] ELSE @]
    /\ UNCHANGED <<life, asked, launched, excuses>>

\* release removes the file, whoever's it is.
Release(s) == lock' = [lock EXCEPT ![LockOf(s)] = NoFile]

(***************************************************************************)
(* Under the lock: an active run is reported, otherwise one is launched    *)
(* and its registration awaited until the timeout.                         *)
(***************************************************************************)
\* Two locks were held when it found nothing although a command with the
\* other lock is about to launch a run, or has launched one that has not
\* registered yet.
OtherLockHeld(s) ==
    \E t \in Starters \ {s} : LockOf(t) # LockOf(s)
                               /\ startAt[t] \in {"launching", "awaiting"}

LooksForActive(s) ==
    /\ startAt[s] = "looking"
    /\ \/ /\ ActiveRuns = {} /\ Goes(s, "launching") /\ UNCHANGED lock
          /\ excuses' = IF OtherLockHeld(s) THEN excuses \cup {"two locks"}
                                            ELSE excuses
       \/ /\ Cardinality(ActiveRuns) = 1 /\ Goes(s, "already") /\ Release(s)
          /\ UNCHANGED excuses
       \/ /\ Cardinality(ActiveRuns) > 1 /\ Goes(s, "failed") /\ Release(s)
          /\ UNCHANGED excuses
    /\ UNCHANGED <<life, asked, launched>>

\* `loop run` in a new tmux window.  The wait will accept any run of this
\* config that registered after one second before the launch.
LaunchesRun(s) ==
    \E r \in LoopRuns, recent \in SUBSET LoopRuns :
        LET registered == {q \in LoopRuns : life[q] \in {"registered", "ended"}}
        IN /\ life[r] = "unused" /\ life' = [life EXCEPT ![r] = "launched"]
           /\ recent \subseteq registered
           /\ launched' = [launched EXCEPT ![s] =
                             [run |-> {r}, old |-> registered \ recent]]

LaunchesUnlocked(s) ==
    /\ startAt[s] = "launching" /\ Goes(s, "awaiting")
    /\ LaunchesRun(s) /\ Release(s) /\ UNCHANGED <<asked, excuses>>
Launches(s) ==
    /\ startAt[s] = "launching" /\ Goes(s, "awaiting")
    /\ LaunchesRun(s) /\ UNCHANGED <<lock, asked, excuses>>

Awaits(s) ==
    /\ startAt[s] = "awaiting" /\ Goes(s, "started") /\ Release(s)
    /\ \E r \in LoopRuns \ launched[s].old :
         /\ life[r] \in {"registered", "ended"}
         /\ excuses' = IF r \in launched[s].run THEN excuses
                                               ELSE excuses \cup {"another run"}
    /\ UNCHANGED <<life, asked, launched>>

TimesOut(s) ==
    /\ startAt[s] = "awaiting" /\ Goes(s, "failed") /\ Release(s)
    /\ excuses' = excuses \cup {"timeout"}
    /\ UNCHANGED <<life, asked, launched>>

Crashes(s) ==
    /\ MayCrash /\ ~Gone(s) /\ startAt[s] # "ready" /\ Goes(s, "crashed")
    /\ excuses' = IF startAt[s] = "awaiting" THEN excuses \cup {"timeout"} ELSE excuses
    /\ UNCHANGED <<lock, life, asked, launched>>

LockAges(l) ==
    /\ lock[l].file /\ ~lock[l].old
    /\ lock' = [lock EXCEPT ![l].old = TRUE]
    /\ UNCHANGED <<startAt, life, asked, launched, excuses>>

(***************************************************************************)
(* A launched process registers, or fails before it; a run ends.           *)
(***************************************************************************)
RunRegisters(r) ==
    /\ life[r] = "launched" /\ life' = [life EXCEPT ![r] = "registered"]
    /\ UNCHANGED <<startAt, lock, asked, launched, excuses>>

RunEnds(r) ==
    /\ life[r] \in {"launched", "registered"}
    /\ life' = [life EXCEPT ![r] = IF @ = "launched" THEN "failed" ELSE "ended"]
    /\ UNCHANGED <<startAt, lock, asked, launched, excuses>>

StartCommand(s) ==
    \/ RestartAsks(s) \/ RestartWaits(s) \/ StartBegins(s)
    \/ CreatesLock(s) \/ FindsLock(s) \/ RemovesLock(s) \/ WritesPid(s)
    \/ LooksForActive(s) \/ Launches(s) \/ Awaits(s) \/ TimesOut(s) \/ Crashes(s)

StartNext ==
    \/ \E s \in Starters : StartCommand(s)
    \/ \E l \in Locks : LockAges(l)
    \/ \E r \in LoopRuns : RunRegisters(r) \/ RunEnds(r)

StartSpec == StartInit /\ [][StartNext]_startVars

-----------------------------------------------------------------------------
(* Properties. *)

\* `loop start` does not start a duplicate (README.md:199-201): two runs of one
\* config are alive only if a command gave up on a run it had launched, took
\* over a lock file as stale, or a start and a restart launched at once.
NoUnexcusedDuplicate == Cardinality(LiveRuns) > 1 => excuses # {}

=============================================================================
