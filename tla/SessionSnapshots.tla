-------------------------- MODULE SessionSnapshots --------------------------
(***************************************************************************)
(* The daemon saves the tmux sessions and restores them when it starts and *)
(* there are none (internal/statusd/session_persistence.go).  A save is a  *)
(* file, the pointer `last` to it and the removal of old files, and the    *)
(* daemon may die between any two writes; a restore makes the sessions one *)
(* by one and kills those it made when it fails.  What a session consists  *)
(* of is left out: its windows and panes are steps that may fail.  Files   *)
(* are numbered in the order of their names, which is that of the clock.   *)
(***************************************************************************)
EXTENDS Integers, Sequences, SequencesExt, FiniteSetsExt

CONSTANTS
    Saved,            \* the names of sessions
    Retention,        \* SessionSnapshotStore.Retention
    MaxSaves,         \* bound: files ever written
    MaxTrouble        \* bound: crashes, failed writes and damaged files

ASSUME SnapshotsAssumption ==
    /\ IsFiniteSet(Saved)
    /\ Retention \in Nat \ {0} /\ MaxSaves \in Nat /\ MaxTrouble \in Nat

VARIABLES
    tmux,             \* [Saved -> "no", "user" or "restored"]: who made it
    files,            \* the snapshots on disk: [no, holds, valid]
    last,             \* what `last` names, 0 for nothing
    saver,            \* the daemon: where it is, and what it works on
    saves, trouble,   \* the counters of the bounds
    completed,        \* the saves whose pointer was written
    leftover          \* the sessions a rollback could not kill

snapVars == <<tmux, files, last, saver, saves, trouble, completed, leftover>>

Starting == [at |-> "start", holds |-> {}, plan |-> <<>>, made |-> <<>>, outcome |-> "none"]

SnapshotsInit ==
    /\ tmux \in [Saved -> {"no", "user"}] /\ files = {} /\ last = 0
    /\ saver = Starting /\ saves = 0 /\ trouble = 0 /\ completed = {} /\ leftover = {}

Live == {n \in Saved : tmux[n] # "no"}
Valid == {f \in files : f.valid}
Numbers(fs) == {f.no : f \in fs}
Trouble == trouble < MaxTrouble /\ trouble' = trouble + 1

\* Users start and end sessions; nobody replaces a session of a restore that is
\* under way by another of its name.
UserStarts(n) ==
    /\ tmux[n] = "no" /\ n \notin ToSet(saver.made)
    /\ tmux' = [tmux EXCEPT ![n] = "user"]
    /\ UNCHANGED <<files, last, saver, saves, trouble, completed, leftover>>
UserEnds(n) ==
    /\ tmux[n] # "no" /\ tmux' = [tmux EXCEPT ![n] = "no"]
    /\ UNCHANGED <<files, last, saver, saves, trouble, completed, leftover>>

-----------------------------------------------------------------------------
(* Save. *)
\* An empty or failed capture saves nothing.
SaveBegins ==
    /\ saver.at = "idle" /\ Live # {} /\ saves < MaxSaves
    /\ saver' = [saver EXCEPT !.at = "file", !.holds = Live]
    /\ UNCHANGED <<tmux, files, last, saves, trouble, completed, leftover>>

SaveWrites ==
    /\ saver.at = "file" /\ saves' = saves + 1
    /\ files' = files \cup {[no |-> saves', holds |-> saver.holds, valid |-> TRUE]}
    /\ saver' = [saver EXCEPT !.at = "pointer"]
    /\ UNCHANGED <<tmux, last, trouble, completed, leftover>>

SavePoints ==
    /\ saver.at = "pointer" /\ last' = saves /\ completed' = completed \cup {saves}
    /\ saver' = [saver EXCEPT !.at = "prune"]
    /\ UNCHANGED <<tmux, files, saves, trouble, leftover>>

\* prune: the valid files beyond the newest ones; files it cannot read stay.
Surplus == {f \in Valid : Cardinality({g \in Valid : g.no > f.no}) >= Retention}
Prunes ==
    /\ saver.at = "prune"
    /\ IF Surplus = {}
       THEN saver' = [saver EXCEPT !.at = "idle"] /\ UNCHANGED files
       ELSE /\ files' = files \ {f \in Surplus : f.no = Max(Numbers(Surplus))}
            /\ UNCHANGED saver
    /\ UNCHANGED <<tmux, last, saves, trouble, completed, leftover>>

\* A write or removal that fails ends the save where it is.
SaveFails ==
    /\ saver.at \in {"file", "pointer", "prune"} /\ Trouble
    /\ saver' = [saver EXCEPT !.at = "idle"]
    /\ UNCHANGED <<tmux, files, last, saves, completed, leftover>>

-----------------------------------------------------------------------------
(* Restore. *)
\* LoadLatest: the file `last` names, or the newest one that can be read, to
\* which `last` is then set if that works.
Loads ==
    IF \E f \in Valid : f.no = last THEN last
    ELSE IF Valid # {} THEN Max(Numbers(Valid)) ELSE 0

RestoreBegins ==
    /\ saver.at = "start"
    /\ IF Live # {} \/ Loads = 0
       THEN saver' = [saver EXCEPT !.at = "idle"] /\ UNCHANGED last
       ELSE /\ last' \in {last, Loads}
            /\ saver' = [saver EXCEPT !.at = "create",
                   !.plan = SetToSeq((CHOOSE f \in Valid : f.no = Loads).holds)]
    /\ UNCHANGED <<tmux, files, saves, trouble, completed, leftover>>

\* What a rollback kills once tmux refused to create the session n.
MadeWithRefused(made, n) == Append(made, n)
MadeBefore(made, n) == made

\* tmux refuses a second session of a name.
CreatesSession ==
    /\ saver.at = "create" /\ saver.plan # <<>>
    /\ LET n == Head(saver.plan)
       IN  IF tmux[n] # "no"
           THEN /\ saver' = [saver EXCEPT !.at = "rollback", !.made = MadeBefore(@, n)]
                /\ UNCHANGED tmux
           ELSE /\ tmux' = [tmux EXCEPT ![n] = "restored"]
                /\ saver' = [saver EXCEPT !.at = "windows", !.made = Append(@, n)]
    /\ UNCHANGED <<files, last, saves, trouble, completed, leftover>>

\* restoreWindow, NewWindow, SelectWindow: they fail when the session is gone.
CreatesWindows ==
    /\ saver.at = "windows"
    /\ IF tmux[Head(saver.plan)] = "no"
       THEN saver' = [saver EXCEPT !.at = "rollback"]
       ELSE saver' = [saver EXCEPT !.at = "create", !.plan = Tail(@)]
    /\ UNCHANGED <<tmux, files, last, saves, trouble, completed, leftover>>

WindowsFail ==
    /\ saver.at = "windows" /\ Trouble
    /\ saver' = [saver EXCEPT !.at = "rollback"]
    /\ UNCHANGED <<tmux, files, last, saves, completed, leftover>>

Restored ==
    /\ saver.at = "create" /\ saver.plan = <<>>
    /\ saver' = [Starting EXCEPT !.at = "idle", !.outcome = "restored"]
    /\ UNCHANGED <<tmux, files, last, saves, trouble, completed, leftover>>

\* Newest first; a kill that fails is ignored.
RollsBack ==
    /\ saver.at = "rollback" /\ saver.made # <<>>
    /\ LET n == saver.made[Len(saver.made)]
       IN  \/ /\ tmux' = [tmux EXCEPT ![n] = "no"] /\ UNCHANGED <<trouble, leftover>>
           \/ Trouble /\ leftover' = leftover \cup {n} /\ UNCHANGED tmux
    /\ saver' = [saver EXCEPT !.made = SubSeq(@, 1, Len(@) - 1)]
    /\ UNCHANGED <<files, last, saves, completed>>

RolledBack ==
    /\ saver.at = "rollback" /\ saver.made = <<>>
    /\ saver' = [Starting EXCEPT !.at = "idle", !.outcome = "failed"]
    /\ UNCHANGED <<tmux, files, last, saves, trouble, completed, leftover>>

-----------------------------------------------------------------------------
DaemonDies ==
    /\ Trouble /\ saver' = Starting
    /\ UNCHANGED <<tmux, files, last, saves, completed, leftover>>

\* The machine restarts: no session is left.
Reboots ==
    /\ Trouble /\ saver' = Starting /\ tmux' = [n \in Saved |-> "no"] /\ leftover' = {}
    /\ UNCHANGED <<files, last, saves, completed>>

Damaged(f) ==
    /\ f.valid /\ Trouble /\ files' = (files \ {f}) \cup {[f EXCEPT !.valid = FALSE]}
    /\ UNCHANGED <<tmux, last, saver, saves, completed, leftover>>

SnapshotsNext ==
    \/ \E n \in Saved : UserStarts(n) \/ UserEnds(n)
    \/ SaveBegins \/ SaveWrites \/ SavePoints \/ Prunes \/ SaveFails
    \/ RestoreBegins \/ CreatesSession \/ CreatesWindows \/ WindowsFail \/ Restored
    \/ RollsBack \/ RolledBack \/ DaemonDies \/ Reboots
    \/ \E f \in files : Damaged(f)
SnapshotsSpec == SnapshotsInit /\ [][SnapshotsNext]_snapVars

-----------------------------------------------------------------------------
\* Of the last Retention snapshots, a restore finds the newest that a save
\* completed and that can still be read, or a newer one, wherever a later save
\* was interrupted and whatever it had already removed.
SavedIsLoadable ==
    \A s \in completed :
        Cardinality((s + 1)..saves) < Retention
        /\ (\A f \in files : f.no = s => f.valid)
            => Loads # 0 /\ Loads >= s

\* A restore that failed leaves none of the sessions it made, but for those
\* tmux would not kill, and no restore ends a session that somebody else made.
RollbackIsExact ==
    /\ saver.outcome = "failed" => \A n \in Saved \ leftover : tmux[n] # "restored"
    /\ \A n \in ToSet(saver.made) : tmux[n] # "user"

\* What was running comes back, and nothing else is touched.
RestoreIsSafe == SavedIsLoadable /\ RollbackIsExact
=============================================================================
