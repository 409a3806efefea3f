--------------------------- MODULE SessionHistory ---------------------------
(***************************************************************************)
(* The history of closed sessions (internal/statusd/closed_sessions.go)    *)
(* and those who write it: the daemon, which compares one poll with the    *)
(* one before, the web handlers, which share the daemon's copy, and the    *)
(* `session` commands, each of which has a copy of its own.  Everyone      *)
(* reads the file once and then writes all of his copy over it.  A session *)
(* is its name; what an entry says of directory and runtime is left out.   *)
(***************************************************************************)
EXTENDS Integers, Sequences, SequencesExt, FiniteSets

CONSTANTS
    Names,            \* the names of sessions
    SessionCommands,         \* the `session` commands
    MaxClosed,        \* NewClosedSessionLog: max
    MaxStarts         \* bound: sessions ever started

ASSUME HistoryAssumption ==
    IsFiniteSet(Names) /\ MaxClosed \in Nat \ {0} /\ MaxStarts \in Nat

VARIABLES
    live,             \* the names of the sessions tmux has
    starts,           \* the sessions started so far
    file,             \* closed-sessions.json: the names, newest first
    daemon,           \* the daemon's ClosedSessionLog and Daemon.prevSessions
    reopening,        \* the web handler of /api/session/reopen
    command,          \* [SessionCommands -> the state of a `session` command]
    owed              \* the names the daemon knows and nobody took out of its copy

histVars == <<live, starts, file, daemon, reopening, command, owed>>

NotLoaded == [loaded |-> FALSE, entries |-> <<>>]
DaemonStart == [at |-> "idle", log |-> NotLoaded, prev |-> {}, scan |-> {}, known |-> {}]
NoHandler == [at |-> "no", name |-> "", ok |-> TRUE]
NoCommand == [at |-> "no", name |-> "", log |-> NotLoaded, before |-> <<>>]

HistoryInit ==
    /\ live \in SUBSET Names /\ starts = Cardinality(live)
    /\ file = <<>> /\ daemon = DaemonStart /\ reopening = NoHandler
    /\ command = [c \in SessionCommands |-> NoCommand] /\ owed = {}

-----------------------------------------------------------------------------
(* The log. *)
Newest(s) == SubSeq(s, 1, IF Len(s) < MaxClosed THEN Len(s) ELSE MaxClosed)
Entries(log) == IF log.loaded THEN log.entries ELSE Newest(file)
\* The others, in their order.
Sifted(s, names) ==
    LET kept[i \in 0 .. Len(s)] ==
            IF i = 0 THEN << >>
            ELSE IF s[i] \in names THEN kept[i - 1] ELSE Append(kept[i - 1], s[i])
    IN kept[Len(s)]
Merged(closed, log) == Newest(closed \o Sifted(Entries(log), ToSet(closed)))
Loaded(entries) == [loaded |-> TRUE, entries |-> entries]
Trimmed(closed, log) == (ToSet(closed) \cup ToSet(Entries(log))) \ ToSet(Merged(closed, log))
Without(log, names) == Sifted(Entries(log), names)

-----------------------------------------------------------------------------
(* Sessions start and end behind everybody's back. *)
SessionStarts(n) ==
    /\ n \notin live /\ starts < MaxStarts
    /\ live' = live \cup {n} /\ starts' = starts + 1
    /\ UNCHANGED <<file, daemon, reopening, command, owed>>

SessionEnds(n) ==
    /\ n \in live /\ live' = live \ {n}
    /\ UNCHANGED <<starts, file, daemon, reopening, command, owed>>

-----------------------------------------------------------------------------
(* The daemon: a poll publishes what it scanned, records what is gone since *)
(* the poll before, and drops what is back.                                 *)
Scan ==
    /\ daemon.at = "idle"
    /\ daemon' = [daemon EXCEPT !.at = "scanned", !.scan = live, !.known = live]
    /\ UNCHANGED <<live, starts, file, reopening, command, owed>>

\* A scan that fails half way is not compared with anything.
PartialAfterFailedScan(prev, partial) == partial
AfterFailedScan(prev, partial) == prev
ScanFails(partial) ==
    /\ daemon.at = "idle" /\ partial \subseteq live
    /\ daemon' = [daemon EXCEPT !.prev = AfterFailedScan(@, partial)]
    /\ UNCHANGED <<live, starts, file, reopening, command, owed>>

\* A record the disk refuses is logged and forgotten.
RecordClosed(written) ==
    /\ daemon.at = "scanned"
    /\ LET gone == SetToSeq(daemon.prev \ daemon.scan)
           merged == Merged(gone, daemon.log)
           log == IF gone = <<>> THEN daemon.log
                  ELSE Loaded(IF written THEN merged ELSE Entries(daemon.log))
       IN  /\ daemon' = [daemon EXCEPT !.at = "recorded", !.log = log]
           /\ file' = IF gone # <<>> /\ written THEN merged ELSE file
           /\ owed' = IF gone = <<>> THEN owed
                      ELSE IF written THEN owed \ Trimmed(gone, daemon.log)
                      ELSE owed \ ToSet(gone)
    /\ UNCHANGED <<live, starts, reopening, command>>

PruneLive(written) ==
    /\ daemon.at = "recorded"
    /\ LET kept == Without(daemon.log, daemon.scan)
           drops == daemon.scan # {} /\ kept # Entries(daemon.log)
       IN  /\ file' = IF drops /\ written THEN kept ELSE file
           /\ daemon' = [daemon EXCEPT !.at = "idle", !.prev = daemon.scan, !.scan = {},
                  !.log = IF daemon.scan = {} THEN @
                          ELSE Loaded(IF drops /\ written THEN kept ELSE Entries(@))]
    /\ owed' = owed \cup daemon.scan
    /\ UNCHANGED <<live, starts, reopening, command>>

\* The daemon ends, its web handlers with it, and is started again.
DaemonRestarts ==
    /\ daemon' = DaemonStart /\ reopening' = NoHandler /\ owed' = {}
    /\ UNCHANGED <<live, starts, file, command>>

-----------------------------------------------------------------------------
(* The web handlers. *)
\* handleSessionKill: only a session of the latest snapshot.
WebKills(n) == n \in daemon.known /\ SessionEnds(n)

\* handleSessionReopen
WebReopen(n) ==
    /\ reopening.at = "no" /\ n \notin daemon.known
    /\ n \in ToSet(Entries(daemon.log))
    /\ daemon' = [daemon EXCEPT !.log = Loaded(Entries(@))]
    /\ reopening' = [at |-> "create", name |-> n, ok |-> TRUE]
    /\ UNCHANGED <<live, starts, file, command, owed>>

\* tmux refuses a second session of the name.
WebCreates ==
    /\ reopening.at = "create"
    /\ IF reopening.name \in live
       THEN reopening' = NoHandler /\ UNCHANGED <<live, starts>>
       ELSE /\ starts < MaxStarts /\ starts' = starts + 1
            /\ live' = live \cup {reopening.name}
            /\ reopening' = [reopening EXCEPT !.at = "remove"]
    /\ UNCHANGED <<file, daemon, command, owed>>

WebRemoves(written) ==
    /\ reopening.at = "remove"
    /\ LET n == reopening.name
           had == n \in ToSet(Entries(daemon.log))
           kept == Without(daemon.log, {n})
       IN  IF had /\ ~written
           THEN /\ live' = live \ {n} /\ UNCHANGED <<file, daemon, owed>>
           ELSE /\ daemon' = [daemon EXCEPT !.log = Loaded(kept)]
                /\ file' = IF had THEN kept ELSE file
                /\ owed' = owed \ (IF had THEN {n} ELSE {})
                /\ UNCHANGED live
    /\ reopening' = NoHandler
    /\ UNCHANGED <<starts, command>>

-----------------------------------------------------------------------------
(* The `session` commands. *)
Run(c, s) == command' = [command EXCEPT ![c] = s]
Finish(c) == command' = [command EXCEPT ![c] = NoCommand]

\* Close: the entry is on disk before the session is killed.
CloseStages(c, n) ==
    /\ command[c].at = "no" /\ n \in live
    /\ LET staged == Merged(<<n>>, NotLoaded)
       IN  /\ Run(c, [at |-> "kill", name |-> n, log |-> Loaded(staged), before |-> Newest(file)])
           /\ file' = staged
    /\ UNCHANGED <<live, starts, daemon, reopening, owed>>

CloseKills(c) ==
    /\ command[c].at = "kill" /\ command[c].name \in live
    /\ live' = live \ {command[c].name} /\ Finish(c)
    /\ UNCHANGED <<starts, file, daemon, reopening, owed>>

\* The session is gone by itself, or tmux fails: what was there before is
\* written back, unless that fails as well.
CloseRollsBack(c, written) ==
    /\ command[c].at = "kill"
    /\ file' = IF written THEN command[c].before ELSE file
    /\ Finish(c)
    /\ UNCHANGED <<live, starts, daemon, reopening, owed>>

ReopenCreates(c, n) ==
    /\ command[c].at = "no" /\ n \in ToSet(Entries(NotLoaded)) /\ n \notin live
    /\ starts < MaxStarts /\ starts' = starts + 1 /\ live' = live \cup {n}
    /\ Run(c, [NoCommand EXCEPT !.at = "remove", !.name = n, !.log = Loaded(Newest(file))])
    /\ UNCHANGED <<file, daemon, reopening, owed>>

ReopenRemoves(c) ==
    /\ command[c].at = "remove"
    /\ file' = Without(command[c].log, {command[c].name}) /\ Finish(c)
    /\ UNCHANGED <<live, starts, daemon, reopening, owed>>

\* The runtime cannot be launched, or the entry not removed: the session of
\* the name is killed.
ReopenCleansUp(c) ==
    /\ command[c].at \in {"remove", "verify"}
    /\ live' = live \ {command[c].name} /\ Finish(c)
    /\ UNCHANGED <<starts, file, daemon, reopening, owed>>

\* Create and Resume: a new session that cannot be verified, or not be typed
\* into, is killed as well.
CommandCreates(c, n) ==
    /\ command[c].at = "no" /\ n \notin live
    /\ starts < MaxStarts /\ starts' = starts + 1 /\ live' = live \cup {n}
    /\ Run(c, [NoCommand EXCEPT !.at = "verify", !.name = n])
    /\ UNCHANGED <<file, daemon, reopening, owed>>

\* A command ends, or is interrupted, where it is.
CommandEnds(c) ==
    /\ command[c].at # "no" /\ Finish(c)
    /\ UNCHANGED <<live, starts, file, daemon, reopening, owed>>

HistoryNext ==
    \/ \E n \in Names : SessionStarts(n) \/ SessionEnds(n) \/ WebKills(n) \/ WebReopen(n)
    \/ Scan \/ DaemonRestarts \/ WebCreates
    \/ \E partial \in SUBSET Names : ScanFails(partial)
    \/ \E written \in BOOLEAN : RecordClosed(written) \/ PruneLive(written) \/ WebRemoves(written)
    \/ \E c \in SessionCommands :
        \/ CloseKills(c) \/ ReopenRemoves(c) \/ ReopenCleansUp(c) \/ CommandEnds(c)
        \/ \E written \in BOOLEAN : CloseRollsBack(c, written)
        \/ \E n \in Names : CloseStages(c, n) \/ ReopenCreates(c, n) \/ CommandCreates(c, n)

-----------------------------------------------------------------------------
HistorySpec == HistoryInit /\ [][HistoryNext]_histVars

\* A session one poll of this daemon has seen is known to the next poll, or
\* offered by the daemon's history, until a reopen through the daemon takes it
\* out, newer ones push it out or the disk refuses it: a failed scan, a reopen
\* that fails half way, a session that comes back for less than a poll, or a
\* command that rewrites the file does not lose it.
SeenIsRecoverable == owed \subseteq daemon.prev \cup ToSet(Entries(daemon.log))
=============================================================================
