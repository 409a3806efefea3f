---------------------------- MODULE PanePatches ----------------------------
(* The screen of one pane as browsers see it, in patches against what they *)
(* have.  A local stream remembers what it sent; a hub that relays a pane  *)
(* of a peer asks the peer again and again, naming by a cursor the screen  *)
(* it has, and the peer keeps one screen of the pane, for all who ask.     *)
EXTENDS Integers, Sequences, FiniteSetsExt

CONSTANTS
    Viewers,        \* browsers that view the pane
    Relays,         \* which of them may view it through a hub
    OldViewers,     \* those that cannot drop lines
    Lines,          \* what a line may be
    Window,         \* lines in a capture
    MaxScreens,     \* bound on the screens of the pane
    MaxSent,        \* bound on the patches on the way to a browser
    MaxTroubles     \* bound on what breaks, fails or comes late

ASSUME PatchAssumption ==
    /\ Relays \subseteq SUBSET Viewers /\ OldViewers \subseteq Viewers
    /\ {Window, MaxScreens, MaxSent, MaxTroubles} \subseteq Nat

VARIABLES
    relayed,        \* the browsers that view the pane through a hub
    screens,        \* the screens of the pane so far
    socket,         \* the connections of each browser, and whether the last is up
    browser,        \* the lines it shows, and which screen they came from
    wire,           \* patches on the way to it
    stream,         \* the server's end: the screen it has sent or has a cursor of
    requests,       \* requests the peer is at
    cache,          \* the screen the peer keeps
    troubles
patchVars == <<relayed, screens, socket, browser, wire, stream, requests, cache, troubles>>

Prompt == "$"
NoScreen == << >>       \* a capture has at least one line
Off == [on |-> FALSE, base |-> NoScreen, waiting |-> FALSE]
Current == screens[Len(screens)]

----------------------------------------------------------------------------
(* Patches.                                                                  *)

Common(a, b) ==
    Max({n \in 0 .. Min({Len(a), Len(b)}) : \A i \in 1 .. n : a[i] = b[i]})
Kept(lines, drop) == SubSeq(lines, drop + 1, Len(lines))

\* The cheapest patch: the fewest lines to drop among those that keep the most.
LinePatch(prev, next, allowShift) ==
    LET drops == IF allowShift THEN {0} \cup 1 .. Len(prev) - 1 ELSE {0}
        from == Max({Common(Kept(prev, k), next) : k \in drops})
    IN [drop |-> Min({k \in drops : Common(Kept(prev, k), next) = from}),
        from |-> from, lines |-> Kept(next, from)]
Patched(lines, patch) ==
    SubSeq(lines, patch.drop + 1, Min({patch.drop + patch.from, Len(lines)})) \o patch.lines

Send(v, patch, screen) ==
    wire' = [wire EXCEPT ![v] = Append(@,
        [socket |-> socket[v].count, patch |-> patch, screen |-> screen])]
MaySend(v) == Len(wire[v]) < MaxSent
PatchTrouble == troubles < MaxTroubles /\ troubles' = troubles + 1

----------------------------------------------------------------------------
(* The pane: a line is added, or all is cleared.                             *)
Scroll ==
    /\ Len(screens) < MaxScreens
    /\ LET kept == IF Len(Current) < Window THEN Current ELSE Tail(Current)
       IN \E screen \in {Append(kept, line) : line \in Lines} \cup {<<Prompt>>} :
            screens' = Append(screens, screen)
    /\ UNCHANGED <<relayed, socket, browser, wire, stream, requests, cache, troubles>>

----------------------------------------------------------------------------
(* The browser.                                                              *)

\* Whatever the last connection had under way goes on without it.
Abandon(v) == {IF r.viewer = v THEN [r EXCEPT !.late = TRUE] ELSE r : r \in requests}
\* A new connection; what the browser shows stays until its first patch.
Open(v) ==
    /\ ~socket[v].up
    /\ socket' = [socket EXCEPT ![v] = [up |-> TRUE, count |-> @.count + 1]]
    /\ stream' = [stream EXCEPT ![v] = [Off EXCEPT !.on = TRUE]]
    /\ UNCHANGED <<relayed, screens, browser, wire, requests, cache, troubles>>
Close(v) ==
    /\ socket[v].up /\ PatchTrouble
    /\ socket' = [socket EXCEPT ![v].up = FALSE]
    /\ stream' = [stream EXCEPT ![v] = Off]
    /\ requests' = Abandon(v)
    /\ UNCHANGED <<relayed, screens, browser, wire, cache>>
\* A server whose ping, write or capture failed ends the stream.
StreamEnds(v) ==
    /\ stream[v].on /\ PatchTrouble
    /\ stream' = [stream EXCEPT ![v] = Off]
    /\ requests' = Abandon(v)
    /\ \E n \in 0 .. Len(wire[v]) : wire' = [wire EXCEPT ![v] = SubSeq(@, 1, n)]
    /\ UNCHANGED <<relayed, screens, socket, browser, cache>>
\* What a replaced socket still dispatches is ignored.
OnMessage(v) ==
    LET m == Head(wire[v])
    IN /\ wire[v] # << >>
       /\ wire' = [wire EXCEPT ![v] = Tail(@)]
       /\ browser' = IF socket[v].up /\ m.socket = socket[v].count
                     THEN [browser EXCEPT ![v] =
                             [lines |-> Patched(@.lines, m.patch), screen |-> m.screen]]
                     ELSE browser
       /\ UNCHANGED <<relayed, screens, socket, stream, requests, cache, troubles>>

----------------------------------------------------------------------------
(* A stream of a local pane: nothing is sent of a screen that is the same.   *)
Push(v) ==
    /\ v \notin relayed /\ stream[v].on /\ MaySend(v)
    /\ Current # stream[v].base
    /\ Send(v, LinePatch(stream[v].base, Current, v \notin OldViewers), Len(screens))
    /\ stream' = [stream EXCEPT ![v].base = Current]
    /\ UNCHANGED <<relayed, screens, socket, browser, requests, cache, troubles>>

----------------------------------------------------------------------------
(* A hub and the peer.  A request captures, and then looks at the cache.     *)

Poll(v) ==
    /\ v \in relayed /\ stream[v].on /\ ~stream[v].waiting
    /\ requests' = requests \cup
            {[viewer |-> v, cursor |-> stream[v].base, seen |-> 0, late |-> FALSE]}
    /\ stream' = [stream EXCEPT ![v].waiting = TRUE]
    /\ UNCHANGED <<relayed, screens, socket, browser, wire, cache, troubles>>
PeerCaptures(r) ==
    /\ r.seen = 0
    /\ requests' = (requests \ {r}) \cup {[r EXCEPT !.seen = Len(screens)]}
    /\ UNCHANGED <<relayed, screens, socket, browser, wire, stream, cache, troubles>>

Unchanged == [drop |-> -1, from |-> 0, lines |-> << >>]
\* The mutant: a patch against what is kept, whoever has it.
DiffOfKept(cursor, next, allowShift) ==
    IF cursor = NoScreen THEN LinePatch(NoScreen, next, FALSE)
    ELSE IF next = cache THEN Unchanged ELSE LinePatch(cache, next, allowShift)
Diff(cursor, next, allowShift) ==
    IF cursor = NoScreen \/ cursor # cache THEN LinePatch(NoScreen, next, FALSE)
    ELSE IF next = cache THEN Unchanged ELSE LinePatch(cache, next, allowShift)

\* The cursor moves when the answer has arrived, which it may not.
PeerAnswers(r) ==
    LET next == screens[r.seen]
        patch == Diff(r.cursor, next, r.viewer \notin OldViewers)
        arrives == ~r.late /\ patch # Unchanged
    IN /\ r.seen # 0 /\ (arrives => MaySend(r.viewer))
       /\ requests' = requests \ {r} /\ cache' = next
       /\ IF arrives THEN Send(r.viewer, patch, r.seen) ELSE UNCHANGED wire
       /\ stream' = IF r.late THEN stream
                    ELSE [stream EXCEPT ![r.viewer].waiting = FALSE,
                                        ![r.viewer].base = IF arrives THEN next ELSE @]
       /\ UNCHANGED <<relayed, screens, socket, browser, troubles>>
\* The capture failed, or the answer was lost on its way: the hub tries again.
PollFails(r) ==
    /\ ~r.late /\ PatchTrouble
    /\ stream' = [stream EXCEPT ![r.viewer].waiting = FALSE]
    /\ requests' = requests \ {r}
    /\ cache' \in {cache} \cup (IF r.seen = 0 THEN {} ELSE {screens[r.seen]})
    /\ UNCHANGED <<relayed, screens, socket, browser, wire>>
\* The hub waits no longer than a request may take; the peer goes on with it.
PollTimesOut(r) ==
    /\ ~r.late /\ PatchTrouble
    /\ stream' = [stream EXCEPT ![r.viewer].waiting = FALSE]
    /\ requests' = (requests \ {r}) \cup {[r EXCEPT !.late = TRUE]}
    /\ UNCHANGED <<relayed, screens, socket, browser, wire, cache>>
PeerRestarts ==
    /\ PatchTrouble
    /\ cache # NoScreen /\ cache' = NoScreen
    /\ requests' = {}
    /\ stream' = [v \in Viewers |-> [stream[v] EXCEPT !.waiting = FALSE]]
    /\ UNCHANGED <<relayed, screens, socket, browser, wire>>

----------------------------------------------------------------------------
PatchesInit ==
    /\ relayed \in Relays
    /\ screens = << <<Prompt>> >>
    /\ socket = [v \in Viewers |-> [up |-> FALSE, count |-> 0]]
    /\ browser = [v \in Viewers |-> [lines |-> NoScreen, screen |-> 0]]
    /\ wire = [v \in Viewers |-> << >>]
    /\ stream = [v \in Viewers |-> Off]
    /\ requests = {} /\ cache = NoScreen /\ troubles = 0

PatchesNext ==
    \/ Scroll \/ PeerRestarts
    \/ \E v \in Viewers :
        Open(v) \/ Close(v) \/ StreamEnds(v) \/ OnMessage(v) \/ Push(v) \/ Poll(v)
    \/ \E r \in requests :
        PeerCaptures(r) \/ PeerAnswers(r) \/ PollFails(r) \/ PollTimesOut(r)

PatchesSpec == PatchesInit /\ [][PatchesNext]_patchVars

\* A browser that applies a patch shows a screen that the pane had, all of it, and
\* never an earlier one than before, however its patches were made, whoever else
\* asks for the pane and whatever is lost, late or restarted
\* (pane_patch.go:8-32, pane_http_diff.go:146-162, usePaneStream.ts:170-188).
ShowsTheScreen ==
    [][\A v \in Viewers : browser'[v] # browser[v] =>
        /\ browser'[v].lines = screens[browser'[v].screen]
        /\ browser'[v].screen >= browser[v].screen]_browser
=============================================================================
