------------------------------ MODULE PaneRows ------------------------------
(* How the list of panes that tmux prints is read.  A row is its fields with *)
(* "|" between them, and the names, the command and the path of a pane may   *)
(* have a "|" themselves: each is a sequence of pieces, and the parser looks *)
(* for what must be an id or a number to tell where it ends.                 *)
EXTENDS Integers, Sequences, FiniteSetsExt, SequencesExt

CONSTANTS
    Pieces,                                         \* what stands between two "|"
    SessionNames, WindowNames, CommandNames, Paths  \* sequences of pieces

Flags == {"0", "1"}
IsInt(piece) == piece \in Flags \cup {"7"}
IsSessionID(piece) == piece = "$1"
IsPaneID(piece) == piece = "%1"
LooksLikePath(piece) == piece = "/p"

\* Nothing is without a name, and a path is absolute unless it is not known.
ASSUME RowsAssumption ==
    /\ {"0", "1", "7", "$1", "%1"} \subseteq Pieces
    /\ SessionNames \cup WindowNames \cup CommandNames \cup Paths \subseteq Seq(Pieces) \ {<< >>}
    /\ \A path \in Paths : LooksLikePath(path[1]) \/ Len(path) = 1

VARIABLES
    shown,          \* a pane
    read            \* what its row is read as
rowVars == <<shown, read>>

Unread == << >>
\* The format that tmux is asked for (paneListFormat).
PaneFields ==
    <<"session", "sessionID", "windowIndex", "window", "paneIndex", "paneID", "pid",
      "command", "path", "active", "inMode", "windowActive">>
Row(pane) ==
    pane.session \o pane.sessionID \o pane.windowIndex \o pane.window \o pane.paneIndex
    \o pane.paneID \o pane.pid \o pane.command \o pane.path \o pane.active \o pane.inMode
    \o pane.windowActive

----------------------------------------------------------------------------
(* Where a row is split again; 0 where nothing fits.                         *)

FirstFit(positions) == IF positions = {} THEN 0 ELSE Min(positions)
SuffixCount(row) ==
    LET FlagsAtEnd(n) == \A i \in Len(row) - n + 1 .. Len(row) : row[i] \in Flags
    IN IF Len(row) >= 11 /\ FlagsAtEnd(3) THEN 3
       ELSE IF Len(row) >= 10 /\ FlagsAtEnd(2) THEN 2 ELSE 0
\* The mutant: a session's name ends before the first number.
FirstNumber(body) == FirstFit({i \in 2 .. Len(body) : IsInt(body[i])})
AfterSession(body) ==
    LET withID == {i \in 2 .. Len(body) - 1 : IsSessionID(body[i]) /\ IsInt(body[i + 1])}
    IN IF withID # {} THEN Min(withID)
       ELSE FirstFit({i \in 2 .. Len(body) : IsInt(body[i])})
AfterWindow(body, from) ==
    FirstFit({i \in from .. Len(body) - 4 :
              IsInt(body[i]) /\ IsPaneID(body[i + 1]) /\ IsInt(body[i + 2])})
PathBegins(fields) ==
    LET paths == {i \in 2 .. Len(fields) : LooksLikePath(fields[i])}
    IN IF paths = {} THEN 2 ELSE Min(paths)

One(pieces) == [i \in DOMAIN pieces |-> <<pieces[i]>>]
Normalized(row) ==
    LET suffix == SuffixCount(row)
        body == SubSeq(row, 1, Len(row) - suffix)
        session == AfterSession(body)
        window == IF session # 0 /\ IsSessionID(body[session]) THEN session + 1 ELSE session
        pane == AfterWindow(body, window + 2)
        rest == SubSeq(body, pane + 3, Len(body))
        path == PathBegins(rest)
    IN IF 0 \in {suffix, session, pane} THEN One(row)
       ELSE << SubSeq(body, 1, session - 1) >>
            \o One(SubSeq(body, session, window))
            \o << SubSeq(body, window + 1, pane - 1) >>
            \o One(SubSeq(body, pane, pane + 2))
            \o << SubSeq(rest, 1, path - 1), SubSeq(rest, path, Len(rest)) >>
            \o One(SubSeq(row, Len(body) + 1, Len(row)))

\* A row that is not accepted fails the whole list.
Refused == [refused |-> TRUE]
ParsePane(row) ==
    LET fields == Normalized(row)
        Number(i) == Len(fields[i]) = 1 /\ IsInt(fields[i][1])
        offset == IF Number(2) THEN 0 ELSE 1
    IN IF Len(fields) \notin 10 .. 12 \/ ~Number(2 + offset) \/ ~Number(4 + offset)
          \/ ~Number(6 + offset)
       THEN Refused
       ELSE [f \in Range(PaneFields) |->
              LET i == CHOOSE k \in DOMAIN PaneFields : PaneFields[k] = f
                  at == IF i = 1 THEN 1 ELSE i - 1 + offset
              IN IF f = "sessionID" /\ offset = 0 THEN <<"">>
                 ELSE IF at > Len(fields) THEN <<"1">> ELSE fields[at]]

----------------------------------------------------------------------------
RowsInit ==
    /\ read = Unread
    /\ shown \in [session : SessionNames, sessionID : {<<"$1">>}, windowIndex : {<<"7">>},
                  window : WindowNames, paneIndex : {<<"0">>}, paneID : {<<"%1">>},
                  pid : {<<"7">>}, command : CommandNames, path : Paths,
                  active : {<<"1">>}, inMode : {<<"0">>, <<"1">>}, windowActive : {<<"0">>}]
ReadRow == read = Unread /\ read' = ParsePane(Row(shown)) /\ UNCHANGED shown
RowsSpec == RowsInit /\ [][ReadRow]_rowVars

\* Names that can be told from what follows them.
PlainSession ==
    \A i \in 2 .. Len(shown.session) - 1 :
        ~(IsSessionID(shown.session[i]) /\ IsInt(shown.session[i + 1]))
PlainWindow ==
    \A i \in 2 .. Len(shown.window) - 1 :
        ~(IsInt(shown.window[i]) /\ IsPaneID(shown.window[i + 1]))
PlainCommand ==
    /\ \A i \in 2 .. Len(shown.command) : ~LooksLikePath(shown.command[i])
    /\ Len(shown.command) = 1 \/ LooksLikePath(shown.path[1])

\* Every row is accepted, and read as the pane it shows: its session unless that is
\* named like a session id before a number, its ids and window unless that is named
\* like a number before a pane id, and all of it unless its command has a path or
\* its own path is not known (client.go:523-648).
RowsAreRead ==
    read # Unread =>
        /\ read # Refused
        /\ PlainSession =>
            \A f \in {"session", "sessionID", "windowIndex", "active", "inMode", "windowActive"} :
                read[f] = shown[f]
        /\ PlainSession /\ PlainWindow =>
            \A f \in {"window", "paneIndex", "paneID", "pid"} : read[f] = shown[f]
        /\ PlainSession /\ PlainWindow /\ PlainCommand => read = shown
=============================================================================
