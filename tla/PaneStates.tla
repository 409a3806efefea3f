----------------------------- MODULE PaneStates -----------------------------
(* The state a pane is reported in: internal/panestate reads a capture,      *)
(* internal/panestatus takes the captures of a pane, one after another while *)
(* the agent in it goes on, and makes one report of them.  The agent is the  *)
(* environment: its screen is a transcript that grows and, at the bottom,    *)
(* the input, the question or the limit that it shows now.                   *)
EXTENDS PanePrompts

CONSTANTS
    RecentLines,    \* lines searched for words of work (20 in the code)
    MaxAttachments, \* rows between a spinner and the input (20)
    OldLines,       \* lines a transcript may begin with
    Menus,          \* the questions an agent asks, each a sequence of lines
    MaxMoves        \* bound on what the agent and its user do meanwhile

ASSUME StatesAssumption ==
    RecentLines \in Nat /\ MaxAttachments \in Nat \ {0} /\ MaxMoves \in Nat

Agents == {"claude", "codex"}

----------------------------------------------------------------------------
(* One capture: Classify, and RefineANSI with the attributes of a second.   *)

IsChrome(line) == line.kind \in {"chrome", "claudefooter", "codexfooter"}
IsAttachment(line) == line.kind \in {"attachment", "codexlimit"}
SaysBusy(line) == line.kind \in {"running", "interrupt"}

\* A spinner, or the words to interrupt it, right above the last line with a
\* cursor: only chrome and what hangs under a spinner may come between.
HasActiveInterrupt(screen) ==
    LET input == Max({0} \cup {i \in DOMAIN screen : Chosen(screen[i])})
        above == {i \in 1 .. input - 1 : ~IsChrome(screen[i])}
        first == Max({0} \cup {i \in above : ~IsAttachment(screen[i])})
    IN /\ first > 0
       /\ screen[first].kind \in {"interrupt", "spinner"}
       /\ Cardinality({i \in above : i > first}) < MaxAttachments

\* The last line that is not chrome shows an input, a shell or an invitation.
AwaitsInput(screen) ==
    LET shown == {i \in DOMAIN screen : ~IsChrome(screen[i])}
    IN /\ shown # {}
       /\ \/ Chosen(screen[Max(shown)])
          \/ screen[Max(shown)].kind \in {"shell", "invitation"}

\* What the first telling line among the recent ones says.
RecentWords(screen) ==
    LET lines == Recent(screen, RecentLines)
        telling == {i \in DOMAIN lines :
                        /\ ~IsChrome(lines[i]) /\ ~Chosen(lines[i])
                        /\ SaysBusy(lines[i]) \/ lines[i].kind = "failure"}
    IN IF telling = {} THEN "unknown"
       ELSE IF SaysBusy(lines[Min(telling)]) THEN "working" ELSE "blocked"

Reading(state, prompt, limit) == [state |-> state, prompt |-> prompt, limit |-> limit]

\* A limit before a question, a question before what else is on the screen.
Classify(screen) ==
    LET prompt == Detect(screen)
    IN IF DetectUsageLimit(screen, prompt) # "none" THEN Reading("waiting_quota", NoPrompt, TRUE)
       ELSE IF HasCurrentUsageLimitMarker(screen, prompt) THEN Reading("blocked", NoPrompt, TRUE)
       ELSE IF prompt # NoPrompt THEN Reading("waiting_permission", prompt, FALSE)
       ELSE IF HasActiveInterrupt(screen) THEN Reading("working", NoPrompt, FALSE)
       ELSE IF AwaitsInput(screen) THEN Reading("waiting_input", NoPrompt, FALSE)
       ELSE Reading(RecentWords(screen), NoPrompt, FALSE)

\* The text of the last line with a cursor: none, empty, dim or typed.
StyledInput(screen) ==
    LET input == {i \in DOMAIN screen : Chosen(screen[i])}
    IN IF input = {} THEN "none"
       ELSE IF screen[Max(input)].kind = "input" THEN screen[Max(input)].label ELSE "draft"

\* The mutant: the styled capture decides whatever the plain one showed.
InputDecides(reading, raw, style) ==
    CASE style = "none" -> reading.state
      [] style \in {"empty", "dim"} -> "waiting_input"
      [] OTHER -> "draft_input"
\* Neither a question nor a limit is refined, and a pane at work is at work.
RefineANSI(reading, raw, style) ==
    IF reading.prompt # NoPrompt \/ reading.limit THEN reading.state
    ELSE IF HasActiveInterrupt(raw) THEN "working"
    ELSE InputDecides(reading, raw, style)

----------------------------------------------------------------------------
(* What runs in the pane, by the name of its command or by what it shows.   *)

CodexChrome(screen) ==
    /\ \E i \in DOMAIN screen : screen[i].cursor = "codex"
    /\ screen # <<>> /\ Last(screen).kind = "codexfooter"

\* The foreground command is the agent, a shell it runs under, or ssh.
ClassifyRuntime(command, screen) ==
    IF command \in Agents THEN command
    ELSE IF command = "shell"
    THEN IF screen = <<>> THEN "shell"
         ELSE IF Last(screen).kind = "claudefooter" THEN "claude"
         ELSE IF CodexChrome(screen) THEN "codex" ELSE "shell"
    ELSE IF CodexChrome(screen) THEN "codex"
    ELSE IF Where(screen, "claudefooter") \cup Where(screen, "banner") # {} THEN "claude"
    ELSE IF screen = <<>> THEN "unknown"
    ELSE IF Last(screen).kind = "shell" THEN "shell" ELSE "unknown"

----------------------------------------------------------------------------
VARIABLES
    agent, wrapper, \* the agent of this pane, and how it runs: direct, nested, ssh
    mode,           \* shell, idle, working, asking, limited
    printed, menu, input, attached,
    moves,
    inspection      \* where the inspection is and what it has
screenVars == <<agent, wrapper, mode, printed, menu, input, attached>>
inspectVars == <<screenVars, moves, inspection>>

Said == Line("said", 0, "said", agent)
InputLine == Line("input", 0, input, agent)
Footer == Plain(agent \o "footer")
Limit ==
    IF agent = "claude"
    THEN << Line("limit", 1, "limit", NoCursor), Plain("whatnow"),
            Option(1, "stop and wait", agent), Option(2, "upgrade", NoCursor), Plain("hint") >>
    ELSE << Line("codexlimit", 0, "exact", NoCursor), InputLine, Footer >>
Spinner == Plain(IF agent = "claude" THEN "spinner" ELSE "interrupt")
OldLimit == Head(Limit)

\* What the agent shows under its transcript.
LiveLines ==
    CASE mode = "shell" -> <<Plain("shell")>>
      [] mode = "idle" -> <<InputLine, Footer>>
      [] mode = "working" ->
            <<Spinner>> \o [k \in 1 .. attached |-> Plain("attachment")] \o <<InputLine, Footer>>
      [] mode = "asking" -> menu
      [] mode = "limited" -> Limit
Screen == printed \o LiveLines

Foreground ==
    CASE wrapper = "ssh" -> "ssh"
      [] wrapper = "nested" \/ mode = "shell" -> "shell"
      [] OTHER -> agent
IsReady == mode \in {"shell", "idle"}

----------------------------------------------------------------------------
(* The agent and its user.                                                  *)

Moves == moves < MaxMoves /\ moves' = moves + 1
Becomes(m) == mode' = m
Prints(lines) == printed' = printed \o lines

Submit ==
    /\ mode = "idle" /\ Becomes("working") /\ Prints(<<Said>>)
    /\ input' = "empty" /\ UNCHANGED <<menu, attached>>
Work ==
    /\ mode = "working"
    /\ \/ Prints(<<Plain("text")>>) /\ attached' = 0
       \/ attached < MaxAttachments - 1 /\ attached' = attached + 1 /\ UNCHANGED printed
    /\ UNCHANGED <<mode, menu, input>>
EndTurn ==
    /\ mode = "working" /\ Becomes("idle") /\ attached' = 0
    /\ UNCHANGED <<printed, menu, input>>
Ask ==
    /\ mode = "working" /\ Becomes("asking") /\ attached' = 0
    /\ menu' \in Menus
    /\ UNCHANGED <<printed, input>>
\* The question that was answered may stay in the transcript.
Answer ==
    /\ mode = "asking" /\ Becomes("working") /\ menu' = <<>>
    /\ \E left \in {<<>>, menu} : Prints(left)
    /\ UNCHANGED <<input, attached>>
HitLimit ==
    /\ mode = "working" /\ Becomes("limited") /\ attached' = 0
    /\ UNCHANGED <<printed, menu, input>>
\* The limit is lifted when the user goes on, and its message stays.
GoOn ==
    /\ mode = "limited" /\ Becomes("working") /\ Prints(<<OldLimit, Said>>)
    /\ UNCHANGED <<menu, input, attached>>
Typing ==
    /\ mode \in {"idle", "working"} /\ input' \in {"empty", "dim", "draft"} \ {input}
    /\ UNCHANGED <<mode, printed, menu, attached>>
Quit ==
    /\ mode = "idle" /\ Becomes("shell") /\ input' = "empty"
    /\ UNCHANGED <<printed, menu, attached>>
Launch ==
    /\ mode = "shell" /\ Becomes("idle") /\ Prints(<<Plain("banner")>>)
    /\ UNCHANGED <<menu, input, attached>>

----------------------------------------------------------------------------
(* One inspection.  Each capture shows the screen of its moment; the batch  *)
(* that may come first serves the first capture of either kind.             *)

NoCapture == <<>>
\* Since the first capture: the pane was once ready, without a draft, and it
\* has asked, or been limited, all the time.
Begun(step) ==
    [inspection EXCEPT !.step = step, !.ready = IsReady,
        !.clear = input # "draft", !.held = mode \in {"asking", "limited"}]
FirstRuntime(processes) ==
    IF Foreground \in Agents THEN Foreground
    ELSE IF processes # "unknown" THEN processes ELSE ClassifyRuntime(Foreground, <<>>)

\* The list of panes names the command; the processes under a shell may be
\* cached from before the agent was launched.
ListPanes ==
    /\ inspection.step = "list"
    /\ \E processes \in IF wrapper = "nested" THEN {agent, "unknown"} ELSE {"unknown"} :
        inspection' = [inspection EXCEPT
            !.step = IF inspection.batch THEN "prefetch" ELSE "capture",
            !.command = Foreground, !.processes = processes,
            !.runtime = FirstRuntime(processes)]
    /\ UNCHANGED <<screenVars, moves>>

\* A daemon that captures some runtimes only leaves the others alone, but ssh.
SkipCapture ==
    /\ inspection.step \in {"prefetch", "capture"}
    /\ inspection.raw = NoCapture /\ inspection.prefetched = NoCapture
    /\ inspection.runtime \notin Agents /\ inspection.command # "ssh"
    /\ inspection' = [inspection EXCEPT !.step = "done"]
    /\ UNCHANGED <<screenVars, moves>>

\* Both captures in one tmux call; the styled one for a pane known as an agent's.
Prefetch ==
    /\ inspection.step = "prefetch"
    /\ inspection' = [Begun("capture") EXCEPT
            !.prefetched = Screen,
            !.style = IF inspection.runtime \in Agents THEN StyledInput(Screen) ELSE "live"]
    /\ UNCHANGED <<screenVars, moves>>

\* The hash leaves out what repaints without activity.
IdleHash(screen) == SelectSeq(screen, LAMBDA line : line.kind # "codexfooter")

\* A sample: the prefetched text once, then live ones; they differ, or not.
CaptureSample ==
    LET i == inspection
        shown == IF i.prefetched # NoCapture THEN i.prefetched ELSE Screen
        begun == IF i.raw = NoCapture /\ i.prefetched = NoCapture THEN Begun("capture") ELSE i
    IN /\ i.step = "capture" /\ i.left > 0
       /\ inspection' = [begun EXCEPT
              !.raw = shown, !.prefetched = NoCapture, !.left = i.left - 1,
              !.changed = i.changed \/ (i.raw # NoCapture /\ IdleHash(shown) # IdleHash(i.raw))]
       /\ UNCHANGED <<screenVars, moves>>

\* The runtime once more, now with the text, and Classify.
ClassifyCapture ==
    LET i == inspection
        runtime == IF i.processes # "unknown" THEN i.processes ELSE ClassifyRuntime(i.command, i.raw)
    IN /\ i.step = "capture" /\ i.left = 0
       /\ inspection' = [i EXCEPT
              !.step = IF runtime \in Agents THEN "style" ELSE "report",
              !.runtime = runtime, !.reading = Classify(i.raw)]
       /\ UNCHANGED <<screenVars, moves>>

CaptureStyle ==
    LET i == inspection
        style == IF i.style = "live" THEN StyledInput(Screen) ELSE i.style
    IN /\ i.step = "style"
       /\ inspection' = [i EXCEPT !.step = "report",
              !.reading.state = RefineANSI(i.reading, i.raw, style)]
       /\ UNCHANGED <<screenVars, moves>>

\* The pane may be gone, or tmux refuse, at any capture: blocked is reported.
CaptureFails ==
    /\ inspection.step \in {"capture", "style"}
    /\ inspection' = [inspection EXCEPT !.step = "done", !.reading.state = "blocked"]
    /\ UNCHANGED <<screenVars, moves>>

\* A changing pane works, unless it asks; one that stays the same is idle.
Reported ==
    LET i == inspection
        state == i.reading.state
    IN /\ i.step = "report"
       /\ inspection' = [i EXCEPT !.step = "done",
              !.reading.state =
                  IF i.reading.prompt # NoPrompt THEN state
                  ELSE IF i.changed THEN "working"
                  ELSE IF i.samples > 1 /\ state = "unknown" THEN "idle" ELSE state]
       /\ UNCHANGED <<screenVars, moves>>

----------------------------------------------------------------------------
InspectInit ==
    /\ agent \in Agents /\ wrapper \in {"direct", "nested", "ssh"}
    /\ mode \in {"shell", "idle", "working", "asking", "limited"}
    /\ printed \in UNION {[1 .. n -> OldLines] : n \in 0 .. 2}
    /\ menu \in (IF mode = "asking" THEN Menus ELSE {<<>>})
    /\ input \in {"empty", "draft"} /\ (input = "draft" => mode \in {"idle", "working"})
    /\ attached = 0 /\ moves = 0
    /\ \E several \in BOOLEAN :
        inspection = [step |-> "list", batch |-> several, samples |-> IF several THEN 2 ELSE 1,
            left |-> IF several THEN 2 ELSE 1, command |-> "", processes |-> "unknown",
            runtime |-> "unknown", prefetched |-> NoCapture, style |-> "live",
            raw |-> NoCapture, changed |-> FALSE,
            reading |-> Reading("unknown", NoPrompt, FALSE),
            ready |-> FALSE, clear |-> FALSE, held |-> FALSE]

AgentMoves ==
    /\ inspection.step \notin {"list", "done"} /\ Moves
    /\ Submit \/ Work \/ EndTurn \/ Ask \/ Answer \/ HitLimit \/ GoOn \/ Typing \/ Quit \/ Launch
    /\ UNCHANGED <<agent, wrapper>>
    /\ inspection' = [inspection EXCEPT
            !.ready = @ \/ mode' \in {"shell", "idle"},
            !.clear = @ \/ input' # "draft",
            !.held = @ /\ mode' \in {"asking", "limited"}]

InspectNext ==
    \/ ListPanes \/ SkipCapture \/ Prefetch \/ CaptureSample \/ ClassifyCapture
    \/ CaptureStyle \/ CaptureFails \/ Reported
    \/ AgentMoves

----------------------------------------------------------------------------
\* A pane that asks or is limited while it is inspected is never reported as
\* one to type into or to leave alone (classify.go:36-57, ansi.go:55-57).
QuestionIsSeen ==
    inspection.step = "done" /\ inspection.held =>
        inspection.reading.state \in {"waiting_permission", "waiting_quota", "blocked"}

\* A pane reported as ready was at its prompt at some moment of the inspection,
\* and if it is an agent's, its input was once without a draft (classify.go:63-66,
\* ansi.go:45-48, inspect.go:455-475).
ReadyWasReady ==
    inspection.step = "done" /\ inspection.reading.state = "waiting_input" =>
        /\ inspection.ready
        /\ inspection.runtime \in Agents => inspection.clear

ReportIsTrue == QuestionIsSeen /\ ReadyWasReady
=============================================================================
