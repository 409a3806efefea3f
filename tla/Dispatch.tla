------------------------------ MODULE Dispatch ------------------------------
(***************************************************************************)
(* `dispatch-work` (internal/dispatch): commands that bring a prompt to an *)
(* agent in one tmux pane by looking at its screen and typing, while the   *)
(* agent works, asks and pauses for a moment, and a human uses the pane.   *)
(*                                                                         *)
(* A step of a command is one look at the pane, one text typed or one key: *)
(* PasteText with enter is two, 100 ms apart.  What is typed is a token:   *)
(* the command itself stands for its prompt.  Which model is launched, the *)
(* plan files and the report are left out.                                 *)
(*                                                                         *)
(* Assumed of the screen: what was typed shows when the command looks      *)
(* next, a submitted prompt stays in the captured lines, and an agent in   *)
(* the middle of a turn does not look idle to two looks in a row.          *)
(***************************************************************************)
EXTENDS Integers, Sequences, FiniteSets

CONSTANTS
    Commands,         \* the dispatch commands
    OptionSets,       \* the options a command may be given
    ReadySettle,      \* looks at an input-ready pane before it is used
    SubmitRetries,    \* submitRetries
    MaxLost,          \* bound: texts and keys the agent's screen swallows
    MaxHuman          \* bound: things the human does

ASSUME DispatchAssumption ==
    /\ OptionSets \subseteq [clear : BOOLEAN, queue : BOOLEAN, trust : BOOLEAN,
                             restart : BOOLEAN, leased : BOOLEAN]
    /\ \A o \in OptionSets : o.queue => ~o.clear /\ ~o.restart
    /\ {ReadySettle, SubmitRetries, MaxLost, MaxHuman} \subseteq Nat
    /\ ReadySettle > 0     \* a dispatch that does not settle is not modelled
    /\ Commands \cap {"clear", "exit", "launch", "draft", "Enter", "human"} = {}

VARIABLES
    prog,             \* what runs in the pane
    view,             \* what the agent shows
    box,              \* its input line, or the shell's
    shown,            \* prompts in the transcript
    turn,             \* number of the turn in progress, 0 for none
    turns,            \* turns so far
    glimpsed,         \* the commands that saw the turn look idle
    lease,            \* a workflow run holds the workspace
    lost, human,      \* counters of the two bounds
    opt,              \* command -> its options
    cmd,              \* command -> its progress
    saw,              \* history: command -> it saw a question last
    firstTurn,        \*   the turn in progress when it first looked
    submitted,        \*   how often its prompt was submitted
    disturbed,        \*   somebody else typed since it looked first
    badKeys           \*   Enter on a question it had seen, a turn destroyed

paneState == <<prog, view, box, shown, turn, turns, glimpsed>>
worldBounds == <<lease, lost, human>>
dispatchHistory == <<saw, firstTurn, submitted, disturbed, badKeys>>
dispatchVars == <<paneState, worldBounds, opt, cmd, dispatchHistory>>

Agents == {"agent", "other"}

\* at: its place in the code; looks: retries, or ready looks in a row;
\* trusted: it answered the trust prompt; next: where a wait leads; old: what
\* ran in the pane when it looked first; result: of the whole command.
NewCommand == [at |-> "probe", looks |-> 0, trusted |-> FALSE, next |-> "none",
               old |-> "none", result |-> "none"]

DispatchInit ==
    /\ prog \in {"nosession", "shell", "agent", "other"}
    /\ turn \in (IF prog \in Agents THEN {0, 1} ELSE {0}) /\ turns = turn
    /\ view \in (CASE turn = 1 -> {"working", "asking"}
                  [] turn = 0 -> IF prog \in Agents THEN {"ready", "trust"} ELSE {"ready"})
    /\ box = <<>> /\ shown = {} /\ glimpsed = {}
    /\ lease \in BOOLEAN /\ lost = 0 /\ human = 0
    /\ opt \in [Commands -> OptionSets]
    /\ cmd = [d \in Commands |-> NewCommand]
    /\ saw = [d \in Commands |-> FALSE] /\ firstTurn = [d \in Commands |-> 0]
    /\ submitted = [d \in Commands |-> 0] /\ disturbed = [d \in Commands |-> FALSE]
    /\ badKeys = {}

(***************************************************************************)
(* The screen as detectRuntime, classifyPane and captureInput report it.   *)
(***************************************************************************)
Asking == prog \in Agents /\ view \in {"asking", "trust"}
PaneWorking == prog \in Agents /\ view = "working"
Draft == box # <<>>
InputReady == prog \in Agents /\ view = "ready" /\ ~Draft
InBox(token) == prog \in Agents /\ ~Asking /\ \E i \in DOMAIN box : box[i] = token
Visible(token) == token \in shown \/ (prog = "shell" /\ \E i \in DOMAIN box : box[i] = token)

\* What a command does next.
Goto(c, to) == [c EXCEPT !.at = to, !.looks = 0]
Again(c, to) == [c EXCEPT !.at = to, !.looks = @ + 1]
WaitAt(c, place, then) == [c EXCEPT !.at = place, !.looks = 0, !.next = then]
End(c, result) == [c EXCEPT !.at = "done", !.looks = 0, !.result = result]
Fail(c) == End(c, "failed")

At(d, places) == cmd[d].at \in places
Moves(d, c) == cmd' = [cmd EXCEPT ![d] = c]

\* One look.  A turn never looks idle to two looks of a command in a row.
Flickers == turn # 0 /\ InputReady
Look(d) ==
    /\ ~(Flickers /\ d \in glimpsed)
    /\ glimpsed' = (IF Flickers THEN glimpsed \cup {d} ELSE glimpsed \ {d})
    /\ saw' = [saw EXCEPT ![d] = Asking /\ view = "asking"]
    /\ UNCHANGED <<prog, view, box, shown, turn, turns, worldBounds,
                   opt, submitted, disturbed, badKeys>>

(***************************************************************************)
(* What typing and Enter do to the pane.                                   *)
(***************************************************************************)
OthersDisturbed(d) ==
    disturbed' = [e \in Commands |->
        disturbed[e] \/ (e # d /\ ~At(e, {"probe", "probing", "look", "done"}))]

\* A dialog takes no text; a screen that is being painted may lose it.
Types(token) ==
    /\ \/ ~Asking /\ box' = Append(box, token) /\ UNCHANGED lost
       \/ Asking /\ UNCHANGED <<box, lost>>
       \/ /\ prog \in Agents /\ view \in {"booting", "ready"} /\ lost < MaxLost
          /\ lost' = lost + 1 /\ UNCHANGED box
    /\ UNCHANGED <<prog, view, shown, turn, turns, glimpsed, lease, human,
                   submitted, badKeys>>

\* A submitted line: /clear empties the transcript, /exit ends the agent, and
\* anything else begins a turn or joins the one in progress.
Prompts == {box[i] : i \in DOMAIN box} \cap Commands
Destroys(d) == d \in Commands /\ turn # 0 /\ turn = firstTurn[d] /\ ~disturbed[d]
Submits(d) ==
    /\ box' = <<>>
    /\ submitted' = [e \in Commands |-> submitted[e] +
                       Cardinality({i \in DOMAIN box : box[i] = e})]
    /\ badKeys' = IF box \in {<<"clear">>, <<"exit">>} /\ Destroys(d)
                  THEN badKeys \cup {"turn"} ELSE badKeys
    /\ \/ /\ box = <<"exit">>
          /\ prog' = "shell" /\ turn' = 0 /\ UNCHANGED <<view, shown, turns>>
       \/ /\ box = <<"clear">>
          /\ shown' = {} /\ UNCHANGED <<prog, view, turn, turns>>
       \/ /\ box \notin {<<"exit">>, <<"clear">>}
          /\ shown' = shown \cup Prompts /\ view' = "working"
          /\ turn' = (IF turn = 0 THEN turns + 1 ELSE turn)
          /\ turns' = (IF turn = 0 THEN turns + 1 ELSE turns)
          /\ UNCHANGED prog

ShellRuns ==
    /\ box' = <<>> /\ shown' = shown \cup Prompts
    /\ prog' = (IF box = <<"launch">> THEN "agent" ELSE prog)
    /\ view' = (IF box = <<"launch">> THEN "booting" ELSE view)
    /\ UNCHANGED <<turn, turns, submitted, badKeys>>

\* Enter confirms a dialog, submits what is in the input line or does nothing.
Enter(d) ==
    /\ \/ /\ Asking /\ view' = (IF view = "trust" THEN "booting" ELSE "working")
          /\ badKeys' = IF view = "asking" /\ saw[d]
                        THEN badKeys \cup {"question"} ELSE badKeys
          /\ UNCHANGED <<prog, box, shown, turn, turns, submitted, lost>>
       \/ /\ prog \in Agents /\ view \in {"ready", "working"} /\ Draft
          /\ Submits(d) /\ UNCHANGED lost
       \/ prog = "shell" /\ ShellRuns /\ UNCHANGED lost
       \/ /\ prog \in Agents /\ view = "ready" /\ lost < MaxLost /\ Draft
          /\ lost' = lost + 1
          /\ UNCHANGED <<prog, view, box, shown, turn, turns, submitted, badKeys>>
       \/ /\ prog \in Agents /\ ~Asking /\ (view = "booting" \/ ~Draft)
          /\ UNCHANGED <<prog, view, box, shown, turn, turns, submitted, badKeys, lost>>
    /\ UNCHANGED <<glimpsed, lease, human>>

\* A text typed or a key pressed by command d; an error if the pane is gone.
Acts(d, input, to) ==
    /\ IF prog = "nosession"
       THEN /\ Moves(d, Fail(cmd[d]))
            /\ UNCHANGED <<paneState, worldBounds, submitted, disturbed, badKeys>>
       ELSE /\ IF input = "Enter" THEN Enter(d) ELSE Types(input)
            /\ OthersDisturbed(d) /\ Moves(d, [cmd[d] EXCEPT !.at = to])
    /\ UNCHANGED <<opt, saw, firstTurn>>

(***************************************************************************)
(* The workspace lease (run.go:116).  The check takes the lease itself for *)
(* a moment, so two checks refuse each other, and a run that wants it then.*)
(***************************************************************************)
Probing == {d \in Commands : At(d, {"probing"})}
Probe(d) ==
    /\ At(d, {"probe"})
    /\ Moves(d, CASE Probing # {} -> Fail(cmd[d])
                  [] lease /\ Probing = {} ->
                       IF opt[d].leased THEN Goto(cmd[d], "look") ELSE Fail(cmd[d])
                  [] OTHER -> Goto(cmd[d], "probing"))
    /\ UNCHANGED <<paneState, worldBounds, opt, dispatchHistory>>
ProbeEnds(d) ==
    /\ At(d, {"probing"}) /\ Moves(d, Goto(cmd[d], "look"))
    /\ UNCHANGED <<paneState, worldBounds, opt, dispatchHistory>>

(***************************************************************************)
(* The first look (run.go:163, dispatchExisting).                          *)
(***************************************************************************)
Reuse(d) == IF opt[d].clear THEN "clear" ELSE "paste"
Restarts(d) == opt[d].restart /\ prog \in Agents
TrustAsked(d) == Asking /\ view = "trust" /\ opt[d].trust

\* settleExistingAgent before a destructive /clear or /exit.
SettleThenAtOnce(c, then) == Goto(c, then)
SettleThen(c, then) == WaitAt(c, "settle", then)

Restart(c) == IF InputReady THEN SettleThen(c, "exitlook") ELSE Fail(c)

Existing(d, c) ==
    CASE prog = "nosession" -> Goto(c, "create")
      [] Restarts(d) -> IF TrustAsked(d) /\ prog = "agent"
                        THEN WaitAt(c, "accept", "relook") ELSE Restart(c)
      [] ~Restarts(d) /\ prog = "agent" ->
           CASE PaneWorking /\ ~opt[d].queue -> Fail(c)
             [] TrustAsked(d) -> WaitAt(c, "accept", Reuse(d))
             [] opt[d].queue /\ (PaneWorking \/ InputReady) -> Goto(c, "qlook")
             [] InputReady /\ ~opt[d].queue -> SettleThen(c, Reuse(d))
             [] OTHER -> Fail(c)
      [] prog = "shell" -> Goto(c, "launch")
      [] OTHER -> Fail(c)

FirstLook(d) ==
    /\ At(d, {"look"}) /\ Look(d)
    /\ firstTurn' = [firstTurn EXCEPT ![d] = turn]
    /\ Moves(d, [Existing(d, cmd[d]) EXCEPT !.old = prog])

\* The second look of a restart that answered the trust prompt.
Relook(d) ==
    /\ At(d, {"relook"}) /\ Look(d) /\ UNCHANGED firstTurn
    /\ Moves(d, Restart(cmd[d]))

\* dispatchNew: the session runs the default shell.
CreateSession(d) ==
    /\ At(d, {"create"})
    /\ IF prog = "nosession" THEN prog' = "shell" /\ Moves(d, Goto(cmd[d], "launch"))
                             ELSE UNCHANGED prog /\ Moves(d, Fail(cmd[d]))
    /\ UNCHANGED <<view, box, shown, turn, turns, glimpsed, worldBounds, opt,
                   dispatchHistory>>

(***************************************************************************)
(* Waiting: for a settled idle agent, a launched one, a shell.             *)
(***************************************************************************)
Settled(c) == IF c.looks + 1 >= ReadySettle THEN Goto(c, c.next) ELSE Again(c, c.at)
Settle(d) ==
    /\ At(d, {"settle"}) /\ Look(d) /\ UNCHANGED firstTurn
    /\ Moves(d, IF prog = cmd[d].old /\ InputReady THEN Settled(cmd[d])
                                                   ELSE Fail(cmd[d]))

\* AcceptPrompt answers a prompt it has checked; the keys follow.
AcceptTrust(d) ==
    /\ At(d, {"accept"}) /\ Acts(d, "Enter", "trusting")
AcceptedTrust(d) ==
    /\ At(d, {"trusting"})
    /\ Moves(d, [Goto(cmd[d], "ready") EXCEPT !.trusted = TRUE])
    /\ UNCHANGED <<paneState, worldBounds, opt, dispatchHistory>>

ReadyLook(d, c) ==
    CASE prog = "nosession" -> Fail(c)
      [] Asking -> IF ~TrustAsked(d) THEN Fail(c)
                   ELSE IF c.trusted THEN c
                   ELSE IF prog = "agent" THEN WaitAt(c, "accept", c.next) ELSE Fail(c)
      [] prog = "agent" /\ InputReady ->
           IF c.looks >= ReadySettle THEN Goto(c, c.next) ELSE Again(c, "ready")
      [] OTHER -> Goto(c, "ready")
WaitReady(d) ==
    /\ At(d, {"ready"}) /\ Look(d) /\ UNCHANGED firstTurn
    /\ Moves(d, ReadyLook(d, cmd[d]))

\* A deadline passes: ready timeout, /exit input, shell.
WaitTimesOut(d) ==
    /\ At(d, {"ready", "exitinput", "shell"}) /\ Moves(d, Fail(cmd[d]))
    /\ UNCHANGED <<paneState, worldBounds, opt, dispatchHistory>>

(***************************************************************************)
(* dispatchReuse, dispatchLaunch and submitPrompt.                         *)
(***************************************************************************)
TypeClear(d)   == At(d, {"clear"})       /\ Acts(d, "clear", "clearenter")
EnterClear(d)  == At(d, {"clearenter"})  /\ Acts(d, "Enter", "paste")
TypeLaunch(d)  == At(d, {"launch"})      /\ Acts(d, "launch", "launchenter")
EnterLaunch(d) == At(d, {"launchenter"}) /\ Acts(d, "Enter", "launched")
Launched(d) ==
    /\ At(d, {"launched"}) /\ Moves(d, WaitAt(cmd[d], "ready", "paste"))
    /\ UNCHANGED <<paneState, worldBounds, opt, dispatchHistory>>
PastePrompt(d) == At(d, {"paste"})       /\ Acts(d, d, "enter")
EnterPrompt(d) == At(d, {"enter"})       /\ Acts(d, "Enter", "confirm")

SubmittedAnywhere(d) == Asking \/ PaneWorking \/ InBox(d) \/ Visible(d)
Submitted(d) == Asking \/ PaneWorking \/ (~InBox(d) /\ Visible(d))
ForeignDraft(d) ==
    prog \in Agents /\ ~Asking /\ ~PaneWorking /\ Draft /\ ~InBox(d)
Confirm(d, c) ==
    IF prog = "nosession" \/ ForeignDraft(d) THEN Fail(c)
    ELSE IF Submitted(d) THEN End(c, "ok")
    ELSE IF c.looks >= SubmitRetries THEN Fail(c)
    ELSE Again(c, IF InBox(d) THEN "enter" ELSE "paste")
ConfirmPrompt(d) ==
    /\ At(d, {"confirm"}) /\ Look(d) /\ UNCHANGED firstTurn
    /\ Moves(d, Confirm(d, cmd[d]))

(***************************************************************************)
(* submitQueued: the paste and its Enter are two calls with a look between.*)
(* The option a dialog has selected stands where the input line stood.     *)
(***************************************************************************)
DraftSeen == Draft \/ Asking

QueueLook(d) ==
    /\ At(d, {"qlook"}) /\ Look(d) /\ UNCHANGED firstTurn
    /\ Moves(d, IF DraftSeen \/ prog = "nosession" THEN Fail(cmd[d])
                                                   ELSE Goto(cmd[d], "qpaste"))
PasteQueued(d) == At(d, {"qpaste"}) /\ Acts(d, d, "qpasted")
Pasted(c) ==
    CASE Asking \/ prog = "nosession" -> Fail(c)
      [] prog # "nosession" /\ ~Asking /\ Draft -> Goto(c, "qenter")
      [] OTHER -> IF c.looks >= SubmitRetries THEN Fail(c) ELSE Again(c, "qpaste")
ConfirmPasted(d) ==
    /\ At(d, {"qpasted"}) /\ Look(d) /\ UNCHANGED firstTurn
    /\ Moves(d, Pasted(cmd[d]))
EnterQueued(d) == At(d, {"qenter"}) /\ Acts(d, "Enter", "queued")
Queued(c) ==
    CASE prog = "nosession" -> Fail(c)
      [] ~DraftSeen /\ prog # "nosession" -> End(c, "ok")
      [] OTHER -> IF Asking \/ c.looks >= SubmitRetries THEN Fail(c)
                                                        ELSE Again(c, "qenter")
ConfirmQueued(d) ==
    /\ At(d, {"queued"}) /\ Look(d) /\ UNCHANGED firstTurn
    /\ Moves(d, Queued(cmd[d]))

(***************************************************************************)
(* dispatchRestart after the agent has settled.                            *)
(***************************************************************************)
ExitLook(d) ==
    /\ At(d, {"exitlook"}) /\ Look(d) /\ UNCHANGED firstTurn
    /\ Moves(d, IF prog = cmd[d].old /\ InputReady THEN Goto(cmd[d], "exit")
                                                   ELSE Fail(cmd[d]))
TypeExit(d) == At(d, {"exit"}) /\ Acts(d, "exit", "exitinput")
ExitInput(d) ==
    /\ At(d, {"exitinput"}) /\ Look(d) /\ UNCHANGED firstTurn
    /\ Moves(d, IF Asking \/ prog = "nosession" THEN Fail(cmd[d])
                ELSE IF InBox("exit") THEN Goto(cmd[d], "exitenter") ELSE cmd[d])
EnterExit(d) == At(d, {"exitenter"}) /\ Acts(d, "Enter", "shell")
ShellLook(d) ==
    /\ At(d, {"shell"}) /\ Look(d) /\ UNCHANGED firstTurn
    /\ Moves(d, IF prog = "shell" THEN Goto(cmd[d], "launch")
                ELSE IF prog # cmd[d].old \/ Asking THEN Fail(cmd[d]) ELSE cmd[d])

CommandStep(d) ==
    \/ Probe(d) \/ ProbeEnds(d) \/ FirstLook(d) \/ Relook(d) \/ CreateSession(d)
    \/ Settle(d) \/ AcceptTrust(d) \/ AcceptedTrust(d) \/ WaitReady(d) \/ WaitTimesOut(d)
    \/ TypeClear(d) \/ EnterClear(d) \/ TypeLaunch(d) \/ EnterLaunch(d) \/ Launched(d)
    \/ PastePrompt(d) \/ EnterPrompt(d) \/ ConfirmPrompt(d)
    \/ QueueLook(d) \/ PasteQueued(d) \/ ConfirmPasted(d) \/ EnterQueued(d)
    \/ ConfirmQueued(d) \/ ExitLook(d) \/ TypeExit(d) \/ ExitInput(d) \/ EnterExit(d)
    \/ ShellLook(d)

(***************************************************************************)
(* The agent, the human and the workflow run.                              *)
(***************************************************************************)
OthersIdle == UNCHANGED <<opt, cmd, saw, firstTurn>>

AgentShows(from, to) ==
    /\ prog \in Agents /\ view = from /\ view' = to
    /\ OthersIdle
    /\ UNCHANGED <<prog, box, shown, turn, turns, glimpsed, worldBounds, submitted,
                   disturbed, badKeys>>
AgentBoots == AgentShows("booting", "ready")
AgentAsksTrust == ~(\E d \in Commands : cmd[d].trusted) /\ AgentShows("booting", "trust")
TurnPauses == turn # 0 /\ AgentShows("working", "ready")
TurnGoesOn == turn # 0 /\ AgentShows("ready", "working")
TurnAsks == turn # 0 /\ AgentShows("working", "asking")
TurnEnds ==
    /\ turn # 0 /\ prog \in Agents /\ view \in {"working", "ready"}
    /\ turn' = 0 /\ view' = "ready" /\ OthersIdle
    /\ UNCHANGED <<prog, box, shown, turns, glimpsed, worldBounds, submitted, disturbed, badKeys>>

HumanActs == human < MaxHuman /\ human' = human + 1 /\ OthersIdle
HumanTypes ==
    /\ HumanActs /\ prog \in Agents /\ ~Asking /\ box' = Append(box, "draft")
    /\ OthersDisturbed("human")
    /\ UNCHANGED <<prog, view, shown, turn, turns, glimpsed, lease, lost, submitted, badKeys>>
HumanEnters ==
    /\ human > 0 /\ human < 2 * MaxHuman /\ human' = human + 1 /\ OthersIdle
    /\ prog \in Agents /\ box # <<>> /\ ~Asking /\ view # "booting"
    /\ Submits("human") /\ OthersDisturbed("human")
    /\ UNCHANGED <<glimpsed, lease, lost>>
HumanAnswers ==
    /\ Asking /\ view' = (IF view = "trust" THEN "booting" ELSE "working") /\ OthersIdle
    /\ UNCHANGED <<prog, box, shown, turn, turns, glimpsed, worldBounds,
                   submitted, disturbed, badKeys>>
HumanLeaves(to) ==
    /\ HumanActs /\ prog # "nosession" /\ prog # to
    /\ prog' = to /\ view' = "ready" /\ box' = <<>> /\ turn' = 0 /\ glimpsed' = {}
    /\ shown' = (IF to = "shell" THEN shown ELSE {})
    /\ OthersDisturbed("human")
    /\ UNCHANGED <<turns, lease, lost, submitted, badKeys>>

\* A run takes the lease unless a check holds it.
LeaseTaken ==
    /\ ~lease /\ Probing = {} /\ (\E d \in Commands : At(d, {"probe"}))
    /\ human < MaxHuman /\ human' = human + 1 /\ lease' = TRUE
    /\ UNCHANGED <<paneState, lost, opt, cmd, dispatchHistory>>
LeaseReleased ==
    /\ lease /\ lease' = FALSE /\ \E d \in Commands : At(d, {"probe"})
    /\ UNCHANGED <<paneState, lost, human, opt, cmd, dispatchHistory>>

DispatchNext ==
    \/ \E d \in Commands : CommandStep(d)
    \/ AgentBoots \/ AgentAsksTrust \/ TurnPauses \/ TurnGoesOn \/ TurnAsks \/ TurnEnds
    \/ HumanTypes \/ HumanEnters \/ HumanAnswers
    \/ HumanLeaves("shell") \/ HumanLeaves("nosession")
    \/ LeaseTaken \/ LeaseReleased

DispatchSpec == DispatchInit /\ [][DispatchNext]_dispatchVars

(***************************************************************************)
(* Properties.                                                             *)
(***************************************************************************)
\* No dispatch presses Enter on a question it saw when it last looked
\* (submit.go:133-134, queue.go:88), and no /clear or /exit of a dispatch ends
\* the turn that was in progress when it looked first, although that turn may
\* have looked idle then (settleExistingAgent).
NoQuestionAnswered == "question" \notin badKeys
NoTurnDestroyed == "turn" \notin badKeys
NothingInterrupted == NoQuestionAnswered /\ NoTurnDestroyed

\* A dispatch that nobody disturbs submits its prompt at most once, whatever
\* keys and pastes the agent's screen swallows (submit.go:17-25) ...
SubmittedAtMostOnce == \A d \in Commands : ~disturbed[d] => submitted[d] <= 1

\* ... and exactly once if it reports success.
OkMeansSubmitted ==
    \A d \in Commands : cmd[d].result = "ok" /\ ~disturbed[d] => submitted[d] = 1

SubmittedAsReported == SubmittedAtMostOnce /\ OkMeansSubmitted

=============================================================================
