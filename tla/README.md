# tmact: a TLA+ verification development

`tmact` drives coding agents in tmux panes: it dispatches prompts, waits for
panes, loops prompts on a schedule, runs workflows of agents, relays questions
between agents, and serves the state of all panes over HTTP and to MCP clients.
Most of its difficulty is that many short-lived processes share a few files and
a pane, and that any of them may be killed, paused or overtaken.

This directory holds models of that coordination, TLC configurations that check
them, and proofs of some of what they check.

| Files | What they model or prove |
| --- | --- |
| `AskMailbox`, `AskReply` | one question directory and the commands of asker and answerer on it |
| `AgentDevState`, `AgentDev` | the durable state of an `agent_dev` stage; its runner, agents and operator |
| `QuotaWait` | a turn of that stage whose agent meets its usage limit |
| `WorkflowConfig`, `WorkflowStages` | configurations that are accepted; a run of command, gate, agent and human stages |
| `LoopRunner`, `LoopStart`, `LoopCalendar` | a managed loop, the commands that start loops, the calendar |
| `Dispatch` | `dispatch-work`, with the workspace lease and the trust prompt |
| `PaneWait` | `tmact wait` |
| `CredentialRequests`, `OneOutcome` | the registry of credential requests and the abstract promise it implements |
| `SessionHistory`, `SessionSnapshots` | the history of closed sessions; saved sessions and their restore |
| `SnapshotStream`, `HumanActivity` | published snapshots and who reads them; the idle time daemons exchange |
| `ShellHooks`, `PaneActivity`, `PaneRuntime` | what hooks report, when a pane changed, what runs in it |
| `PanePrompts`, `PaneStates` | the detectors of prompts; the inspection of a pane |
| `PanePatches`, `PaneInput`, `PaneRows` | a pane in browsers, what is typed there, the rows tmux lists |
| `PushSubscriptions`, `WatchRules` | browsers that notifications are pushed to; the watcher that accepts directories |
| `MC*`, `*.cfg` | instances for TLC, some of which put several components in one run |
| `*Proofs`, `MinMaxLemmas` | theorems, inductive invariants and lemmas |
| `PROJECT.json` | components, runs, mutants, map to the source, findings, hazards, theorems |

Here, `tlc -config AskReplySafe.cfg MCAskReply` (a `.cfg` with its MC module)
checks a run and `tlapm AskReplyProofs.tla` checks proofs.

## Inventory

Each entry names the state a component keeps, its operations, whom it interacts
with, what makes it hard, and what makes it correct.

**Ask/reply mailbox** (`internal/askreply`, `cmd/tmact/ask_reply_cmd.go`,
`mcp_ask.go`). State: a directory per question with `request.json`, numbered
message files, `closed.json`, a waiter marker, acknowledgements, a read cursor.
Operations: create, post, await an answer, await a prompt, close, cancel, extend,
mark read. The asker and the answerer are separate processes without a lock; a
prompt may travel through the pane (dispatch) or the mailbox. Hard: everything
races with the end of a wait; kills. Correct when an accepted reply is never
reported as a timeout, nothing is delivered twice or out of order, and nobody is
stranded. *Modelled.*

**Workflow engine, agent_dev stage** (`internal/workflow/agent_dev.go`,
`store.go`, `git_contract.go`, `cmd/tmact/workflow_cmd.go`). State: `state.json`
under a lock with a sequence number, append-only `dispatches.jsonl` and
`reports.jsonl`, a runner lock, a workspace lease, the Git workspace. Operations:
recovery, ticks, sends, plan and work reports, pause, resume, stop, acknowledge,
retry, waits for a usage limit. Hard: the runner, the agents' report commands and
the operator act at any moment; the runner may die at any line. Correct when one
turn is outstanding at a time, a stopped run types nothing, completed work was
committed and reviewed, and the phase queue survives. *Modelled in part*: the
cleanup of launched sessions is left out.

**Workflow engine, generic stages** (`engine.go`, `config.go`, `condition.go`,
`revision.go`). A stage graph with commands, agents, gates, human answers,
conditions, retries and input revisions, in the same store. Hard: results are
written over stages that changed meanwhile; inputs drift while a stage runs.
Correct when no agent works on two turns, one prompt is typed per dispatch, a
stage is not invalidated by its own writes, and a run comes to an end. *Modelled
in part*: a foreground `workflow run`, work items, notifications, evidence files and
prompt text are left out.

**Loop runner and runtime metadata** (`internal/loop`, `internal/runmeta`,
`loop_lifecycle_cmd.go`). State: run metadata written by the runner, a control
file written by pause, resume and stop, start locks; schedules, counters, the
calendar. Hard: unlocked files; decisions on an old screen; two lock directories;
clock changes. Correct when a paused or stopped loop types nothing more, budgets
are kept, missed intervals are not caught up, and no second run of a config is
started. *Modelled in part*: YAML validation and logs are left out.

**Dispatch** (`internal/dispatch`) and **workspace lease**
(`internal/workspacelease`). Create or reuse a session, launch or restart an
agent, clear, paste, submit, queue. Hard: the pane changes between a look and a
key; pastes and keys are swallowed. Correct when a prompt is submitted once and no
turn is destroyed or question answered by accident. *Modelled*, without the choice
of a model and the relay to a peer.

**Pane wait** (`internal/panewait`). Settling, confirmation of blockers, deadline.
Correct when what is reported was observed for the whole window. *Modelled.*

**Credential requests** (`internal/credreq`, `credstore`, the handlers and the
command). In-memory registry with expiry, waiters, pruning, restarts. Correct when
a request has one outcome that every waiter sees. *Modelled*, but for the keyring.

**Session history** (`statusd/closed_sessions.go`, `internal/session`). The
closed-session file, loaded once by the daemon and by each command. Hard: lost
updates; close and reopen that fail half way. Correct when a session that the
daemon saw can be recovered after it ends. *Modelled.*

**Session snapshots** (`statusd/session_persistence.go`). Snapshot files, a
pointer, pruning, restore with rollback. Correct when a valid snapshot is found
after a crash and a restore is all or nothing. *Modelled.*

**Status snapshots and web streams** (`statusd/store.go`, `snapshot.go`,
`peers.go`, `activity.go`, `internal/web`). Publish/subscribe with dropped
updates; patches applied to a client's copy; inputs relayed to peers. Correct when
a client comes to the latest state, its patched text is a screen the pane had, and
an input arrives whole. *Modelled in part*: the text of snapshots is left out.

**Shell hooks, pane memory, runtimes** (`internal/shellhook`,
`shellhook_merge.go`, `panestatus`). Events of commands in processes of their own,
memory of pane activity over restarts, a cache of runtimes. Correct when what is
reported was true recently. *Modelled.*

**Prompt and pane classification** (`internal/prompt`, `panestate`,
`panestatus/inspect.go`). Detectors over a captured screen. Correct when a pane
that asks is not reported as one to type into. *Modelled in part*: a line is the
kind the detectors tell apart; the regular expressions behind the kinds are not.

**Push subscriptions** (`internal/web/push.go`) and **watch rules**
(`internal/watch`). *Modelled.*

**tmux client** (`internal/tmux`). The rows of `list-panes`, the window commands
run in, capture and restore of sessions. *Modelled in part*; the rest starts a
tmux process and reads its output.

**Not modelled.** MCP plumbing beyond the ask tools, the remaining web handlers,
model routing, folder trust beyond its prompt, log and usage reports, the browser
user interface beyond the pane stream: configuration, text, or input and output
without state of its own. `PROJECT.json` lists every component with its status.

## Plan

1. `AskMailbox`, `AskReply`. *Done; safety proved.*
2. `AgentDevState`, `AgentDev`, `QuotaWait`. *Done; safety proved.*
3. `WorkflowConfig`, `WorkflowStages`. *Done; safety proved.*
4. `LoopRunner`, `LoopStart`, `LoopCalendar`, `Dispatch`. *Done; safety proved.*
5. The daemon and the web server: `SessionHistory` to `PushSubscriptions`. *Done;
   safety proved.*
6. What surrounds the panes: `PaneRuntime` to `WatchRules`. *Done; `PaneRuntime`,
   `WatchRules`, `ShellHooks`, `PaneActivity`, `PanePatches` and `PaneInput` are
   proved.*

`AskReply` extends `AskMailbox`, `AgentDev` extends `AgentDevState`,
`WorkflowStages` extends `WorkflowConfig` and `PaneStates` extends `PanePrompts`:
the data and its operators below, the processes above. Components that share no
state in the code share none here. Where several are checked in one run, its MC
module has a variable `part` that says which of them a behaviour runs; the others
stay in one initial state. That is a way to start TLC once and no composition.

## Modules

What each leaves out is said in its header too. "History" variables only record
what happened, for a property to look at.

### AskMailbox, AskReply

`AskMailbox` has a variable per file: `msgs` (a message may be unfinished, between
the exclusive create and the write), `closed`, `waiter`, `acks`, `expires`,
`cursor`, and the clock `now`. `Readable` is what `readMessages` returns: the
messages before the first unfinished one. `AskReply` has the two processes. `apc`
and `rpc` say where a command is; each action is one file operation, one read of
the directory, or the dispatch, which is external and types the prompt or fails.
The order is the code's: `Post` checks, creates, writes and, for the answerer,
looks for a close once more; a wait that ends closes first and reads again
(`closeOrReadAnswer`); the waiter acknowledges before its marker disappears.

A message is its sender, kind and delivery; its text is left out. A marker's age
is a choice between fresh and stale. An interrupt or a timeout of a wait may come
at any poll. There is one asker command and one answerer command at a time, as
there are two parties; two askers on one question are not modelled. `Recheck`
reads the acknowledgements and the messages in one step. A kill may come at any
step; one that leaves a half-written message file is modelled but excluded by
`KillMidWrite = FALSE`, because every later reader stops at such a file and the
code repairs nothing. `RecheckIsTimely` states that a waiter polls at least once in
the asker's recheck delay (100 ms against 300 ms); without it a follow-up can be
typed and taken.

### AgentDevState, AgentDev

`AgentDevState` holds what `state.json` keeps of the stage as a record (`status`,
`phases` with their items and review, `cur`, `round`, `noProgress`, `keys`) and the
operators the code applies to it: `NextTask` and `Begin` (dispatchNextAgentDev),
`AttemptOf` (dispatchAttempt), `ResetActive`, `ApplyPlan`, `ApplyApprove`,
`ApplyChanges` and so on. The workspace is a sequence of commits that add or tick
checkboxes; a report is checked against the number of commits there were when its
turn was dispatched (`PlanCommitted`, `ItemCommitted`, `UnchangedSince`).

`AgentDev` has three kinds of actors.

- The runner. `Recover` is NewEngine, `TakeLock` the start of Run, `Tick...` the
  branches of Tick and tickAgentDev, `Send...` to `SendFailed` the path through
  sendAgentDevDispatch: the record "sending", `/clear`, the look for a stop, the
  prompt, the record "sent" are steps of their own, and the runner may be killed
  between any two.
- The agents. An agent that was prompted plans or works, commits or does not, and
  reports what it likes. A report is checked, appended and applied in three steps;
  its command may be killed between them.
- The operator: pause, resume, `stop --wait` (request, try for the lock, verdict),
  and acknowledge and retry, which look for a stop before they take the lock.

`Store.Update` is one step. `Store.Write` refuses a state that changed since it
was read and the tick starts over, so a tick that writes is one step as well; only
the stop branch, which ignores the refusal, is split (`raced`). `open`, `quiet`
and `rescheduled` are history: turns handed out and not settled, a stop reported
and not resumed, a retry without a prompt since.

The records "planned" are dropped because every reader treats them as absent. An
error is reduced to whether its text says "prompt", which is what resume looks at.
An agent that is reporting counts as busy, and a send to it waits. A timeout is the
same step as a pane that is gone. A turn counts as outstanding from the moment it
is handed to an agent until it is reported, its send is known to have failed, or a
retry gives it up; one that was given up while it was on its way is not counted,
for the runner does not look again before it types.

### QuotaWait

The part of the same stage that AgentDev leaves out: the pane shows a usage limit,
the runner records the wait, presses Enter in Claude's menu to choose it, waits for
the reset, extends a wait that came too early, and types the prompt of the turn
again. `devTurn` is the turn and what the dispatch journal last says of it,
`quotaWait` the wait in the state, `tick` where the runner is and whether a write
of its tick will be refused. `onceMore` is history: how often this limit had the
prompt typed again, and whether the state failed to learn it.

Two things the model shows of the code and no property claims otherwise. A runner
that is killed, or whose write is refused, between the record "sent"
(`agent_dev.go:468`) and the state without the wait (479) types the prompt again.
And a retry (`engine.go:1475`) or an accepted report keeps the wait, so the next
tick takes it for one of another turn and blocks the stage.

### WorkflowConfig, WorkflowStages

`WorkflowConfig` is a pipeline as `Validate` accepts it; an ASSUME has TLC refuse
others. `WorkflowStages` runs one: `Tick...` are the branches of the tick, in its order
of stages, `FinishTick` its end and `CleanupActors` the end of launched sessions, before
which the runner may be killed. `Command`, `CheckActor`, `PasteInto` and `Sent` are what a
stage started in parallel does. Its result is worked out in one step (`Handle`) and
written over the state of a later one (`Store`); so are reports and human answers, also
those refused because the workspace changed (`SubmitReport`, `RefuseReport`, then
`ApplyReport`, `ApplyRefusal`), and a report is lost when its command dies in between. A
stage that is to be tried again rests (`NextAttemptAt`): a tick may leave out any that has
a reason to. A revision is a number, and edits happen at any time. `log` is the dispatch
journal, `agentAt` the turn an agent works on, `stray` history: something came out of turn.
One report is under way at a time. A foreground `workflow run`, which checks less than
`workflow start`, work items, and the evidence and event files are left out; that the
stop command writes twice, and that a retry checks before it writes, is in `AgentDev`.

`ProducerKeepsItsChain` names as an excuse (`Outdated`) what the model shows of the code: a
result (`engine.go:471`), a report or an answer is stored with a reading of the workspace
taken before. If the report of a stage that produces a revision was applied in between, the
older reading takes the place of its content, the next tick finds a change that no stage
at work accounts for, and starts that stage and all it stands on over.
`TestProducerReportAcceptsOutputDriftWithoutInvalidatingDependencies`
(`engine_v2_test.go:208`) covers the report alone.

### LoopRunner, LoopStart, LoopCalendar

`LoopRunner` is one run: a step is one read of the control file, one write of the
metadata, one observation of the pane or one input. `sched` has the next time and the
runs of each item; calendar, quota, idleness and prompt are the gates between a due
item and its input. Operators select, write the control file and wait for the
metadata to follow. `LoopStart` has the commands that start and restart one config,
with their two lock directories, locks that age, crashes and launches that never
register. `excuses` is history: why a second run may be alive, each excuse being a
case the code admits (a lock taken over as stale, a launch given up, locks in two
directories). `LoopCalendar` has the calendars that compile, windows in order and apart,
computes `NextOpen` and compares it with the earliest open instant.

### Dispatch

A command looks (`Look` reads the pane), decides and types, step by step; the agent
boots, asks for trust, works, pauses, asks and ends between any two steps; a human
types, answers and leaves. A step is one look, one text or one key; PasteText with
enter is two. The screen may swallow a paste or an Enter (`MaxLost`). The workspace
lease is the variable `lease`: a run holds it, or a dispatch probes it. Assumed, and
said in the header: what was typed shows when the command looks next, a submitted
prompt stays in the captured lines, and an agent in a turn does not look idle to two
looks in a row. `badKeys` and `disturbed` are history.

### PaneWait

One action per verdict of a sample: `PaneGone`, `TimesOut`, `Blocked`, `Observes`. Between
samples the pane may show anything, scroll or be replaced; the clock moves by the
sleep of the wait. `samples` is history.

### CredentialRequests, OneOutcome

The registry's lock is held while a value is written to the store, so a submission is
`SubmitBegins`, `SubmitWrites` or `SubmitFails`, and `SubmitResolves`, and timers and
other answers wait. A restart empties the registry and cuts commands off. `OneOutcome`
is what is promised: a request is decided at most once, its value is written before it
counts as submitted, and nobody is told of an outcome that is not the one of the
request he waited for. `KeepsPromise` is its specification under the mapping that
takes the outcome from the registry and from what is left of it.

### SessionHistory, SessionSnapshots

In `SessionHistory` the file and every copy are sequences of names, newest first and
bounded; the daemon compares one scan with the one before, a scan may fail in part,
and a command's steps may be interrupted anywhere. `owed` is history: what a poll saw
and neither a reopen through the daemon, nor newer entries, nor the disk took away. In `SessionSnapshots` a save is
the file, the pointer and the pruning, each a write; a restore creates sessions and
windows and kills what it made when one fails; the daemon may die anywhere, a machine
reboots, a file may be damaged.

### SnapshotStream, HumanActivity

Of a snapshot the pending credential requests are kept: what a browser and the
notifier need. A subscriber has room for one snapshot, and one that is full misses
the next. In `HumanActivity` daemons stamp their snapshots with how long their own
human has been idle and carry that to each other; time is ticks.

### ShellHooks, PaneActivity, PaneRuntime

Each reports of one pane something that was so some time ago. Events of hooks are
processes that may be late or lost; ids of panes are used again. The memory of
activity is saved and survives a daemon that dies. Runtimes are found in a table of
processes read once in a scan, or process by process, and remembered for `Ttl`.

### PanePrompts, PaneStates

A screen is a sequence of cleaned lines, each with its kind, number, label and cursor.
The detectors are operators on screens. `PaneStates` takes the captures of a pane one
after another while the agent in it goes on, and makes one report of them.

### PanePatches, PaneInput, PaneRows

`PanePatches` has the diff of a local stream, the relay through a hub with cursors, and
the cache that a peer keeps of one pane for all; polls fail, time out, and are answered
late. `PaneInput` has inputs that sockets read one after another, directly or in
requests that the hub gives up while the peer goes on; `excused` is history. `PaneRows`
is a pure algorithm: rows whose names may hold the delimiter, against the pane shown;
`Pieces` is what may stand between two delimiters.

### PushSubscriptions, WatchRules

Every request on the file of subscriptions is one step, as it holds the lock; a push
reads, sends without the lock, and deletes. A write may be broken off and leaves a file
that cannot be read, which loses every subscription (`push.go:420` is no atomic write);
the property leaves that out. `WatchRules` looks, goes through its rules with what it
saw, presses Enter, and leaves alone for a time what it answered, while the agent takes
its time to read the key.

## Runs

| Run | Shows | Bounds |
| --- | --- | --- |
| `ask_safe` | a reported timeout missed no accepted reply; replies come once and in order; no follow-up is delivered twice or stranded; types; workflow turns are exclusive; a producer keeps its chain | all commands, both sides killable, 4 messages, 2 instants; 4 workflows, 2 runners, 1 edit, one or two troubles |
| `live` | every ask and reply command returns; a waiting asker gets an accepted reply; a workflow runner settles | no kills of commands, 4 messages; 4 workflows, 2 runners, one or two troubles |
| `ask_lost_final` | expected violation, finding 1 | one plain ask |
| `agents` | what is done was committed and reviewed; a limit's prompt is typed once more; runtimes, hooks, activity, patches, inputs, rows, subscriptions and watch rules | 2 phases, 2 items, 6 commits, 1 operator command, 1 fault of any kind, 2 runners; see below |
| `dev_live` | turns are wanted; a stop request ends the runner; a recorded report is applied | 1 phase of 1 item, 4 commits, 2 commands, 1 fault, 2 runners |
| `dev_phases_lost` | expected violation, finding 2 | 1 kill, 2 runners |
| `dev_retry_waits` | expected violation, finding 3 | 1 retry |
| `loop` | missed intervals run once; a paused loop is quiet; a stop ends it; no stray input, no duplicate run; NextOpen; reports of panes | an action and a flow, 2 commands, 3 instants, a kill; 3 starting commands and 2 runs; every calendar of 3 days of 4 units with up to 2 windows; 6 menus above up to two old lines |
| `loop_calendar_clock_change` | expected violation, finding 4 | one change of clocks |
| `tmux` | no turn or question is interrupted; a prompt is submitted as reported; sessions are recoverable; restores are safe; daemons fall idle | 2 dispatches, or one with a human and lost keys; 2 sessions; 4 saves, 2 troubles; 2 daemons |
| `services` | a browser catches up; each request is pushed once; the registry implements OneOutcome and its commands end; waits report what held, and end | 2 requests and 2 commands; every wait of up to three samples |
| `workflow_skips_after_stale` | expected violation, finding 5 | 1 edit |

Why the bounds are enough. Four messages allow a prompt, a reply, a follow-up and a
second reply, the longest exchange in which an earlier answer can be mistaken for a
later one; one clock unit lets a deadline pass or be extended. Six commits complete two
phases of one item, or one phase with a fix; two commands give the pairs that matter
(stop and resume, retry and stop, pause and retry), and one fault hits any step. A flow
of two steps can be cut in the middle, and three instants let an interval be missed. Two
dispatches meet at one pane; with a human one is enough, as the human does what another
dispatch could. Two saves more than are retained are pruned over. Two requests and two
commands can join, cross and outlive each other. Two runtimes, hook events, daemons,
browsers, endpoints and pushes each are the least that can be confused with one another.
The workflows have two stages of one agent, a producer between two other stages, a human
whose answer a gate reads, and an agent that anyone's edit overtakes.
The theorems below need no bounds.
`PROJECT.json` names for every property a mutant of the code (a dropped recheck, a
swapped order, a guard left out) under which TLC finds that property violated within
these bounds, so the case each property is about does happen in them.

`CHECK_DEADLOCK FALSE` stands in every `.cfg`: commands end, runners exit and bounds are
reached. Symmetry is used only in `tmux`, over dispatches and over daemons, which are
alike; its temporal properties are action properties of the form `[][A]_v`, and these
do not mention the symmetric sets.

## Fairness

- AskReply: each side takes its next step (weak), and a wait does not poll forever
  (strong fairness of its end), because its context ends and a loop whose end comes up
  again and again takes it. Nobody has to start a command, reply or move the clock.
- AgentDev: a started runner and a report command take their steps. No agent has to
  work, nobody has to start a runner or give a command.
- WorkflowStages: the runner goes on, agents end their turns, a report that never comes
  is found to be overdue, and a stage that rests is tried again (strong: the engine
  compares the clock at every tick).
- LoopRunner: the runner takes its steps; operators need not.
- SnapshotStream: polls, deliveries and reads happen. CredentialRequests: a submission
  gets done; timers and commands that ask for the lock again and again get it, as Go's
  mutex starves nobody. PaneWait: the sampling loop goes on.

## Findings

1. A `reply --final` that lands between the two reads of a thread makes the waiting
   `ask` report a close (`ask_lost_final`, `store.go:281`).
2. A runner restarted while its stage is running without a dispatch drops the phase
   queue (`dev_phases_lost`, `engine.go:130` with `agent_dev.go:62-69`).
3. A retry of a coordinator turn picks the same dispatch id, finds it sent and types
   nothing (`dev_retry_waits`, `agent_dev.go:626` and `744-756`).
4. When the clocks go forward over the start of a window, NextOpen passes over the rest
   of that window (`loop_calendar_clock_change`, `calendar.go:235`).
5. A stage skipped by its condition after it was once stale keeps the error "stale", and
   the chain behind it is skipped as if it had failed (`workflow_skips_after_stale`,
   `engine.go:306`).

## Proofs

TLC checks small instances; the theorems hold for every value of the constants that
satisfies the named assumptions. Each proof module EXTENDS its component and TLAPS.

**AskReplyProofs.** `Invariant` proves `Spec => []IInv` for every bound, command set,
timeout and set of kills, under `KillMidWrite = FALSE`. `IInv` joins the type invariant
with four facts about the places the processes are at. *Located*: the message numbers a
process remembers fit its position. *Writers*: an unfinished message has its writer still
at the write, so at most one per side. *Accepted*: an accepted message is an answer and
every message below it is finished, hence readable. *ClosedBefore*: at the last read, and
after a timeout, the question is closed. They are needed because
`TimeoutMeansNoAcceptedReply` is not inductive: it depends on a last read made after the
close having seen every reply that was accepted, which is a fact about the other
process's write. The proof has one step per action; `ReadsGrow`, `SameReads` and
`AcceptedIsReadable` carry the argument about reads. `TypeCorrect` and `TimeoutIsHonest`
follow.

Delivery needs two more invariants. *SeenInv*: the cursor and the number a command waits
from are readable replies, and what was handed out lies below both, so the next answer is
new (`OrderKept`). *DeliveryInv*: a follow-up went to the mailbox because somebody waited,
so who replies at that time replies after the answer the asker knew (*Late*); after the
recheck delay, whoever may still take it has sent a reply that overtakes it (*Rechecked*).
Hence a recheck that finds neither answer nor close types what nobody took or will take
(`ArriveOnce`), and one that does not type leaves nobody stranded (`NobodyStranded`).
Both need `RecheckIsTimely`: a waiter polls three times in the delay; one that sleeps
longer can take what was typed. `AskTimeout` is positive, as both commands demand.

**AgentDevProofs.** `DevInvariant` proves `Spec => []DevInv`, for any phases, plans,
outcomes, commands, faults and bounds. Neither `DoneIsBacked` nor `TurnsAreWanted` is
inductive: what is complete was ticked because a report was checked against the commits
since its turn began, and a turn is typed alone because of what the runner read several
steps before. `DevInv` joins the types with three parts. *RunFits* is the runner, place by
place: while it sends (*SendFits*), it holds a turn that is recorded as "sending" until it
is typed, nothing else is outstanding, and no stop was reported; *StopFits*: a stop command
that waits, or has said "stopped", finds that request in the state; *OpenFits*: what is
outstanding is the current turn, and the journal says it may have been typed; *StageFits*:
how the status of the run and of the stage go with the queue. *DevFits* is the queue: only
its last phase is open, the earlier ones are complete with all their items and their
review, what is complete was ticked by a commit (`Queued`), and the current turn is for
what the queue is at (`TurnFits`). *AgentsFit*: what an agent found out for its report
still holds when the report is applied, since ticks are never taken back. The lemmas about the operators of `AgentDevState` say for each what it does to the
last phase and that it leaves the others alone. `DoneWasDone` and `OnlyWantedTurns`
follow. Two definitions were rewritten for the prover, which does not open `@@` and
nested `@`, to the same values.

**PaneProofs.** Eight theorems about what is known of a pane. `TypedOnce` proves `QuotaSpec => ResumedOnce`. *TickKnows* says what the
runner knows of the state between its read and its writes: a wait has a turn unless it
was changed, and a turn that is being typed is recorded as "sending". *SpentIsOver*: once
the prompt was typed again, that record or the place of the tick remembers it until the
wait is taken out; only a refused tick or a kill makes a wait as good as new, and these
are the excuse the property names. *ResumeIsDue* then gives the result.

`RunningIsKept` proves `HooksSpec => []ActiveIsKept` provided `StampsAtOnce`: a process
stamps its event in the order of the commands. *StampsInOrder*: the end of a command that
is still on its way was stamped before the start of a later one, so the store refuses it,
however late it comes; *KnowsActive*: the active command is the one that runs, once the
store was told of it. The script starts the processes in that order but in the background,
and nothing makes them take the time in it; without the proviso TLC finds an event of
one command that is stamped after the start of the next, and displaces it.

`ActivityHolds` proves `MemorySpec => []ActivityIsTrue`, with no assumption on the
constants but that they are naturals. *NotLate* and *NotEarly* bound, for what the daemon
remembers and for what is on disk, the time remembered of a screen that is still there on
both sides of the change; *ChangedSinceSeen* is why a screen other than the one captured
last changed after that capture; *ReportIsOfMemory* carries both to the report.

`RuntimeHolds` proves `RuntimeSpec => []ReportedAgentRan`, for any processes. *RanBefore*:
each kind of agent that ran below the shell is remembered with how long ago that was;
*ParentsLive* and *BelowIsNow*: no process hangs on one that ended, and what is below the
shell now counts as running now. The rest says, step by step, what a search may
hold: *ScanIsOfNow*, the table a scan read shows what ran since the scan began;
*WalkIsOfNow*, so does what a walk has collected; *EntryIsTrue*, an entry of the cache is
as old as it says. An attempt on the statement "ran at most as deep as the search goes"
failed: TLC shows, with three processes, that a number used again moves an agent to
another depth during a walk. It also showed that the model lacked the map of processes
already seen (`process.go:50`), and it has it now.

`PatchesHold` proves `PatchesSpec => ShowsTheScreen`, for any viewers and either stream.
*WireIsChain*: the messages on the way to the present socket start with one that stands
alone, and each other patches the screen before it, so they can be applied in the order
they arrive in. *BaseIsLast*: what a sender compares with is the end of that chain, which
is what the browser will show. *AskedIsNow*: there is one question at a time, about that
base, and the answer to it is a screen captured after all that was sent. *LinePatchIs*, the
lemma on the cheapest patch, says that it makes the one screen out of the other.

`InputHolds` proves `InputSpec => []InputArrivesWhole`, with no assumption at all.
*JobsApart*: a browser has one input under way that was not given up. *TypedIsOfJob*: what
is typed and not excused is alone in its window, and the job that typed it has yet to
press Enter. *JobKnown*: a job that is about to enter a command in a shell that became
busy has met another. *EnteredBefore*: what was entered was sent before what its browser
has under way. *BothMet*, that two jobs at one window are both excused when one of them
acts, carries all four through every step.

`RowsHold` proves `RowsSpec => []RowsAreRead`, for any names, commands and paths, provided
that nothing is without a name and a path is absolute unless it is not known
(`RowsAssumption`). *RowIs* and *BodyIs* say at which place of the row each field stands;
*SessionEnds*, *WindowEnds* and *PathIsFound*, that the parser splits it there again if
the name before that place can be told from what follows; *FieldsAre* and *ParsedIs*
compare the twelve fields. What is said of every row, that it is accepted and its flags
are right, needs only that the parser finds some place for each split.

`AcceptsAsAllowed` proves `WatchSpec => []AcceptedIsAllowed`. *OneKey*:
at most one key waits to be read, pressed for the question still on the screen by a rule
that remembers it. *InTime* bounds the age of a look and of a key; a cooldown longer than
both (`WatchAssumption`) keeps that rule from pressing again, and no other allows the
question. *LookIsCurrent*: a look is at a question that has no key, or the rules that are
left have nothing to press. *RunsCount* counts what was accepted, and the key that waits,
against the runs of the rule.

**StageProofs.** `StageInvariant` joins the types with three facts, for any valid
workflows. *WaysAreApart*: the stages that are on their way to an agent, from the check of
its pane to the end of the sending, have different agents, and each has the id of a
dispatch of its own. *AboutToType*: what is about to be typed is recorded as "sending"
and was not typed before, unless that failed, and its agent, if found idle, still is.
*TypedIsKnown*: a dispatch that was typed is recorded as sent or being sent, or has
failed. `TurnsApart` proves `StageSpec => TurnsAreExclusive` from them. The choice itself
is a recursive pass over the stages (`Scheduled`); *PlansExist* and *ScheduledOK* do the
induction over the stages by taking the first one where it would fail. The proof needs
that `"none"` names no actor, and found two arms of a `CASE` that overlapped.

`ChainsKept` proves `StageSpec => ProducerKeepsItsChain`. A stage is of the core (`IsCore`)
when all that produce revisions stand on it. The property is not inductive: that a stage of
the core does not go stale depends on everything an execution, a result, a dispatch or a
report remembers of the workspace. `ChainsHold`, which holds until something comes out of
turn, says it place by place. *Noticed*: a change the state does not know of has a producer
at work. *AllStand*: what has begun, or is executed or handled, stands on core stages that
are done. *CoreStage*, *CoreReports*, *CoreWay*, *CoreResult*: a stage of the core is not
stale, and what it, its dispatches, its execution and its result hold of the revisions it
does not produce is the workspace as it is, until it is done; each belongs to the
generation of the stage. *DriftedCore* then says that `invalidateDrift` leaves the core
alone, because whoever produces what changed is at work and stands on it;
*ScheduledPass* says of the pass over the stages that what it starts stands on what is
done. The first attempts failed where a reading of the workspace is stored late, and
showed the excuse described above.

**LoopProofs.** `LoopInvariant` joins five invariants of the runner, for any items,
number of commands and kills. *PauseInv*: while no resume came after a pause, the phase
"paused" is that of a runner which stopped to type and was not told to go on. *LateInv*:
after an input since the request only a check lies ahead. *CapacityInv*: an Enter is
pressed at most once per prompt, as the flag outlives the prompt. *StepsInv*: what was
typed is what was counted and the steps of the item under way, which fits as a whole.
*BurstInv*: an item is due an interval after the cycle that chose it. `PauseHolds`,
`InputsHaveACause` and `IntervalsHold` follow. The first attempt at *PauseInv* failed and
showed that a third command could make a stale pause look answered, which two commands
cannot; the model now says which pauses are fresh, and TLC was also run with three.
`NoDuplicate` is about `LoopStart`: without an excuse, the holder of a lock has its file
to itself, one command launches, what it launched is awaited, and one run is alive.
`CalendarOpens` is about `LoopCalendar` in a zone that keeps its offset, for any length
of days and weeks. A day and a second of it are a quotient and a remainder (`LocalIs`,
`LocalOf`), so the openings `NextOpen` looks at come in the order of the days and, by an
induction that takes the first window out of place, of the windows (`WindowsInOrder`);
one comes round within a week and a day (`SomeCandidate`). An instant passed over would
be in a window that starts after the instant asked about, and would have been taken
before, or holds that instant as well (`NothingPassedOver`).

**DispatchProofs.** Two invariants, for any number of commands and acts of a human.
`HazardInv`, for `Uninterrupted`: a command may type `/clear`, `/exit` or Enter on what it
found only when the turn it met first is over; before that it settles, where an idle look
counts only if it is repeated (*FreeInv*); a question seen ends the command (*SawInv*);
what a queueing command finds on the line is its own (*QueueInv*). `PromptInv`, for
`AsReported`: place by place, whether the prompt of an undisturbed command is unsent, on
the line or submitted, so that a retry follows a lost key only. They need
`ReadySettle > 0`, the default; `--ready-settle 0` turns settling off and is not modelled.
Proving them showed two arms of a `CASE` that overlapped; the code takes the first.

**ServiceProofs.** Seven theorems about services. `DaemonsFallIdle`: *ActivityInv* bounds
how late news of the human may be by the place it is at (a scan, then one fetch), so an
echo is never younger than its origin. `PushedAtMostOnce`: what was pushed is known for
good. `RestoreHolds`: *RollbackInv*, a restore knows each session it made, takes no other
for its own, and has none left when it failed; *LoadInv*, the file of a recent save is on
disk and `last` names one as recent, or the newer cannot be read, by counting the saves
that came later. The saved sessions are finitely many. `HistoryHolds`: *RecordedIsSafe*, once a poll has recorded what vanished, all that is owed
is in its scan or in the daemon's copy of the history; *OwedIsLoaded*, that copy was read
from the file before anything was owed, so what commands write into the file takes nothing
from it. The names are finitely many; `SiftedIs` is an induction over the entries that
takes the first one where it would fail. `ReportHeld`: a window of
`tmact wait` that is open was held so far, and no sleep leads past its end.

`Implements` proves `CredSpec => KeepsPromise`: the registry
implements `OneOutcome`, for any requests and commands, provided no command is named
"nobody". `CredInv` joins the types
with three facts. *Made*: a request exists when a command made it, and that command knows
it. *Placed*: a command that starts has nothing, one that waits has a request, and only
one that is done was told anything. *Held*: the lock is held for a pending request, and
only that one, once written, has a value while it can still be answered or expire.
Each action maps to one step of `OneOutcome` (`Decides`, `Tells`,
`CommandMaps`, `RegistryMaps`) or to a stutter.

`NothingLost` proves `PushSpec => []NoSubscriptionLost` for any number of
browsers and pushes. What a push is going to delete is gone (`ExpiredIsGone`), and that
is all the invariant needs besides types: what browsers subscribed meanwhile is not in
what the push deletes, because the file is read again under the lock.

Only model-checked. Liveness, which these provers do not do: every command that returns,
every run that ends. Statements whose definitions compute over sequences with filters,
folds or recursive functions (`PaneStates`, `PanePrompts`): the library's
induction theorems cannot be instantiated, and an induction by a first counterexample,
as in StageProofs and ServiceProofs, has not been done for these. The runs marked as
expected violations are counterexamples to statements of the documentation and need no
proof.
