--------------------------- MODULE AgentDevState ---------------------------
(***************************************************************************)
(* The durable state of one agent_dev stage (internal/workflow): the phase *)
(* queue kept in state.json, what the runner does next with it, how reports*)
(* change it, and the Git contract that reports are checked against.       *)
(*                                                                         *)
(* A work item is named by its checkbox <<phase, n>>; n = 0 is the review. *)
(* A task is what a role is asked to do, a turn is one dispatch of a task. *)
(***************************************************************************)
EXTENDS Integers, Sequences

CONSTANTS
    MaxPhases,        \* max_phases
    MaxItems,         \* max_items_per_phase
    MaxNoProgress,    \* max_no_progress_reviews
    FindingKeys,      \* what a review can find
    MaxCommits        \* bound: commits in the workspace

ASSUME AgentDevStateAssumption ==
    /\ MaxPhases \in Nat \ {0} /\ MaxItems \in Nat \ {0}
    /\ MaxNoProgress \in Nat \ {0} /\ MaxCommits \in Nat
    /\ "none" \notin FindingKeys

Task == [role : {"coordinator", "implementer", "reviewer"},
         box : (0..MaxCommits) \X Nat, round : Nat]

NoTask == [role |-> "none", box |-> <<0, 0>>, round |-> 0]
NoTurn == [task |-> NoTask, attempt |-> 0]
NoDev == [status |-> "none", cur |-> NoTurn]

\* The state a stage starts with: no phase planned, no dispatch.
NewDev == [status |-> "planning", phases |-> << >>, cur |-> NoTurn,
           round |-> 0, noProgress |-> 0, keys |-> "none"]

Planned(box) == [box |-> box, status |-> "pending", attempt |-> 0]

-----------------------------------------------------------------------------
(* What comes next *)

LastPhase(d) == d.phases[Len(d.phases)]
HasOpenPhase(d) == d.phases # << >> /\ LastPhase(d).status # "complete"

Pending(ph) == {i \in 1..Len(ph.items) : ph.items[i].status = "pending"}
FirstPending(ph) ==
    ph.items[CHOOSE i \in Pending(ph) : \A j \in Pending(ph) : i <= j]
AllComplete(ph) == \A i \in 1..Len(ph.items) : ph.items[i].status = "complete"

\* The work item of a coordinator is named by the number of phases there are,
\* or by the phase to fix and the review round.
NextTask(d) ==
    CASE ~HasOpenPhase(d) ->
           [role |-> "coordinator", box |-> <<Len(d.phases), 0>>, round |-> 0]
      [] HasOpenPhase(d) /\ LastPhase(d).status = "fix_planning" ->
           [role |-> "coordinator", box |-> <<LastPhase(d).id, 0>>,
            round |-> d.round]
      [] HasOpenPhase(d) /\ LastPhase(d).status = "active"
            /\ Pending(LastPhase(d)) # {} ->
           [role |-> "implementer", box |-> FirstPending(LastPhase(d)).box,
            round |-> 0]
      [] HasOpenPhase(d) /\ LastPhase(d).status = "active"
            /\ AllComplete(LastPhase(d)) ->
           [role |-> "reviewer", box |-> LastPhase(d).review.box, round |-> 0]
      [] OTHER -> NoTask

\* Changing one work item or the review of the last phase.
WithLast(d, ph) == [d EXCEPT !.phases[Len(d.phases)] = ph]
Mark(w, status, more) == [w EXCEPT !.status = status, !.attempt = @ + more]
Marked(ph, box, status, more) ==
    [ph EXCEPT !.items = [i \in DOMAIN @ |-> IF @[i].box = box
                                             THEN Mark(@[i], status, more) ELSE @[i]]]
SetItem(d, box, status, more) ==
    WithLast(d, Marked(LastPhase(d), box, status, more))
SetReview(d, status, more) ==
    WithLast(d, [LastPhase(d) EXCEPT !.review = Mark(@, status, more)])

\* Choosing a task marks its item active and counts the attempt; a review also
\* begins a round.
Begin(d, task) ==
    CASE task.role = "implementer" -> SetItem(d, task.box, "active", 1)
      [] task.role = "reviewer" ->
           [SetReview(d, "active", 1) EXCEPT !.round = @ + 1]
      [] OTHER -> IF HasOpenPhase(d) THEN d ELSE [d EXCEPT !.status = "planning"]

\* dispatchAttempt: the attempt of the item, or a number for the coordinator
\* that only grows with the phases and the reviews.
AttemptOf(d, task) ==
    CASE task.role = "implementer" ->
           LET ph == LastPhase(d) IN
           ph.items[CHOOSE i \in DOMAIN ph.items :
                        ph.items[i].box = task.box].attempt
      [] task.role = "reviewer" -> LastPhase(d).review.attempt
      [] OTHER -> Len(d.phases) + d.round + 1

TurnOf(d, task) == [task |-> task, attempt |-> AttemptOf(d, task)]
WithTurn(d, turn) == [d EXCEPT !.cur = turn]

\* resetActiveAgentDevItem, with clearAgentDevDispatch: only the item that the
\* current dispatch names goes back to pending.
ResetActive(d) ==
    CASE d.cur = NoTurn \/ d.phases = << >> -> d
      [] d.cur # NoTurn /\ d.cur.task.role = "implementer"
            /\ \E i \in DOMAIN LastPhase(d).items :
                   /\ LastPhase(d).items[i].box = d.cur.task.box
                   /\ LastPhase(d).items[i].status = "active" ->
           SetItem(d, d.cur.task.box, "pending", 0)
      [] d.cur # NoTurn /\ d.cur.task.role = "reviewer"
            /\ LastPhase(d).review.status = "active" ->
           SetReview(d, "pending", 0)
      [] OTHER -> d
ClearTurn(d) == [d EXCEPT !.cur = NoTurn]

-----------------------------------------------------------------------------
(* Reports *)

\* A plan either adds fix items to the rejected phase or opens a new one.
ApplyPlan(d, boxes) ==
    LET items == [i \in 1..Len(boxes) |-> Planned(boxes[i])] IN
    IF d.status = "fix_planning"
    THEN [WithLast(d, [LastPhase(d) EXCEPT !.items = @ \o items, !.status = "active"])
            EXCEPT !.status = "active"]
    ELSE [d EXCEPT !.phases =
                       Append(@, [id |-> boxes[1][1], status |-> "active",
                                  items |-> items,
                                  review |-> Planned(<<boxes[1][1], 0>>)]),
                   !.status = "active"]

\* A coordinator may finish only between phases.
MayFinish(d) == ~HasOpenPhase(d)
ApplyDone(d) == [d EXCEPT !.status = "complete"]

ApplyApprove(d) ==
    LET r == SetReview(d, "complete", 0) IN
    [r EXCEPT !.phases[Len(d.phases)].status = "complete",
              !.status = "planning", !.keys = "none", !.noProgress = 0]

\* Findings that repeat the last review's count as no progress.
ApplyChanges(d, keys) ==
    LET r == SetReview(d, "pending", 0) IN
    [r EXCEPT !.phases[Len(d.phases)].status = "fix_planning",
              !.status = "fix_planning", !.keys = keys,
              !.noProgress = IF keys = d.keys THEN @ + 1 ELSE 0]

NoProgress(d) == d.noProgress >= MaxNoProgress

-----------------------------------------------------------------------------
(* The workspace: each commit adds checkboxes to the queue file or ticks one *)

AddedBoxes(commits) == UNION {commits[i].adds : i \in DOMAIN commits}
TickedBoxes(commits) == UNION {commits[i].ticks : i \in DOMAIN commits}
Unticked(commits, box) == box \in AddedBoxes(commits) \ TickedBoxes(commits)

Since(commits, base) == {commits[i] : i \in (base + 1)..Len(commits)}

\* verifyUnchangedGit, verifyPlanCommit and verifyWorkItemReport, against the
\* head that was recorded when the turn was dispatched.
UnchangedSince(commits, base) == Len(commits) = base
PlanCommitted(commits, base, boxes) ==
    /\ Len(commits) > base
    /\ \A c \in Since(commits, base) : c.ticks = {}
    /\ \A i \in DOMAIN boxes : /\ Unticked(commits, boxes[i])
                               /\ \E c \in Since(commits, base) : boxes[i] \in c.adds
ItemInScope(commits, base, box) ==      \* without asking for the tick itself
    \A c \in Since(commits, base) : c.adds = {} /\ c.ticks \subseteq {box}
ItemCommitted(commits, base, box) ==
    /\ Len(commits) > base
    /\ box \in TickedBoxes(commits)
    /\ \A c \in Since(commits, base) : c.adds = {} /\ c.ticks \subseteq {box}
    /\ \E c \in Since(commits, base) : box \in c.ticks
=============================================================================
