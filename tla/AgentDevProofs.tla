--------------------------- MODULE AgentDevProofs ---------------------------
(***************************************************************************)
(* Proofs about the agent_dev stage: its runner, its agents and their      *)
(* reports, the operator, crashes and restarts, for any roles that are     *)
(* launched, plans, outcomes, commands, faults and bounds.                 *)
(***************************************************************************)
EXTENDS AgentDev, MinMaxLemmas, FiniteSetTheorems, TLAPS

(***************************************************************************)
(* Types.  A checkbox is a phase and a number, so that names stay names    *)
(* when phases are counted and items are added.                            *)
(***************************************************************************)
Box == Nat \X Nat
Tasks == [role : Roles, box : Box, round : Nat]
Turns == [task : Tasks, attempt : Nat]
Keys == FindingKeys \cup {"none"}
WorkItems == [box : Box, status : ItemStates, attempt : Nat]
Phases == [id : Nat, status : {"active", "fix_planning", "complete"},
           items : Seq(WorkItems), review : WorkItems]
Devs == [status : {"planning", "active", "fix_planning", "complete"},
         phases : Seq(Phases), cur : Turns \cup {NoTurn},
         round : Nat, noProgress : Nat, keys : Keys]
Commits == [adds : SUBSET Box, ticks : SUBSET Box]
Logged == [status : {"sending", "sent", "failed"}, base : Nat]
Agents == {NoWork} \cup [at : {"prompted"}, turn : Turns]
          \cup [at : {"done", "checked", "appended"}, turn : Turns,
                outcome : AllOutcomes, boxes : Seq(Box), keys : Keys]

Failing == {"fail_prompt", "fail_other", "fail_deferred"}
Untyped == {"launch", "clear", "cleared", "type"}
Sending == Untyped \cup Failing \cup {"send", "typed"}

StateTypeOK ==
    /\ desired \in {"running", "paused", "stopped"}
    /\ status \in {"running", "paused", "needs_user", "stopped", "blocked", "succeeded"}
    /\ stage \in {"pending", "running", "blocked", "succeeded"}
    /\ err \in {"none", "prompt", "other"}
    /\ op \in {"none", "probe", "wait", "inactive", "acknowledge", "retry"}
    /\ dev \in {NoDev} \cup Devs
LogTypeOK ==
    /\ log \in [DOMAIN log -> Logged] /\ DOMAIN log \subseteq Turns
    /\ \A t \in DOMAIN log : log[t].base <= Len(commits)
    /\ reports \subseteq DOMAIN log
CommitsTypeOK ==
    /\ commits \in Seq(Commits)
    /\ \A i \in DOMAIN commits : IsFiniteSet(commits[i].adds)
RunnerTypeOK ==
    /\ pc \in {"dead", "new", "idle", "stopping"} \cup Sending
    /\ turn \in Turns \cup {NoTurn} /\ base \in Nat /\ base <= Len(commits)
AgentTypeOK == agent \in [Roles -> Agents]

(***************************************************************************)
(* The runner and the operator.                                            *)
(***************************************************************************)
\* The log has a turn with one of these statuses.
LoggedAs(t, statuses) == t \in DOMAIN log /\ log[t].status \in statuses

\* While a turn is being sent the run is on, and nothing is handed out before
\* it is typed.
SendFits ==
    pc \in Sending =>
        /\ turn \in Turns /\ dev # NoDev
        /\ status \notin StopStates /\ ~quiet /\ op # "inactive"
        /\ pc # "typed" => open = {}
        /\ pc \in Untyped \cup {"typed"} => LoggedAs(turn, {"sending"})
StopFits ==
    /\ op \in {"probe", "wait", "inactive"} => desired = "stopped"
    /\ quiet => desired # "running"
\* What is outstanding is the turn in the state, and it may have been typed.
OpenFits == \A t \in open : t = dev.cur /\ t \in Turns /\ LoggedAs(t, {"sending", "sent"})
StageFits ==
    /\ stage = "pending" => dev.cur = NoTurn
    /\ dev = NoDev => stage = "pending"
    /\ stage = "succeeded" => dev.cur = NoTurn /\ ~HasOpenPhase(dev)
    /\ status \in {"blocked", "succeeded"} => stage = status
RunFits == SendFits /\ StopFits /\ OpenFits /\ StageFits

(***************************************************************************)
(* The queue and what agents report of it.                                 *)
(***************************************************************************)
Reviewed(ph) == ph.review.status = "complete" /\ AllComplete(ph)

\* Only the last phase is open, and the stage's status is its status.
QueueFits(d) ==
    /\ \A i \in DOMAIN d.phases : i < Len(d.phases) => d.phases[i].status = "complete"
    /\ IF HasOpenPhase(d) THEN d.status = LastPhase(d).status
       ELSE d.status \in {"planning", "complete"}
    /\ d.status = "fix_planning" => d.round > 0
    /\ \A i \in DOMAIN d.phases :
           d.phases[i].status = "complete" => Reviewed(d.phases[i])
\* What is complete was ticked.
Backed(ph, ticked) ==
    /\ \A j \in DOMAIN ph.items :
           ph.items[j].status = "complete" => ph.items[j].box \in ticked
    /\ ph.review.status = "complete" => ph.review.box \in ticked
QueueBacked(d, ticked) == \A i \in DOMAIN d.phases : Backed(d.phases[i], ticked)
\* The current turn is for what the queue is at.
TurnFits(d) ==
    d.cur # NoTurn =>
        /\ d.cur.task.role = "coordinator" =>
             /\ HasOpenPhase(d) <=> d.cur.task.round > 0
             /\ HasOpenPhase(d) => d.status = "fix_planning"
        /\ d.cur.task.role = "implementer" => HasOpenPhase(d) /\ d.status = "active"
        /\ d.cur.task.role = "reviewer" =>
             /\ HasOpenPhase(d) /\ d.status = "active" /\ AllComplete(LastPhase(d))
             /\ d.cur.task.box = LastPhase(d).review.box /\ d.round > 0
Queued(d, ticked) == d \in Devs /\ QueueFits(d) /\ QueueBacked(d, ticked)
DevFits == dev # NoDev => Queued(dev, TickedBoxes(commits)) /\ TurnFits(dev)

OutcomesOf(r) ==
    IF r = "coordinator" THEN {"planned", "done"}
    ELSE IF r = "implementer" THEN {"complete", "blocked"}
    ELSE {"approve", "request_changes", "blocked"}
\* An agent has a turn of its role that is in the log; what it found out for a
\* report still holds.
Fits(a, r, logged, ticked) ==
    a.at # "none" =>
        /\ a.turn \in logged /\ a.turn.task.role = r
        /\ a.at # "prompted" =>
             /\ a.outcome \in OutcomesOf(r)
             /\ a.outcome = "planned" => Len(a.boxes) > 0
        /\ a.at \in {"checked", "appended"} =>
             /\ a.outcome = "done" => a.turn.task.round = 0
             /\ a.outcome \in {"complete", "approve"} => a.turn.task.box \in ticked
AgentsFit == \A r \in Roles : Fits(agent[r], r, DOMAIN log, TickedBoxes(commits))

DevInv ==
    /\ StateTypeOK /\ LogTypeOK /\ CommitsTypeOK /\ RunnerTypeOK /\ AgentTypeOK
    /\ RunFits /\ DevFits /\ AgentsFit

-----------------------------------------------------------------------------
(* The last phase *)

LEMMA NoTurnIsNone == NoTurn \notin Turns /\ NoDev \notin Devs /\ NoDev.cur = NoTurn
BY DEF NoTurn, NoDev, NoTask, Turns, Tasks, Roles, Devs

LEMMA LastFacts ==
    ASSUME NEW d \in Devs, d.phases # << >>
    PROVE  /\ Len(d.phases) \in DOMAIN d.phases /\ DOMAIN d.phases = 1..Len(d.phases)
           /\ Len(d.phases) \in Nat \ {0} /\ LastPhase(d) \in Phases
BY DEF Devs, LastPhase

LEMMA WithLastFacts ==
    ASSUME NEW d \in Devs, d.phases # << >>, NEW ph \in Phases
    PROVE  LET e == WithLast(d, ph) IN
           /\ e \in Devs /\ e.phases # << >> /\ LastPhase(e) = ph
           /\ Len(e.phases) = Len(d.phases) /\ DOMAIN e.phases = DOMAIN d.phases
           /\ \A i \in DOMAIN d.phases : i # Len(d.phases) => e.phases[i] = d.phases[i]
           /\ e.status = d.status /\ e.cur = d.cur /\ e.round = d.round
           /\ e.noProgress = d.noProgress /\ e.keys = d.keys
<1>. DEFINE n == Len(d.phases)
            q == [d.phases EXCEPT ![n] = ph]
            e == WithLast(d, ph)
<1>1. d.phases \in Seq(Phases) /\ n \in DOMAIN d.phases /\ n \in Nat \ {0}
  BY LastFacts DEF Devs
<1>2. /\ q \in Seq(Phases) /\ Len(q) = n /\ q[n] = ph /\ DOMAIN q = DOMAIN d.phases
      /\ \A i \in DOMAIN d.phases : i # n => q[i] = d.phases[i]
  BY <1>1
<1>3. e = [d EXCEPT !.phases = q]
  BY DEF WithLast, Devs
<1>. HIDE DEF q, e
<1>4. /\ e \in Devs /\ e.phases = q
      /\ e.status = d.status /\ e.cur = d.cur /\ e.round = d.round
      /\ e.noProgress = d.noProgress /\ e.keys = d.keys
  BY <1>2, <1>3 DEF Devs
<1>5. e.phases # << >> /\ LastPhase(e) = ph
  BY <1>1, <1>2, <1>4 DEF LastPhase
<1>. QED
  BY <1>1, <1>2, <1>4, <1>5 DEF e

-----------------------------------------------------------------------------
(* Operations on the queue keep it *)

\* A change of the last phase that leaves it open, and ticks behind what is
\* complete in it.
LEMMA OpenLast ==
    ASSUME NEW ticked, NEW d, Queued(d, ticked), HasOpenPhase(d),
           NEW ph \in Phases, Backed(ph, ticked),
           ph.status \in {"active", "fix_planning"},
           NEW e \in Devs, e.phases = WithLast(d, ph).phases, e.status = ph.status,
           e.status = "fix_planning" => e.round > 0
    PROVE  Queued(e, ticked) /\ HasOpenPhase(e) /\ LastPhase(e) = ph
<1>. DEFINE w == WithLast(d, ph)
<1>1. /\ w.phases # << >> /\ LastPhase(w) = ph
      /\ Len(w.phases) = Len(d.phases) /\ DOMAIN w.phases = DOMAIN d.phases
      /\ \A i \in DOMAIN d.phases : i # Len(d.phases) => w.phases[i] = d.phases[i]
  BY WithLastFacts DEF Queued, HasOpenPhase
<1>2. LastPhase(e) = ph /\ HasOpenPhase(e)
  BY <1>1 DEF LastPhase, HasOpenPhase
<1>3. DOMAIN d.phases = 1..Len(d.phases) /\ Len(d.phases) \in DOMAIN d.phases
      /\ e.phases[Len(d.phases)] = ph
  BY <1>1, LastFacts DEF Queued, HasOpenPhase, LastPhase
<1>. HIDE DEF w
<1>4. QueueFits(e)
  BY <1>1, <1>2, <1>3 DEF Queued, QueueFits, w
<1>5. QueueBacked(e, ticked)
  BY <1>1, <1>2, <1>3 DEF Queued, QueueBacked, w
<1>. QED
  BY <1>2, <1>4, <1>5 DEF Queued

\* What is under way when the last phase is open.
LEMMA OpenFacts ==
    ASSUME NEW ticked, NEW d, Queued(d, ticked), HasOpenPhase(d)
    PROVE  /\ d \in Devs /\ d.phases # << >> /\ LastPhase(d) \in Phases
           /\ d.status = LastPhase(d).status /\ d.status \in {"active", "fix_planning"}
           /\ d.status = "fix_planning" => d.round > 0
           /\ Backed(LastPhase(d), ticked)
           /\ LastPhase(d).items \in Seq(WorkItems)
           /\ DOMAIN LastPhase(d).items = 1..Len(LastPhase(d).items)
           /\ Len(LastPhase(d).items) \in Nat
           /\ LastPhase(d).review \in WorkItems
<1>1. d \in Devs /\ d.phases # << >> /\ LastPhase(d).status # "complete"
  BY DEF Queued, HasOpenPhase
<1>2. LastPhase(d) \in Phases /\ Len(d.phases) \in DOMAIN d.phases
  BY <1>1, LastFacts
<1>3. /\ d.status = LastPhase(d).status
      /\ d.status = "fix_planning" => d.round > 0
      /\ Backed(LastPhase(d), ticked)
  BY <1>2 DEF Queued, QueueFits, QueueBacked, LastPhase
<1>. QED
  BY <1>1, <1>2, <1>3 DEF Phases

\* A phase after one of its items, or its review, was changed.
LEMMA MarkFacts ==
    ASSUME NEW w \in WorkItems, NEW s \in ItemStates, NEW more \in Nat
    PROVE  LET m == Mark(w, s, more) IN
           m \in WorkItems /\ m.box = w.box /\ m.status = s
<1>. DEFINE n == w.attempt + more
<1>1. n \in Nat
  BY DEF WorkItems
<1>2. Mark(w, s, more) = [w EXCEPT !.status = s, !.attempt = n]
  BY DEF Mark
<1>. HIDE DEF n
<1>. QED
  BY <1>1, <1>2 DEF WorkItems

LEMMA MarkedFacts ==
    ASSUME NEW ph \in Phases, NEW box, NEW s \in ItemStates, NEW more \in Nat
    PROVE  LET m == Marked(ph, box, s, more) IN
           /\ m \in Phases /\ m.id = ph.id /\ m.status = ph.status /\ m.review = ph.review
           /\ DOMAIN m.items = DOMAIN ph.items
           /\ \A i \in DOMAIN ph.items :
                /\ m.items[i].box = ph.items[i].box
                /\ ph.items[i].box = box => m.items[i].status = s
                /\ ph.items[i].box # box => m.items[i] = ph.items[i]
<1>. DEFINE q == [i \in DOMAIN ph.items |-> IF ph.items[i].box = box
                                            THEN Mark(ph.items[i], s, more)
                                            ELSE ph.items[i]]
            m == Marked(ph, box, s, more)
<1>1. ph.items \in Seq(WorkItems) /\ DOMAIN ph.items = 1..Len(ph.items)
      /\ Len(ph.items) \in Nat
  BY DEF Phases
<1>2. ASSUME NEW i \in DOMAIN ph.items
      PROVE  /\ q[i] \in WorkItems /\ q[i].box = ph.items[i].box
             /\ ph.items[i].box = box => q[i].status = s
             /\ ph.items[i].box # box => q[i] = ph.items[i]
  BY <1>1, MarkFacts, SMTT(60)
<1>3. DOMAIN q = DOMAIN ph.items
  OBVIOUS
<1>4. m = [ph EXCEPT !.items = q]
  BY DEF Marked, Phases
<1>. HIDE DEF q, m
<1>5. q \in Seq(WorkItems)
  <2>1. q = [i \in 1..Len(ph.items) |-> q[i]]
    BY <1>1, <1>3 DEF q
  <2>. QED
    BY <1>1, <1>2, <2>1, SMTT(60)
<1>6. m \in Phases /\ m.id = ph.id /\ m.status = ph.status /\ m.review = ph.review
      /\ m.items = q
  BY <1>4, <1>5 DEF Phases
<1>. QED
  BY <1>2, <1>3, <1>6 DEF m

LEMMA JudgedFacts ==
    ASSUME NEW ph \in Phases, NEW s \in ItemStates, NEW more \in Nat
    PROVE  LET m == [ph EXCEPT !.review = Mark(@, s, more)] IN
           /\ m \in Phases /\ m.id = ph.id /\ m.status = ph.status /\ m.items = ph.items
           /\ m.review.box = ph.review.box /\ m.review.status = s
<1>1. ph.review \in WorkItems
  BY DEF Phases
<1>. QED
  BY <1>1, MarkFacts DEF Phases

-----------------------------------------------------------------------------
(* What comes next *)

\* The first pending item is an item that is pending.
LEMMA FirstPendingIn ==
    ASSUME NEW ph \in Phases, Pending(ph) # {}
    PROVE  \E i \in DOMAIN ph.items :
               FirstPending(ph) = ph.items[i] /\ ph.items[i].status = "pending"
<1>1. Pending(ph) \subseteq Nat
  BY DEF Pending
<1>2. \E i \in Pending(ph) : \A j \in Pending(ph) : i <= j
  BY <1>1, Least
<1>3. (CHOOSE i \in Pending(ph) : \A j \in Pending(ph) : i <= j) \in Pending(ph)
  BY <1>2
<1>4. Pending(ph) \subseteq DOMAIN ph.items
  BY DEF Pending, Phases
<1>. QED
  BY <1>3, <1>4 DEF FirstPending, Pending

LEMMA NextTaskFacts ==
    ASSUME NEW ticked, NEW d, Queued(d, ticked), NextTask(d) # NoTask
    PROVE  LET task == NextTask(d) IN
           /\ task \in Tasks
           /\ task.role = "coordinator" =>
                /\ HasOpenPhase(d) <=> task.round > 0
                /\ HasOpenPhase(d) => d.status = "fix_planning"
           /\ task.role = "implementer" =>
                /\ HasOpenPhase(d) /\ d.status = "active"
                /\ \E i \in DOMAIN LastPhase(d).items : LastPhase(d).items[i].box = task.box
           /\ task.role = "reviewer" =>
                /\ HasOpenPhase(d) /\ d.status = "active" /\ AllComplete(LastPhase(d))
                /\ task.box = LastPhase(d).review.box
<1>. DEFINE task == NextTask(d)
            last == LastPhase(d)
<1>1. d \in Devs /\ d.round \in Nat /\ Len(d.phases) \in Nat
  BY DEF Queued, Devs
<1>2. CASE ~HasOpenPhase(d)
  <2>1. task = [role |-> "coordinator", box |-> <<Len(d.phases), 0>>, round |-> 0]
    BY <1>2 DEF NextTask
  <2>2. task \in Tasks
    BY <1>1, <2>1 DEF Tasks, Roles, Box
  <2>. QED
    BY <1>2, <2>1, <2>2
<1>3. CASE HasOpenPhase(d)
  <2>0. d.status = last.status /\ last \in Phases
        /\ (d.status = "fix_planning" => d.round > 0)
        /\ DOMAIN last.items = 1..Len(last.items)
    BY <1>3, OpenFacts
  <2>1. CASE last.status = "fix_planning"
    <3>1. task = [role |-> "coordinator", box |-> <<last.id, 0>>, round |-> d.round]
      BY <1>3, <2>1 DEF NextTask
    <3>2. task \in Tasks
      BY <1>1, <2>0, <3>1 DEF Tasks, Roles, Box, Phases
    <3>. QED
      BY <1>3, <2>0, <2>1, <3>1, <3>2
  <2>2. CASE last.status = "active" /\ Pending(last) # {}
    <3>0. ~AllComplete(last)
      BY <2>2 DEF Pending, AllComplete
    <3>1. task = [role |-> "implementer", box |-> FirstPending(last).box, round |-> 0]
      BY <1>3, <2>2, <3>0 DEF NextTask
    <3>2. PICK i \in DOMAIN last.items : FirstPending(last) = last.items[i]
      BY <2>0, <2>2, FirstPendingIn
    <3>3. last.items[i].box \in Box
      <4>1. last.items \in Seq(WorkItems)
        BY <2>0 DEF Phases
      <4>2. last.items[i] \in WorkItems
        BY <4>1
      <4>. QED
        BY <4>2 DEF WorkItems
    <3>4. task \in Tasks
      BY <3>1, <3>2, <3>3 DEF Tasks, Roles
    <3>. QED
      BY <1>3, <2>0, <2>2, <3>1, <3>2, <3>4
  <2>3. CASE last.status = "active" /\ AllComplete(last)
    <3>0. Pending(last) = {}
      BY <2>3 DEF Pending, AllComplete
    <3>1. task = [role |-> "reviewer", box |-> last.review.box, round |-> 0]
      BY <1>3, <2>3, <3>0 DEF NextTask
    <3>2. task \in Tasks
      BY <2>0, <3>1 DEF Tasks, Roles, Phases, WorkItems
    <3>. QED
      BY <1>3, <2>0, <2>3, <3>1, <3>2
  <2>4. CASE \/ last.status \notin {"active", "fix_planning"}
             \/ last.status = "active" /\ Pending(last) = {} /\ ~AllComplete(last)
    <3>1. task = NoTask
      BY <1>3, <2>4 DEF NextTask
    <3>. QED
      BY <3>1
  <2>. QED
    BY <2>1, <2>2, <2>3, <2>4
<1>. QED
  BY <1>2, <1>3

\* The fields that stand beside the queue do not matter to it.
LEMMA SameQueue ==
    ASSUME NEW ticked, NEW d, Queued(d, ticked), NEW e \in Devs,
           e.phases = d.phases, e.round >= d.round,
           \/ e.status = d.status
           \/ e.status \in {"planning", "complete"} /\ ~HasOpenPhase(d)
    PROVE  Queued(e, ticked) /\ (HasOpenPhase(e) <=> HasOpenPhase(d))
           /\ LastPhase(e) = LastPhase(d)
<1>1. LastPhase(e) = LastPhase(d) /\ (HasOpenPhase(e) <=> HasOpenPhase(d))
  BY DEF LastPhase, HasOpenPhase
<1>2. d.round \in Nat /\ e.round \in Nat
  BY DEF Queued, Devs
<1>3. QueueFits(e)
  BY <1>1, <1>2 DEF Queued, QueueFits
<1>. QED
  BY <1>1, <1>3 DEF Queued, QueueBacked

LEMMA SetItemKeeps ==
    ASSUME NEW ticked, NEW d, Queued(d, ticked), HasOpenPhase(d),
           NEW box, NEW s \in ItemStates, NEW more \in Nat, s = "complete" => box \in ticked
    PROVE  LET e == SetItem(d, box, s, more) IN
           /\ Queued(e, ticked) /\ HasOpenPhase(e)
           /\ LastPhase(e) = Marked(LastPhase(d), box, s, more)
           /\ e.status = d.status /\ e.cur = d.cur /\ e.round = d.round
<1>. DEFINE last == LastPhase(d)
            ph == Marked(last, box, s, more)
            e == SetItem(d, box, s, more)
<1>1. /\ d \in Devs /\ d.phases # << >> /\ last \in Phases
      /\ d.status = last.status /\ d.status \in {"active", "fix_planning"}
      /\ d.status = "fix_planning" => d.round > 0
      /\ Backed(last, ticked)
  BY OpenFacts
<1>2. /\ ph \in Phases /\ ph.status = last.status /\ ph.review = last.review
      /\ DOMAIN ph.items = DOMAIN last.items
      /\ \A i \in DOMAIN last.items :
           /\ ph.items[i].box = last.items[i].box
           /\ last.items[i].box = box => ph.items[i].status = s
           /\ last.items[i].box # box => ph.items[i] = last.items[i]
  BY <1>1, MarkedFacts
<1>3. e = WithLast(d, ph)
  BY DEF SetItem
<1>. HIDE DEF ph, e
<1>4. Backed(ph, ticked)
  BY <1>1, <1>2 DEF Backed
<1>5. /\ e \in Devs /\ e.phases = WithLast(d, ph).phases
      /\ e.status = d.status /\ e.cur = d.cur /\ e.round = d.round
  BY <1>1, <1>2, <1>3, WithLastFacts
<1>6. Queued(e, ticked) /\ HasOpenPhase(e) /\ LastPhase(e) = ph
  BY <1>1, <1>2, <1>4, <1>5, OpenLast
<1>. QED
  BY <1>5, <1>6 DEF e, ph

LEMMA SetReviewKeeps ==
    ASSUME NEW ticked, NEW d, Queued(d, ticked), HasOpenPhase(d),
           NEW s \in ItemStates, NEW more \in Nat, s # "complete"
    PROVE  LET e == SetReview(d, s, more) IN
           /\ Queued(e, ticked) /\ HasOpenPhase(e)
           /\ LastPhase(e) = [LastPhase(d) EXCEPT !.review = Mark(@, s, more)]
           /\ e.status = d.status /\ e.cur = d.cur /\ e.round = d.round
<1>. DEFINE last == LastPhase(d)
            ph == [LastPhase(d) EXCEPT !.review = Mark(@, s, more)]
            e == SetReview(d, s, more)
<1>1. /\ d \in Devs /\ d.phases # << >> /\ last \in Phases
      /\ d.status = last.status /\ d.status \in {"active", "fix_planning"}
      /\ d.status = "fix_planning" => d.round > 0
      /\ Backed(last, ticked)
  BY OpenFacts
<1>2. /\ ph \in Phases /\ ph.status = last.status /\ ph.items = last.items
      /\ ph.review.status = s
  BY <1>1, JudgedFacts
<1>3. e = WithLast(d, ph)
  BY DEF SetReview
<1>. HIDE DEF ph, e
<1>4. Backed(ph, ticked)
  BY <1>1, <1>2 DEF Backed
<1>5. /\ e \in Devs /\ e.phases = WithLast(d, ph).phases
      /\ e.status = d.status /\ e.cur = d.cur /\ e.round = d.round
  BY <1>1, <1>2, <1>3, WithLastFacts
<1>6. Queued(e, ticked) /\ HasOpenPhase(e) /\ LastPhase(e) = ph
  BY <1>1, <1>2, <1>4, <1>5, OpenLast
<1>. QED
  BY <1>5, <1>6 DEF e, ph

\* The current turn does not matter to the queue either.
LEMMA TurnKeeps ==
    ASSUME NEW ticked, NEW d, Queued(d, ticked), NEW t \in Turns \cup {NoTurn}
    PROVE  LET e == WithTurn(d, t) IN
           /\ Queued(e, ticked) /\ e.cur = t /\ e.status = d.status /\ e.round = d.round
           /\ HasOpenPhase(e) <=> HasOpenPhase(d)
           /\ LastPhase(e) = LastPhase(d)
<1>. DEFINE e == WithTurn(d, t)
<1>1. d \in Devs /\ d.round \in Nat
  BY DEF Queued, Devs
<1>2. /\ e \in Devs /\ e.phases = d.phases /\ e.round = d.round /\ e.status = d.status
      /\ e.cur = t
  BY <1>1 DEF WithTurn, Devs
<1>. HIDE DEF e
<1>3. e.round >= d.round
  BY <1>1, <1>2
<1>. QED
  BY <1>2, <1>3, SameQueue DEF e

\* What dispatching the next task makes of the queue, and the turn it gets.
LEMMA BeginKeeps ==
    ASSUME NEW ticked, NEW d, Queued(d, ticked), NEW task, task = NextTask(d), task # NoTask
    PROVE  LET b == Begin(d, task) IN
           /\ Queued(b, ticked) /\ b.cur = d.cur /\ task \in Tasks
           /\ AttemptOf(b, task) \in Nat
           /\ task.role = "coordinator" =>
                /\ HasOpenPhase(b) <=> task.round > 0
                /\ HasOpenPhase(b) => b.status = "fix_planning"
           /\ task.role = "implementer" => HasOpenPhase(b) /\ b.status = "active"
           /\ task.role = "reviewer" =>
                /\ HasOpenPhase(b) /\ b.status = "active" /\ AllComplete(LastPhase(b))
                /\ task.box = LastPhase(b).review.box /\ b.round > 0
<1>. DEFINE b == Begin(d, task)
<1>1. /\ task \in Tasks
      /\ task.role = "coordinator" =>
           /\ HasOpenPhase(d) <=> task.round > 0
           /\ HasOpenPhase(d) => d.status = "fix_planning"
      /\ task.role = "implementer" =>
           /\ HasOpenPhase(d) /\ d.status = "active"
           /\ \E i \in DOMAIN LastPhase(d).items : LastPhase(d).items[i].box = task.box
      /\ task.role = "reviewer" =>
           /\ HasOpenPhase(d) /\ d.status = "active" /\ AllComplete(LastPhase(d))
           /\ task.box = LastPhase(d).review.box
  BY NextTaskFacts
<1>2. d \in Devs /\ d.round \in Nat
  BY DEF Queued, Devs
<1>3. CASE task.role = "coordinator"
  <2>1. b = IF HasOpenPhase(d) THEN d ELSE [d EXCEPT !.status = "planning"]
    BY <1>3 DEF Begin
  <2>2. /\ b \in Devs /\ b.phases = d.phases /\ b.round = d.round /\ b.cur = d.cur
        /\ b.status = d.status \/ (b.status = "planning" /\ ~HasOpenPhase(d))
        /\ HasOpenPhase(d) => b.status = d.status
    BY <1>2, <2>1 DEF Devs
  <2>. HIDE DEF b
  <2>3. Queued(b, ticked) /\ (HasOpenPhase(b) <=> HasOpenPhase(d))
    <3>1. b.round >= d.round
      BY <1>2, <2>2
    <3>. QED
      BY <2>2, <3>1, SameQueue
  <2>4. AttemptOf(b, task) \in Nat
    <3>1. Len(b.phases) \in Nat /\ b.round \in Nat
      BY <2>2 DEF Devs
    <3>2. AttemptOf(b, task) = Len(b.phases) + b.round + 1
      BY <1>3 DEF AttemptOf
    <3>. QED
      BY <3>1, <3>2
  <2>. QED
    BY <1>1, <1>3, <2>2, <2>3, <2>4 DEF b
<1>4. CASE task.role = "implementer"
  <2>. DEFINE last == LastPhase(d)
              ph == Marked(last, task.box, "active", 1)
  <2>1. b = SetItem(d, task.box, "active", 1)
    BY <1>4 DEF Begin
  <2>2. /\ Queued(b, ticked) /\ HasOpenPhase(b) /\ LastPhase(b) = ph
        /\ b.status = d.status /\ b.cur = d.cur
    <3>1. "active" \in ItemStates /\ "active" # "complete" /\ 1 \in Nat
      BY DEF ItemStates
    <3>. DEFINE box == task.box
    <3>2. "active" = "complete" => box \in ticked
      BY <3>1
    <3>3. HasOpenPhase(d)
      BY <1>1, <1>4
    <3>. HIDE DEF b, box
    <3>4. LET e == SetItem(d, box, "active", 1) IN
          /\ Queued(e, ticked) /\ HasOpenPhase(e)
          /\ LastPhase(e) = Marked(LastPhase(d), box, "active", 1)
          /\ e.status = d.status /\ e.cur = d.cur /\ e.round = d.round
      BY <3>1, <3>2, <3>3, SetItemKeeps, ZenonT(60)
    <3>. QED
      BY <2>1, <3>4 DEF box
  <2>3. last \in Phases
    BY <1>1, <1>4, OpenFacts
  <2>4. /\ ph \in Phases /\ DOMAIN ph.items = DOMAIN last.items
        /\ \A i \in DOMAIN last.items : ph.items[i].box = last.items[i].box
    BY <2>3, MarkedFacts DEF ItemStates
  <2>. HIDE DEF b, ph
  <2>5. AttemptOf(b, task) \in Nat
    <3>. DEFINE k == CHOOSE i \in DOMAIN ph.items : ph.items[i].box = task.box
    <3>1. k \in DOMAIN ph.items
      BY <1>1, <1>4, <2>4
    <3>2. AttemptOf(b, task) = ph.items[k].attempt
      BY <1>4, <2>2 DEF AttemptOf
    <3>3. ph.items \in Seq(WorkItems)
      BY <2>4 DEF Phases
    <3>. HIDE DEF k
    <3>4. ph.items[k] \in WorkItems
      BY <3>1, <3>3
    <3>. QED
      BY <3>2, <3>4 DEF WorkItems
  <2>. QED
    BY <1>1, <1>4, <2>2, <2>5 DEF b
<1>5. CASE task.role = "reviewer"
  <2>. DEFINE last == LastPhase(d)
              r == SetReview(d, "active", 1)
              ph == [last EXCEPT !.review = Mark(@, "active", 1)]
  <2>1. b = [r EXCEPT !.round = @ + 1]
    BY <1>5 DEF Begin
  <2>2. /\ Queued(r, ticked) /\ HasOpenPhase(r) /\ LastPhase(r) = ph
        /\ r.status = d.status /\ r.cur = d.cur /\ r.round = d.round
    BY <1>1, <1>5, SetReviewKeeps, SMTT(60) DEF ItemStates
  <2>3. last \in Phases
    BY <1>1, <1>5, OpenFacts
  <2>4. /\ ph \in Phases /\ ph.items = last.items
        /\ ph.review.box = last.review.box
    BY <2>3, JudgedFacts DEF ItemStates
  <2>. HIDE DEF r, ph
  <2>5. /\ b \in Devs /\ b.phases = r.phases /\ b.round = d.round + 1
        /\ b.status = r.status /\ b.cur = r.cur
    <3>1. r \in Devs /\ r.round + 1 \in Nat
      BY <1>2, <2>2 DEF Queued
    <3>. QED
      BY <2>1, <2>2, <3>1 DEF Devs
  <2>. HIDE DEF b
  <2>6. Queued(b, ticked) /\ HasOpenPhase(b) /\ LastPhase(b) = ph
    <3>1. b.round >= r.round
      BY <1>2, <2>2, <2>5
    <3>. QED
      BY <2>2, <2>5, <3>1, SameQueue
  <2>7. AllComplete(ph)
    BY <1>1, <1>5, <2>4 DEF AllComplete
  <2>8. AttemptOf(b, task) \in Nat
    <3>1. AttemptOf(b, task) = ph.review.attempt
      BY <1>5, <2>6 DEF AttemptOf
    <3>. QED
      BY <2>4, <3>1 DEF Phases, WorkItems
  <2>9. b.round > 0
    BY <1>2, <2>5
  <2>. QED
    BY <1>1, <1>5, <2>2, <2>4, <2>5, <2>6, <2>7, <2>8, <2>9 DEF b
<1>. QED
  BY <1>1, <1>3, <1>4, <1>5 DEF Tasks, Roles

-----------------------------------------------------------------------------
(* What reports and retries make of the queue *)

LEMMA ClearKeeps ==
    ASSUME NEW ticked, NEW d, Queued(d, ticked)
    PROVE  LET e == ClearTurn(d) IN
           /\ Queued(e, ticked) /\ e.cur = NoTurn /\ TurnFits(e)
           /\ HasOpenPhase(e) <=> HasOpenPhase(d)
<1>1. ClearTurn(d) = WithTurn(d, NoTurn)
  BY DEF ClearTurn, WithTurn
<1>. QED
  BY <1>1, TurnKeeps DEF TurnFits

LEMMA ResetKeeps ==
    ASSUME NEW ticked, NEW d, Queued(d, ticked), TurnFits(d)
    PROVE  Queued(ResetActive(d), ticked)
<1>. DEFINE item == \E i \in DOMAIN LastPhase(d).items :
                       /\ LastPhase(d).items[i].box = d.cur.task.box
                       /\ LastPhase(d).items[i].status = "active"
<1>0. "pending" \in ItemStates /\ "pending" # "complete" /\ 0 \in Nat
  BY DEF ItemStates
<1>1. CASE d.cur # NoTurn /\ d.cur.task.role = "implementer" /\ d.phases # << >> /\ item
  <2>1. ResetActive(d) = SetItem(d, d.cur.task.box, "pending", 0)
    BY <1>1 DEF ResetActive
  <2>2. HasOpenPhase(d)
    BY <1>1 DEF TurnFits
  <2>3. \A box : "pending" = "complete" => box \in ticked
    BY <1>0
  <2>4. \A box : Queued(SetItem(d, box, "pending", 0), ticked)
    BY <1>0, <2>2, <2>3, SetItemKeeps
  <2>. QED
    BY <2>1, <2>4
<1>2. CASE d.cur # NoTurn /\ d.cur.task.role = "reviewer" /\ d.phases # << >>
           /\ LastPhase(d).review.status = "active"
  <2>1. ResetActive(d) = SetReview(d, "pending", 0)
    BY <1>2 DEF ResetActive
  <2>2. HasOpenPhase(d)
    BY <1>2 DEF TurnFits
  <2>. QED
    BY <1>0, <2>1, <2>2, SetReviewKeeps
<1>3. CASE ResetActive(d) = d
  BY <1>3
<1>4. \/ d.cur # NoTurn /\ d.cur.task.role = "implementer" /\ d.phases # << >> /\ item
      \/ d.cur # NoTurn /\ d.cur.task.role = "reviewer" /\ d.phases # << >>
           /\ LastPhase(d).review.status = "active"
      \/ ResetActive(d) = d
  <2>1. CASE d.cur = NoTurn \/ d.phases = << >>
    <3>1. ~(d.cur # NoTurn /\ d.cur.task.role \in {"implementer", "reviewer"})
      BY <2>1 DEF TurnFits, HasOpenPhase
    <3>. QED
      BY <2>1, <3>1 DEF ResetActive
  <2>2. CASE d.cur # NoTurn /\ d.phases # << >>
    <3>. SUFFICES ASSUME ~(d.cur.task.role = "implementer" /\ item),
                         ~(d.cur.task.role = "reviewer" /\ LastPhase(d).review.status = "active")
                  PROVE  ResetActive(d) = d
      BY <2>2
    <3>. QED
      BY <2>2 DEF ResetActive
  <2>. QED
    BY <2>1, <2>2
<1>. QED
  BY <1>1, <1>2, <1>3, <1>4

LEMMA DoneKeeps ==
    ASSUME NEW ticked, NEW d, Queued(d, ticked), ~HasOpenPhase(d)
    PROVE  Queued(ApplyDone(d), ticked) /\ ~HasOpenPhase(ApplyDone(d))
<1>1. d \in Devs /\ d.round \in Nat
  BY DEF Queued, Devs
<1>2. /\ ApplyDone(d) \in Devs /\ ApplyDone(d).phases = d.phases
      /\ ApplyDone(d).round = d.round /\ ApplyDone(d).status = "complete"
  BY <1>1 DEF ApplyDone, Devs
<1>3. ApplyDone(d).round >= d.round
  BY <1>1, <1>2
<1>. QED
  BY <1>2, <1>3, SameQueue

\* A planned item waits for its turn.
LEMMA PlannedItems ==
    ASSUME NEW boxes \in Seq(Box)
    PROVE  LET items == [i \in 1..Len(boxes) |-> Planned(boxes[i])] IN
           /\ items \in Seq(WorkItems)
           /\ \A i \in DOMAIN items : items[i].status = "pending"
<1>1. ASSUME NEW i \in 1..Len(boxes)
      PROVE  Planned(boxes[i]) \in WorkItems /\ Planned(boxes[i]).status = "pending"
  BY DEF Planned, WorkItems, ItemStates
<1>2. Len(boxes) \in Nat
  OBVIOUS
<1>. QED
  BY <1>1, <1>2

LEMMA PlanKeeps ==
    ASSUME NEW ticked, NEW d, Queued(d, ticked), HasOpenPhase(d) => d.status = "fix_planning",
           NEW boxes \in Seq(Box), Len(boxes) > 0
    PROVE  Queued(ApplyPlan(d, boxes), ticked)
<1>. DEFINE items == [i \in 1..Len(boxes) |-> Planned(boxes[i])]
            last == LastPhase(d)
            n == Len(d.phases)
<1>1. items \in Seq(WorkItems) /\ \A i \in DOMAIN items : items[i].status = "pending"
  BY PlannedItems
<1>2. d \in Devs /\ d.phases \in Seq(Phases) /\ d.round \in Nat
  BY DEF Queued, Devs
<1>. HIDE DEF items
<1>3. CASE d.status = "fix_planning"
  <2>. DEFINE ph == [last EXCEPT !.items = @ \o items, !.status = "active"]
              e == [WithLast(d, ph) EXCEPT !.status = "active"]
  <2>1. HasOpenPhase(d)
    BY <1>3 DEF Queued, QueueFits
  <2>2. /\ d.phases # << >> /\ last \in Phases /\ Backed(last, ticked)
        /\ last.items \in Seq(WorkItems)
    BY <2>1, OpenFacts
  <2>3. last.items \o items \in Seq(WorkItems)
        /\ \A i \in DOMAIN (last.items \o items) :
             \/ i \in DOMAIN last.items /\ (last.items \o items)[i] = last.items[i]
             \/ (last.items \o items)[i].status = "pending"
    BY <1>1, <2>2
  <2>4. /\ ph \in Phases /\ ph.items = last.items \o items /\ ph.status = "active"
        /\ ph.review = last.review
    BY <2>2, <2>3 DEF Phases
  <2>. HIDE DEF ph
  <2>5. Backed(ph, ticked)
    BY <2>2, <2>3, <2>4 DEF Backed
  <2>6. WithLast(d, ph) \in Devs
    BY <1>2, <2>2, <2>4, WithLastFacts
  <2>7. e \in Devs /\ e.phases = WithLast(d, ph).phases /\ e.status = "active"
    BY <2>6 DEF Devs
  <2>8. Queued(e, ticked)
    <3>. HIDE DEF e
    <3>. QED
      BY <2>1, <2>4, <2>5, <2>7, OpenLast
  <2>9. ApplyPlan(d, boxes) = e
    BY <1>3 DEF ApplyPlan, ph, items
  <2>. QED
    BY <2>8, <2>9
<1>4. CASE d.status # "fix_planning"
  <2>. DEFINE ph == [id |-> boxes[1][1], status |-> "active", items |-> items,
                     review |-> Planned(<<boxes[1][1], 0>>)]
              q == Append(d.phases, ph)
              e == ApplyPlan(d, boxes)
  <2>1. ~HasOpenPhase(d)
    BY <1>4
  <2>2. \A i \in DOMAIN d.phases : d.phases[i].status = "complete"
    BY <1>2, <2>1 DEF Queued, QueueFits, HasOpenPhase, LastPhase
  <2>3. boxes[1][1] \in Nat
    <3>1. boxes[1] \in Box
      BY Len(boxes) \in Nat
    <3>. QED
      BY <3>1 DEF Box
  <2>4. /\ ph \in Phases /\ ph.status = "active" /\ ph.items = items
        /\ ph.review.status = "pending"
    BY <1>1, <2>3 DEF Phases, WorkItems, ItemStates, Planned, Box
  <2>. HIDE DEF ph
  <2>5. Backed(ph, ticked)
    BY <1>1, <2>4 DEF Backed
  <2>6. /\ q \in Seq(Phases) /\ Len(q) = n + 1 /\ n \in Nat /\ DOMAIN q = 1..(n + 1)
        /\ DOMAIN d.phases = 1..n
        /\ q[n + 1] = ph /\ \A i \in 1..n : q[i] = d.phases[i]
    BY <1>2, <2>4
  <2>. HIDE DEF q
  <2>7. e = [d EXCEPT !.phases = q, !.status = "active"]
    BY <1>4 DEF ApplyPlan, q, ph, items
  <2>8. e \in Devs /\ e.phases = q /\ e.status = "active" /\ e.round = d.round
    BY <1>2, <2>6, <2>7 DEF Devs
  <2>. HIDE DEF e
  <2>9. HasOpenPhase(e) /\ LastPhase(e) = ph
    BY <2>4, <2>6, <2>8 DEF HasOpenPhase, LastPhase
  <2>10. \A i \in DOMAIN e.phases : i = n + 1 \/ (i \in DOMAIN d.phases /\ i < n + 1)
    BY <2>6, <2>8
  <2>11. QueueFits(e)
    BY <2>2, <2>4, <2>6, <2>8, <2>9, <2>10, SMTT(60) DEF Queued, QueueFits
  <2>12. QueueBacked(e, ticked)
    BY <2>5, <2>6, <2>8, <2>10 DEF Queued, QueueBacked
  <2>. QED
    BY <2>8, <2>11, <2>12 DEF Queued, e
<1>. QED
  BY <1>3, <1>4

LEMMA ApproveKeeps ==
    ASSUME NEW ticked, NEW d, Queued(d, ticked), HasOpenPhase(d),
           AllComplete(LastPhase(d)), LastPhase(d).review.box \in ticked
    PROVE  Queued(ApplyApprove(d), ticked)
<1>. DEFINE last == LastPhase(d)
            rev == [last EXCEPT !.review = Mark(@, "complete", 0)]
            ph == [rev EXCEPT !.status = "complete"]
            r == SetReview(d, "complete", 0)
            w == WithLast(d, ph)
            e == ApplyApprove(d)
            n == Len(d.phases)
<1>1. /\ d \in Devs /\ d.phases # << >> /\ last \in Phases /\ Backed(last, ticked)
      /\ d.round \in Nat
  BY OpenFacts DEF Devs
<1>2. "complete" \in ItemStates /\ 0 \in Nat
  BY DEF ItemStates
<1>3. /\ rev \in Phases /\ rev.items = last.items
      /\ rev.review.box = last.review.box /\ rev.review.status = "complete"
  BY <1>1, <1>2, JudgedFacts, ZenonT(60)
<1>. HIDE DEF rev
<1>4. /\ ph \in Phases /\ ph.items = last.items /\ ph.status = "complete"
      /\ ph.review.box = last.review.box /\ ph.review.status = "complete"
  BY <1>3 DEF Phases
<1>5. Backed(ph, ticked) /\ Reviewed(ph)
  BY <1>1, <1>4 DEF Backed, Reviewed, AllComplete
<1>6. /\ w \in Devs /\ w.phases # << >> /\ LastPhase(w) = ph
      /\ Len(w.phases) = n /\ DOMAIN w.phases = DOMAIN d.phases
      /\ \A i \in DOMAIN d.phases : i # n => w.phases[i] = d.phases[i]
      /\ w.round = d.round /\ w.cur = d.cur
  BY <1>1, <1>4, WithLastFacts
<1>7. DOMAIN d.phases = 1..n /\ n \in Nat /\ w.phases[n] = ph
  BY <1>1, <1>6 DEF LastPhase, Devs
<1>8. r = WithLast(d, rev)
  BY DEF SetReview, rev
<1>9. e = [w EXCEPT !.status = "planning", !.keys = "none", !.noProgress = 0]
  <2>1. n \in DOMAIN d.phases /\ d.phases \in Seq(Phases)
    BY <1>1, LastFacts DEF Devs
  <2>2. r.phases = [d.phases EXCEPT ![n] = rev] /\ Len(r.phases) = n
    BY <1>1, <1>3, <1>8, <2>1, WithLastFacts DEF WithLast, Devs
  <2>3. [r.phases EXCEPT ![n].status = "complete"] = [d.phases EXCEPT ![n] = ph]
    BY <2>1, <2>2
  <2>4. w = [r EXCEPT !.phases[Len(r.phases)].status = "complete"]
    BY <1>1, <1>8, <2>1, <2>2, <2>3 DEF WithLast, Devs
  <2>. QED
    BY <1>1, <1>8, <2>1, <2>2, <2>3 DEF ApplyApprove, WithLast, Devs
<1>. HIDE DEF ph, w, e
<1>10. e \in Devs /\ e.phases = w.phases /\ e.status = "planning" /\ e.round = d.round
  BY <1>6, <1>9 DEF Devs, Keys
<1>11. ~HasOpenPhase(e)
  BY <1>4, <1>6, <1>10 DEF HasOpenPhase, LastPhase
<1>12. \A i \in DOMAIN e.phases :
          \/ i = n /\ e.phases[i] = ph
          \/ i \in DOMAIN d.phases /\ i < n /\ e.phases[i] = d.phases[i]
  BY <1>6, <1>7, <1>10
<1>13. QueueFits(e)
  BY <1>5, <1>6, <1>10, <1>11, <1>12 DEF Queued, QueueFits
<1>14. QueueBacked(e, ticked)
  BY <1>5, <1>12 DEF Queued, QueueBacked
<1>. QED
  BY <1>10, <1>13, <1>14 DEF Queued, e

LEMMA ChangesKeeps ==
    ASSUME NEW ticked, NEW d, Queued(d, ticked), HasOpenPhase(d), d.round > 0,
           NEW keys \in Keys
    PROVE  Queued(ApplyChanges(d, keys), ticked)
<1>. DEFINE last == LastPhase(d)
            rev == [last EXCEPT !.review = Mark(@, "pending", 0)]
            ph == [rev EXCEPT !.status = "fix_planning"]
            r == SetReview(d, "pending", 0)
            w == WithLast(d, ph)
            more == IF keys = d.keys THEN d.noProgress + 1 ELSE 0
            e == ApplyChanges(d, keys)
            n == Len(d.phases)
<1>1. /\ d \in Devs /\ d.phases # << >> /\ last \in Phases /\ Backed(last, ticked)
      /\ d.round \in Nat /\ more \in Nat
  BY OpenFacts DEF Devs
<1>2. "pending" \in ItemStates /\ 0 \in Nat
  BY DEF ItemStates
<1>3. /\ rev \in Phases /\ rev.items = last.items /\ rev.review.status = "pending"
  BY <1>1, <1>2, JudgedFacts, ZenonT(60)
<1>. HIDE DEF rev
<1>4. /\ ph \in Phases /\ ph.items = last.items /\ ph.status = "fix_planning"
      /\ ph.review.status = "pending"
  BY <1>3 DEF Phases
<1>5. Backed(ph, ticked)
  BY <1>1, <1>4 DEF Backed
<1>6. w \in Devs /\ w.round = d.round /\ w.noProgress = d.noProgress
  BY <1>1, <1>4, WithLastFacts
<1>7. r = WithLast(d, rev)
  BY DEF SetReview, rev
<1>8. e = [w EXCEPT !.status = "fix_planning", !.keys = keys, !.noProgress = more]
  <2>1. n \in DOMAIN d.phases /\ d.phases \in Seq(Phases)
    BY <1>1, LastFacts DEF Devs
  <2>2. r.phases = [d.phases EXCEPT ![n] = rev] /\ Len(r.phases) = n
    BY <1>1, <1>3, <1>7, <2>1, WithLastFacts DEF WithLast, Devs
  <2>3. [r.phases EXCEPT ![n].status = "fix_planning"] = [d.phases EXCEPT ![n] = ph]
    BY <2>1, <2>2
  <2>4. w = [r EXCEPT !.phases[Len(r.phases)].status = "fix_planning"]
    BY <1>1, <1>7, <2>1, <2>2, <2>3 DEF WithLast, Devs
  <2>. QED
    BY <1>1, <1>7, <2>1, <2>2, <2>3 DEF ApplyChanges, WithLast, Devs
<1>. HIDE DEF ph, w, e, more
<1>9. e \in Devs /\ e.phases = w.phases /\ e.status = "fix_planning" /\ e.round = d.round
  BY <1>1, <1>6, <1>8 DEF Devs, Keys
<1>10. Queued(e, ticked)
  BY <1>4, <1>5, <1>9, OpenLast DEF w
<1>. QED
  BY <1>10 DEF e

\* A tick more does not take back what was ticked.
LEMMA MoreTicked ==
    ASSUME NEW ticked, NEW wider, ticked \subseteq wider, NEW d, Queued(d, ticked)
    PROVE  Queued(d, wider)
<1>1. QueueBacked(d, wider)
  BY DEF Queued, QueueBacked, Backed
<1>. QED
  BY <1>1 DEF Queued

LEMMA NewDevQueued ==
    ASSUME NEW ticked
    PROVE  Queued(NewDev, ticked) /\ NewDev.cur = NoTurn
<1>1. NewDev \in Devs /\ NewDev.phases = << >> /\ NewDev.status = "planning"
  BY DEF NewDev, Devs, Keys
<1>. QED
  BY <1>1 DEF Queued, QueueFits, QueueBacked, HasOpenPhase, NewDev

-----------------------------------------------------------------------------
(* What a step may leave alone *)

\* The parts of the invariant, by the variables they speak of.
LEMMA SameDev ==
    ASSUME DevFits, UNCHANGED <<dev, commits>>
    PROVE  DevFits'
BY DEF DevFits, TickedBoxes

LEMMA SameAgents ==
    ASSUME AgentsFit, UNCHANGED <<agent, log, commits>>
    PROVE  AgentsFit'
BY DEF AgentsFit, TickedBoxes

LEMMA SameLog ==
    ASSUME LogTypeOK, UNCHANGED <<log, reports, commits>>
    PROVE  LogTypeOK'
BY DEF LogTypeOK

LEMMA SameCommits ==
    ASSUME CommitsTypeOK, UNCHANGED commits
    PROVE  CommitsTypeOK'
BY DEF CommitsTypeOK

LEMMA SameOpen ==
    ASSUME OpenFits, UNCHANGED <<open, dev, log>>
    PROVE  OpenFits'
BY DEF OpenFits, LoggedAs

\* A step of the runner or the operator that only changes where they are and
\* what the run and the stage are said to be.
LEMMA FlagsKeep ==
    ASSUME DevInv, UNCHANGED <<dev, log, reports, commits, agent, turn, base, open>>,
           StateTypeOK', pc' \in {"dead", "new", "idle", "stopping"} \cup Sending,
           SendFits', StopFits', StageFits'
    PROVE  DevInv'
<1>1. LogTypeOK' /\ CommitsTypeOK' /\ AgentTypeOK' /\ DevFits' /\ AgentsFit' /\ OpenFits'
  BY SameDev, SameAgents, SameLog, SameCommits, SameOpen
  DEF DevInv, RunFits, AgentTypeOK
<1>2. RunnerTypeOK'
  BY DEF DevInv, RunnerTypeOK
<1>. QED
  BY <1>1, <1>2 DEF DevInv, RunFits

LEMMA StutterKeeps ==
    ASSUME DevInv, UNCHANGED vars
    PROVE  DevInv'
<1>1. /\ UNCHANGED <<dev, log, reports, commits, agent, turn, base, open>>
      /\ UNCHANGED <<desired, status, stage, err, op, pc, quiet>>
  BY DEF vars, stateVars, runnerVars, history
<1>2. StateTypeOK' /\ pc' \in {"dead", "new", "idle", "stopping"} \cup Sending
  BY <1>1 DEF DevInv, StateTypeOK, RunnerTypeOK
<1>3. SendFits' /\ StopFits' /\ StageFits'
  BY <1>1 DEF DevInv, RunFits, SendFits, StopFits, StageFits, LoggedAs
<1>. QED
  BY <1>1, <1>2, <1>3, FlagsKeep

\* The runner's ticks that send nothing, and its looks at what it sends.
LEMMA RunnerFlags ==
    ASSUME DevInv,
           \/ TakeLock \/ TickStops \/ TickStopped \/ TickPaused \/ TickEnds
           \/ TickUndetermined \/ TickWaits \/ TickSeesTrouble
           \/ RunnerKilled \/ RunnerInterrupted
    PROVE  DevInv'
<1>. USE DEF stateVars, runnerVars, history, bounds
<1>1. UNCHANGED <<dev, log, reports, commits, agent, turn, base, open>>
  BY DEF TakeLock, TickStops, TickStopped, TickPaused, TickEnds, TickUndetermined,
         TickWaits, TickSeesTrouble, RunnerKilled, RunnerInterrupted
<1>2. /\ UNCHANGED <<desired, op, quiet>>
      /\ pc' \in {"dead", "idle", "stopping"}
      /\ pc' # "dead" => pc' = pc \/ pc' = "idle" \/ desired = "stopped"
  BY DEF TakeLock, TickStops, TickStopped, TickPaused, TickEnds, TickUndetermined,
         TickWaits, TickSeesTrouble, RunnerKilled, RunnerInterrupted, Proceeds, Waits,
         DispatchDue
<1>3. StateTypeOK'
  BY <1>1, <1>2
  DEF TakeLock, TickStops, TickStopped, TickPaused, TickEnds, TickUndetermined,
      TickWaits, TickSeesTrouble, RunnerKilled, RunnerInterrupted, Proceeds, Waits,
      RunStatus, Block, DevInv, StateTypeOK
<1>4. pc' \notin Sending
  BY <1>2 DEF Sending, Untyped, Failing
<1>5. SendFits' /\ StopFits'
  BY <1>2, <1>4 DEF DevInv, RunFits, SendFits, StopFits
<1>6. StageFits'
  BY <1>1 DEF TakeLock, TickStops, TickStopped, TickPaused, TickEnds, TickUndetermined,
      TickWaits, TickSeesTrouble, RunnerKilled, RunnerInterrupted, Proceeds, Waits,
      RunStatus, Block, DevInv, RunFits, StateTypeOK, StageFits
<1>. QED
  BY <1>1, <1>2, <1>3, <1>5, <1>6, FlagsKeep

LEMMA SenderFlags ==
    ASSUME DevInv, SendKnown \/ PreflightFails \/ Clear \/ Cleared
    PROVE  DevInv'
<1>. USE DEF stateVars, runnerVars, history, bounds
<1>1. /\ UNCHANGED <<dev, log, reports, commits, agent, turn, base, open>>
      /\ UNCHANGED <<desired, status, stage, err, op, quiet>>
  BY DEF SendKnown, PreflightFails, Clear, Cleared
<1>2. pc' \in {"idle", "cleared", "type"} \cup Failing
      /\ (pc' # "idle" => pc \in Sending \ {"typed"})
      /\ (pc' \in {"cleared", "type"} => pc \in Untyped)
  BY DEF SendKnown, PreflightFails, Clear, Cleared, Sending, Untyped, Failing
<1>3. StateTypeOK' /\ StageFits' /\ StopFits'
  BY <1>1 DEF DevInv, RunFits, StateTypeOK, StageFits, StopFits
<1>4. SendFits'
  BY <1>1, <1>2 DEF DevInv, RunFits, SendFits, LoggedAs, Sending, Untyped, Failing
<1>. QED
  BY <1>1, <1>2, <1>3, <1>4, FlagsKeep DEF Sending, Untyped

\* The operator's commands that leave the queue alone.
LEMMA OperatorFlags ==
    ASSUME DevInv,
           \/ Pause \/ Resume \/ StopRequest \/ StopProbe \/ StopInactive \/ StopWaits
           \/ (\E c \in Commands : Look(c)) \/ Acknowledge
    PROVE  DevInv'
<1>. USE DEF stateVars, runnerVars, history, bounds
<1>1. UNCHANGED <<dev, log, reports, commits, agent, turn, base, open, pc>>
  BY DEF Pause, Resume, StopRequest, StopProbe, StopInactive, StopWaits, Look, Acknowledge
<1>2. StateTypeOK'
  BY <1>1
  DEF Pause, Resume, StopRequest, StopProbe, StopInactive, StopWaits, Look, Acknowledge,
      DevInv, StateTypeOK
<1>3. StopFits'
  BY DEF Pause, Resume, StopRequest, StopProbe, StopInactive, StopWaits, Look, Acknowledge,
         Command, DevInv, RunFits, StopFits
<1>4. StageFits'
  BY <1>1 DEF Pause, Resume, StopRequest, StopProbe, StopInactive, StopWaits, Look,
         Acknowledge, DevInv, RunFits, StageFits, StateTypeOK
<1>5. SendFits'
  <2>. SUFFICES ASSUME pc \in Sending
                PROVE  status' \notin StopStates /\ ~quiet' /\ op' # "inactive"
    BY <1>1 DEF DevInv, RunFits, SendFits, LoggedAs
  <2>1. pc \notin {"dead", "new"} /\ status \notin StopStates /\ ~quiet /\ op # "inactive"
    BY DEF DevInv, RunFits, SendFits, Sending, Untyped, Failing
  <2>. QED
    BY <2>1 DEF Pause, Resume, StopRequest, StopProbe, StopInactive, StopWaits, Look,
         Acknowledge, RunnerActive, StopStates
<1>6. pc' \in {"dead", "new", "idle", "stopping"} \cup Sending
  BY <1>1 DEF DevInv, RunnerTypeOK
<1>. QED
  BY <1>1, <1>2, <1>3, <1>4, <1>5, <1>6, FlagsKeep

-----------------------------------------------------------------------------
(* Sending: the log and the prompts *)

\* A turn that is being sent is recorded; the log loses nothing.
LEMMA RecordedKeeps ==
    ASSUME DevInv, turn \in Turns, NEW s \in {"sending", "sent", "failed"},
           Recorded(turn, s, base), UNCHANGED <<reports, commits>>
    PROVE  /\ LogTypeOK' /\ DOMAIN log \subseteq DOMAIN log'
           /\ turn \in DOMAIN log' /\ log'[turn].status = s
           /\ \A t \in DOMAIN log : t # turn => log'[t] = log[t]
<1>. DEFINE rec == [status |-> s, base |-> base]
<1>1. base \in Nat /\ base <= Len(commits)
  BY DEF DevInv, RunnerTypeOK
<1>2. /\ log' = [u \in DOMAIN log \cup {turn} |-> IF u = turn THEN rec ELSE log[u]]
      /\ rec \in Logged /\ rec.base = base /\ rec.status = s
  BY <1>1 DEF Recorded, Logged
<1>. HIDE DEF rec
<1>3. LogTypeOK'
  BY <1>1, <1>2 DEF DevInv, LogTypeOK
<1>. QED
  BY <1>2, <1>3

\* An agent that knows more turns and more ticks fits as before.
LEMMA FitsMore ==
    ASSUME NEW a, NEW r, NEW logged, NEW ticked, Fits(a, r, logged, ticked),
           NEW more, logged \subseteq more, NEW wider, ticked \subseteq wider
    PROVE  Fits(a, r, more, wider)
BY DEF Fits

LEMMA LogKeepsAgents ==
    ASSUME AgentsFit, DOMAIN log \subseteq DOMAIN log', UNCHANGED <<agent, commits>>
    PROVE  AgentsFit'
<1>1. TickedBoxes(commits)' = TickedBoxes(commits)
  BY DEF TickedBoxes
<1>. QED
  BY <1>1, FitsMore DEF AgentsFit

\* The agent whose pane is typed to forgets what it was at.
LEMMA PromptedKeeps ==
    ASSUME DevInv, turn \in Turns, turn \in DOMAIN log', DOMAIN log \subseteq DOMAIN log',
           Prompted, UNCHANGED commits
    PROVE  AgentTypeOK' /\ AgentsFit'
<1>. DEFINE a == [at |-> "prompted", turn |-> turn]
<1>1. /\ agent \in [Roles -> Agents] /\ Role \in Roles /\ turn.task.role = Role
      /\ agent' = [agent EXCEPT ![Role] = a]
      /\ a \in Agents /\ a.at = "prompted" /\ a.turn = turn
  BY DEF DevInv, AgentTypeOK, Prompted, Role, Turns, Tasks, Agents
<1>. HIDE DEF a
<1>2. agent' \in [Roles -> Agents]
  BY <1>1
<1>3. ASSUME NEW r \in Roles
      PROVE  Fits(agent'[r], r, DOMAIN log', TickedBoxes(commits)')
  <2>1. CASE r = Role
    BY <1>1, <2>1 DEF Fits
  <2>2. CASE r # Role
    <3>1. agent'[r] = agent[r] /\ TickedBoxes(commits)' = TickedBoxes(commits)
      BY <1>1, <2>2 DEF TickedBoxes
    <3>2. Fits(agent[r], r, DOMAIN log, TickedBoxes(commits))
      BY DEF DevInv, AgentsFit
    <3>. QED
      BY <3>1, <3>2, FitsMore
  <2>. QED
    BY <2>1, <2>2
<1>. QED
  BY <1>2, <1>3 DEF AgentTypeOK, AgentsFit

\* A step of a send leaves the run, the queue and the workspace alone.
SendLeaves ==
    /\ UNCHANGED <<desired, status, stage, err, dev, op, quiet>>
    /\ UNCHANGED <<reports, commits, turn, base>>

LEMMA SendKeeps ==
    ASSUME DevInv, SendLeaves, LogTypeOK', AgentTypeOK', AgentsFit',
           pc' \in {"idle"} \cup Sending, SendFits', OpenFits'
    PROVE  DevInv'
<1>1. StateTypeOK' /\ CommitsTypeOK' /\ DevFits' /\ StopFits' /\ StageFits'
  BY SameDev, SameCommits
  DEF SendLeaves, DevInv, RunFits, StateTypeOK, StopFits, StageFits
<1>2. RunnerTypeOK'
  BY DEF SendLeaves, DevInv, RunnerTypeOK
<1>. QED
  BY <1>1, <1>2 DEF DevInv, RunFits

LEMMA SendStartsKeeps == DevInv /\ SendStarts => DevInv'
<1>. SUFFICES ASSUME DevInv, SendStarts PROVE DevInv'
  OBVIOUS
<1>. USE DEF stateVars, runnerVars, history, bounds
<1>1. /\ SendLeaves /\ UNCHANGED <<agent, open>> /\ pc = "send"
      /\ \/ pc' = "fail_other" /\ UNCHANGED log
         \/ pc' \in {"launch", "clear"} /\ Recorded(turn, "sending", base)
  BY DEF SendStarts, SendLeaves
<1>2. turn \in Turns /\ dev # NoDev /\ open = {}
      /\ status \notin StopStates /\ ~quiet /\ op # "inactive"
  BY <1>1 DEF DevInv, RunFits, SendFits, Sending
<1>3. OpenFits'
  BY <1>1, <1>2 DEF OpenFits
<1>4. CASE pc' = "fail_other" /\ UNCHANGED log
  <2>1. LogTypeOK' /\ AgentTypeOK' /\ AgentsFit'
    BY <1>1, <1>4, SameLog, SameAgents DEF DevInv, SendLeaves, AgentTypeOK
  <2>2. SendFits'
    BY <1>1, <1>2, <1>4 DEF SendFits, SendLeaves, Untyped
  <2>. QED
    BY <1>1, <1>3, <1>4, <2>1, <2>2, SendKeeps DEF Sending, Failing
<1>5. CASE pc' \in {"launch", "clear"} /\ Recorded(turn, "sending", base)
  <2>1. /\ LogTypeOK' /\ DOMAIN log \subseteq DOMAIN log'
        /\ turn \in DOMAIN log' /\ log'[turn].status = "sending"
    BY <1>1, <1>2, <1>5, RecordedKeeps DEF SendLeaves
  <2>2. AgentTypeOK' /\ AgentsFit'
    BY <1>1, <2>1, LogKeepsAgents DEF DevInv, SendLeaves, AgentTypeOK
  <2>3. SendFits'
    BY <1>1, <1>2, <2>1 DEF SendFits, SendLeaves, LoggedAs
  <2>. QED
    BY <1>1, <1>3, <1>5, <2>1, <2>2, <2>3, SendKeeps DEF Sending, Untyped
<1>. QED
  BY <1>1, <1>4, <1>5

\* The prompt is typed: nothing else is outstanding.
LEMMA TypesKeeps == DevInv /\ (Launch \/ TypePrompt) => DevInv'
<1>. SUFFICES ASSUME DevInv, Launch \/ TypePrompt PROVE DevInv'
  OBVIOUS
<1>. USE DEF stateVars, runnerVars, history, bounds
<1>1. /\ SendLeaves /\ UNCHANGED log /\ pc \in {"launch", "type"} /\ pc' = "typed"
      /\ Prompted /\ HandsOut
  BY DEF Launch, TypePrompt, SendLeaves
<1>2. turn \in Turns /\ dev # NoDev /\ open = {}
      /\ status \notin StopStates /\ ~quiet /\ op # "inactive"
      /\ LoggedAs(turn, {"sending"})
  BY <1>1 DEF DevInv, RunFits, SendFits, Sending, Untyped
<1>3. LogTypeOK' /\ AgentTypeOK' /\ AgentsFit'
  BY <1>1, <1>2, SameLog, PromptedKeeps DEF DevInv, SendLeaves, LoggedAs
<1>4. SendFits'
  BY <1>1, <1>2 DEF SendFits, SendLeaves, LoggedAs
<1>5. OpenFits'
  BY <1>1, <1>2 DEF OpenFits, SendLeaves, HandsOut, LoggedAs
<1>. QED
  BY <1>1, <1>3, <1>4, <1>5, SendKeeps DEF Sending

LEMMA RecordSentKeeps == DevInv /\ RecordSent => DevInv'
<1>. SUFFICES ASSUME DevInv, RecordSent PROVE DevInv'
  OBVIOUS
<1>. USE DEF stateVars, runnerVars, history, bounds
<1>1. /\ SendLeaves /\ UNCHANGED <<agent, open>> /\ pc = "typed" /\ pc' = "idle"
      /\ Recorded(turn, "sent", base)
  BY DEF RecordSent, SendLeaves
<1>2. turn \in Turns
  BY <1>1 DEF DevInv, RunFits, SendFits, Sending
<1>3. /\ LogTypeOK' /\ DOMAIN log \subseteq DOMAIN log'
      /\ turn \in DOMAIN log' /\ log'[turn].status = "sent"
      /\ \A t \in DOMAIN log : t # turn => log'[t] = log[t]
  BY <1>1, <1>2, RecordedKeeps DEF SendLeaves
<1>4. AgentTypeOK' /\ AgentsFit'
  BY <1>1, <1>3, LogKeepsAgents DEF DevInv, SendLeaves, AgentTypeOK
<1>5. SendFits'
  BY <1>1 DEF SendFits, Sending, Untyped, Failing
<1>6. OpenFits'
  BY <1>1, <1>3 DEF DevInv, RunFits, OpenFits, SendLeaves, LoggedAs
<1>. QED
  BY <1>1, <1>3, <1>4, <1>5, <1>6, SendKeeps

LEMMA SendFaultsKeep == DevInv /\ (LaunchFails \/ TypeFails) => DevInv'
<1>. SUFFICES ASSUME DevInv, LaunchFails \/ TypeFails PROVE DevInv'
  OBVIOUS
<1>. USE DEF stateVars, runnerVars, history, bounds
<1>1. /\ SendLeaves /\ UNCHANGED open /\ pc \in {"launch", "type"} /\ pc' \in Failing
      /\ Prompted \/ UNCHANGED agent
      /\ Recorded(turn, "failed", base) \/ UNCHANGED log
  BY DEF LaunchFails, TypeFails, SendLeaves, Failing
<1>2. turn \in Turns /\ dev # NoDev /\ open = {}
      /\ status \notin StopStates /\ ~quiet /\ op # "inactive"
      /\ turn \in DOMAIN log
  BY <1>1 DEF DevInv, RunFits, SendFits, Sending, Untyped, LoggedAs
<1>3. LogTypeOK' /\ DOMAIN log \subseteq DOMAIN log' /\ turn \in DOMAIN log'
  <2>1. CASE Recorded(turn, "failed", base)
    BY <1>1, <1>2, <2>1, RecordedKeeps DEF SendLeaves
  <2>2. CASE UNCHANGED log
    BY <1>1, <1>2, <2>2, SameLog DEF DevInv, SendLeaves
  <2>. QED
    BY <1>1, <2>1, <2>2
<1>4. AgentTypeOK' /\ AgentsFit'
  <2>1. CASE Prompted
    BY <1>1, <1>2, <1>3, <2>1, PromptedKeeps DEF SendLeaves
  <2>2. CASE UNCHANGED agent
    BY <1>1, <1>3, <2>2, LogKeepsAgents DEF DevInv, SendLeaves, AgentTypeOK
  <2>. QED
    BY <1>1, <2>1, <2>2
<1>5. SendFits' /\ OpenFits'
  BY <1>1, <1>2 DEF SendFits, OpenFits, SendLeaves, Failing, Untyped
<1>. QED
  BY <1>1, <1>3, <1>4, <1>5, SendKeeps DEF Sending

-----------------------------------------------------------------------------
(* The runner and a retry on the queue *)

\* While no turn is current nothing is outstanding.
LEMMA NothingOpen ==
    ASSUME DevInv, dev.cur = NoTurn
    PROVE  open = {}
BY NoTurnIsNone DEF DevInv, RunFits, OpenFits

\* The queue after the interrupted item was given back.
LEMMA GivesBack ==
    ASSUME DevInv, dev # NoDev
    PROVE  LET d == ClearTurn(ResetActive(dev)) e == ClearTurn(dev)
               ticked == TickedBoxes(commits) IN
           /\ Queued(d, ticked) /\ d.cur = NoTurn /\ TurnFits(d) /\ d # NoDev
           /\ Queued(e, ticked) /\ e.cur = NoTurn /\ TurnFits(e) /\ e # NoDev
<1>. DEFINE ticked == TickedBoxes(commits)
<1>1. Queued(dev, ticked) /\ TurnFits(dev)
  BY DEF DevInv, DevFits
<1>2. Queued(ResetActive(dev), ticked)
  BY <1>1, ResetKeeps
<1>3. \A d : Queued(d, ticked) => d # NoDev
  BY NoTurnIsNone DEF Queued
<1>. HIDE DEF ticked
<1>. QED
  BY <1>1, <1>2, <1>3, ClearKeeps DEF ticked

\* A step that changes the queue and neither the log, the agents nor the
\* workspace.
LEMMA QueueStepKeeps ==
    ASSUME DevInv, UNCHANGED <<log, reports, commits, agent>>,
           StateTypeOK', RunnerTypeOK', SendFits', StopFits', OpenFits', StageFits', DevFits'
    PROVE  DevInv'
BY SameLog, SameCommits, SameAgents DEF DevInv, RunFits, AgentTypeOK

LEMMA RecoverKeeps == DevInv /\ Recover => DevInv'
<1>. SUFFICES ASSUME DevInv, Recover PROVE DevInv'
  OBVIOUS
<1>. DEFINE given == ClearTurn(ResetActive(dev))
<1>. USE DEF history
<1>1. /\ UNCHANGED <<desired, op, log, reports, commits, agent, turn, base, open, quiet>>
      /\ pc' = "new"
  BY DEF Recover
<1>2. \/ Block("other") /\ UNCHANGED dev /\ stage = "running"
      \/ /\ stage = "running" /\ dev.cur # NoTurn /\ LastStatus(dev.cur) \in {"none", "failed"}
         /\ dev' = given /\ UNCHANGED <<status, stage, err>>
      \/ /\ stage = "running" /\ dev.cur = NoTurn
         /\ stage' = "pending" /\ UNCHANGED <<status, err, dev>>
      \/ UNCHANGED <<status, stage, err, dev>>
  BY DEF Recover
<1>3. StopFits' /\ SendFits'
  BY <1>1 DEF DevInv, RunFits, StopFits, SendFits, Sending, Untyped, Failing
<1>4. RunnerTypeOK'
  BY <1>1 DEF DevInv, RunnerTypeOK
<1>5. CASE UNCHANGED dev
  <2>1. StateTypeOK' /\ StageFits'
    BY <1>1, <1>2, <1>5 DEF DevInv, RunFits, StateTypeOK, StageFits, Block
  <2>2. DevFits' /\ OpenFits'
    BY <1>1, <1>5, SameDev, SameOpen DEF DevInv, RunFits
  <2>. QED
    BY <1>1, <1>3, <1>4, <2>1, <2>2, QueueStepKeeps
<1>6. CASE /\ stage = "running" /\ dev.cur # NoTurn
           /\ LastStatus(dev.cur) \in {"none", "failed"}
           /\ dev' = given /\ UNCHANGED <<status, stage, err>>
  <2>1. dev # NoDev
    BY <1>6, NoTurnIsNone
  <2>2. /\ Queued(given, TickedBoxes(commits)) /\ given.cur = NoTurn /\ TurnFits(given)
        /\ given # NoDev
    BY <2>1, GivesBack
  <2>3. open = {}
    BY <1>6 DEF DevInv, RunFits, OpenFits, LoggedAs, LastStatus
  <2>. HIDE DEF given
  <2>4. StateTypeOK' /\ StageFits' /\ OpenFits'
    BY <1>1, <1>6, <2>2, <2>3
    DEF DevInv, RunFits, StateTypeOK, StageFits, OpenFits, Queued
  <2>5. DevFits'
    BY <1>1, <1>6, <2>2 DEF DevFits, TickedBoxes
  <2>. QED
    BY <1>1, <1>3, <1>4, <2>4, <2>5, QueueStepKeeps
<1>. QED
  BY <1>2, <1>5, <1>6

\* Where a dispatch starts from.
LEMMA DueFacts ==
    ASSUME DevInv, DispatchDue
    PROVE  /\ Queued(DevToRun, TickedBoxes(commits)) /\ DevToRun.cur = NoTurn
           /\ dev.cur = NoTurn /\ open = {}
           /\ desired = "running" /\ ~quiet /\ op # "inactive"
           /\ RunStatus \in {"running", "paused", "needs_user", "stopped", "blocked", "succeeded"}
           /\ RunStatus \notin StopStates
<1>1. pc = "idle" /\ desired = "running" /\ status # "needs_user"
      /\ (stage = "pending" \/ (stage = "running" /\ dev.cur = NoTurn))
  BY DEF DispatchDue, Proceeds
<1>2. dev.cur = NoTurn /\ open = {}
  BY <1>1, NothingOpen DEF DevInv, RunFits, StageFits
<1>3. Queued(DevToRun, TickedBoxes(commits)) /\ DevToRun.cur = NoTurn
  <2>1. CASE stage = "pending"
    BY <2>1, NewDevQueued DEF DevToRun
  <2>2. CASE stage = "running"
    BY <1>2, <2>2 DEF DevToRun, DevInv, RunFits, StageFits, DevFits
  <2>. QED
    BY <1>1, <2>1, <2>2
<1>4. ~quiet /\ op # "inactive"
  BY <1>1 DEF DevInv, RunFits, StopFits
<1>5. /\ RunStatus \in {"running", "paused", "needs_user", "stopped", "blocked", "succeeded"}
      /\ RunStatus \notin StopStates
  BY <1>1 DEF DevInv, RunFits, StageFits, StateTypeOK, RunStatus, StopStates
<1>. QED
  BY <1>1, <1>2, <1>3, <1>4, <1>5

LEMMA DispatchKeeps == DevInv /\ TickDispatch => DevInv'
<1>. SUFFICES ASSUME DevInv, TickDispatch PROVE DevInv'
  OBVIOUS
<1>. DEFINE task == NextTask(DevToRun)
            begun == Begin(DevToRun, task)
            t == TurnOf(begun, task)
            ticked == TickedBoxes(commits)
<1>1. /\ DispatchDue /\ task # NoTask /\ dev' = WithTurn(begun, t) /\ turn' = t
      /\ base' = Len(commits) /\ pc' = "send" /\ status' = RunStatus
      /\ stage' = "running" /\ err' = "none"
      /\ UNCHANGED <<desired, log, reports, commits, agent, op, open, quiet>>
  BY DEF TickDispatch, history
<1>2. /\ Queued(DevToRun, ticked) /\ open = {} /\ desired = "running" /\ ~quiet
      /\ op # "inactive"
      /\ status' \in {"running", "paused", "needs_user", "stopped", "blocked", "succeeded"}
      /\ status' \notin StopStates
  BY <1>1, DueFacts
<1>3. /\ Queued(begun, ticked) /\ task \in Tasks /\ AttemptOf(begun, task) \in Nat
      /\ task.role = "coordinator" =>
           /\ HasOpenPhase(begun) <=> task.round > 0
           /\ HasOpenPhase(begun) => begun.status = "fix_planning"
      /\ task.role = "implementer" => HasOpenPhase(begun) /\ begun.status = "active"
      /\ task.role = "reviewer" =>
           /\ HasOpenPhase(begun) /\ begun.status = "active" /\ AllComplete(LastPhase(begun))
           /\ task.box = LastPhase(begun).review.box /\ begun.round > 0
  BY <1>1, <1>2, BeginKeeps
<1>4. t \in Turns /\ t.task = task
  BY <1>3 DEF TurnOf, Turns
<1>. HIDE DEF begun, t, task
<1>5. /\ Queued(dev', ticked) /\ dev'.cur = t /\ dev'.status = begun.status
      /\ dev'.round = begun.round /\ (HasOpenPhase(dev') <=> HasOpenPhase(begun))
      /\ LastPhase(dev') = LastPhase(begun)
  BY <1>1, <1>3, <1>4, TurnKeeps
<1>6. TurnFits(dev')
  BY <1>3, <1>4, <1>5 DEF TurnFits
<1>7. dev' \in Devs /\ dev' # NoDev
  BY <1>5, NoTurnIsNone DEF Queued
<1>8. DevFits'
  BY <1>1, <1>5, <1>6 DEF DevFits, TickedBoxes
<1>9. StateTypeOK'
  BY <1>1, <1>2, <1>7 DEF DevInv, StateTypeOK
<1>10. RunnerTypeOK'
  BY <1>1, <1>4 DEF DevInv, CommitsTypeOK, RunnerTypeOK, Sending
<1>11. SendFits' /\ StopFits' /\ OpenFits' /\ StageFits'
  BY <1>1, <1>2, <1>4, <1>7
  DEF DevInv, RunFits, SendFits, StopFits, OpenFits, StageFits, StopStates, Untyped
<1>. QED
  BY <1>1, <1>8, <1>9, <1>10, <1>11, QueueStepKeeps

LEMMA NotReadyKeeps == DevInv /\ TickNotReady => DevInv'
<1>. SUFFICES ASSUME DevInv, TickNotReady PROVE DevInv'
  OBVIOUS
<1>. DEFINE task == NextTask(DevToRun)
            begun == Begin(DevToRun, task)
            ticked == TickedBoxes(commits)
<1>1. /\ DispatchDue /\ task # NoTask /\ dev' = begun /\ Block("other")
      /\ UNCHANGED <<desired, log, reports, commits, agent, op, open, quiet>>
      /\ UNCHANGED <<pc, turn, base>>
  BY DEF TickNotReady, history, runnerVars
<1>2. Queued(DevToRun, ticked) /\ DevToRun.cur = NoTurn /\ open = {} /\ pc = "idle"
  BY <1>1, DueFacts DEF DispatchDue, Proceeds
<1>3. Queued(begun, ticked) /\ begun.cur = NoTurn
  BY <1>1, <1>2, BeginKeeps
<1>. HIDE DEF begun
<1>4. dev' \in Devs /\ dev' # NoDev
  BY <1>1, <1>3, NoTurnIsNone DEF Queued
<1>5. DevFits'
  BY <1>1, <1>3 DEF DevFits, TickedBoxes, TurnFits
<1>6. StateTypeOK' /\ RunnerTypeOK'
  BY <1>1, <1>4 DEF DevInv, StateTypeOK, RunnerTypeOK, Block
<1>7. SendFits' /\ StopFits' /\ OpenFits' /\ StageFits'
  BY <1>1, <1>2, <1>4
  DEF DevInv, RunFits, SendFits, StopFits, OpenFits, StageFits, Sending, Untyped, Failing, Block
<1>. QED
  BY <1>1, <1>5, <1>6, <1>7, QueueStepKeeps

LEMMA SendFailedKeeps == DevInv /\ SendFailed => DevInv'
<1>. SUFFICES ASSUME DevInv, SendFailed PROVE DevInv'
  OBVIOUS
<1>. DEFINE given == ClearTurn(ResetActive(dev))
            cleared == ClearTurn(dev)
<1>1. /\ \/ dev' \in {given, cleared} /\ dev.cur = turn
         \/ UNCHANGED dev
      /\ \/ err' = "other" /\ UNCHANGED <<status, stage>>
         \/ \E e \in {"prompt", "other"} : Block(e)
      /\ pc \in Failing /\ pc' = "idle"
      /\ UNCHANGED <<desired, log, reports, commits, turn, base, agent, op, open, quiet>>
  BY DEF SendFailed, history, Failing
<1>2. turn \in Turns /\ dev # NoDev /\ open = {}
  BY <1>1 DEF DevInv, RunFits, SendFits, Sending, Failing
<1>3. /\ Queued(given, TickedBoxes(commits)) /\ given.cur = NoTurn /\ TurnFits(given)
      /\ Queued(cleared, TickedBoxes(commits)) /\ cleared.cur = NoTurn /\ TurnFits(cleared)
      /\ given # NoDev /\ cleared # NoDev
  BY <1>2, GivesBack
<1>. HIDE DEF given, cleared
<1>4. DevFits'
  <2>1. CASE UNCHANGED dev
    BY <1>1, <2>1, SameDev DEF DevInv
  <2>2. CASE dev' \in {given, cleared}
    BY <1>1, <1>3, <2>2 DEF DevFits, TickedBoxes
  <2>. QED
    BY <1>1, <2>1, <2>2
<1>5. StateTypeOK'
  BY <1>1, <1>3 DEF DevInv, StateTypeOK, Queued, Block
<1>6. RunnerTypeOK'
  BY <1>1 DEF DevInv, RunnerTypeOK
<1>7. StageFits'
  BY <1>1, <1>2, <1>3, NoTurnIsNone DEF DevInv, RunFits, StageFits, Block
<1>8. SendFits' /\ StopFits' /\ OpenFits'
  BY <1>1, <1>2 DEF DevInv, RunFits, SendFits, StopFits, OpenFits, Sending, Untyped, Failing
<1>. QED
  BY <1>1, <1>4, <1>5, <1>6, <1>7, <1>8, QueueStepKeeps

LEMMA RetryKeeps == DevInv /\ Retry => DevInv'
<1>. SUFFICES ASSUME DevInv, Retry PROVE DevInv'
  OBVIOUS
<1>. DEFINE given == ClearTurn(ResetActive(dev))
<1>1. /\ op = "retry" /\ op' = "none"
      /\ stage' = (IF dev = NoDev THEN "pending" ELSE "running")
      /\ dev' = (IF dev = NoDev THEN dev ELSE given)
      /\ err' = "none" /\ status' = "running" /\ open' = {}
      /\ UNCHANGED <<desired, log, reports, commits, pc, turn, base, agent, quiet>>
  BY DEF Retry
<1>2. dev # NoDev => /\ Queued(given, TickedBoxes(commits)) /\ given.cur = NoTurn
                     /\ TurnFits(given) /\ given # NoDev
  BY GivesBack
<1>. HIDE DEF given
<1>3. DevFits'
  BY <1>1, <1>2 DEF DevFits, TickedBoxes
<1>4. StateTypeOK' /\ RunnerTypeOK'
  BY <1>1, <1>2 DEF DevInv, StateTypeOK, RunnerTypeOK, Queued
<1>5. StageFits'
  BY <1>1, <1>2, NoTurnIsNone DEF StageFits
<1>6. SendFits' /\ StopFits' /\ OpenFits'
  BY <1>1, <1>2 DEF DevInv, RunFits, SendFits, StopFits, OpenFits, LoggedAs, StopStates
<1>. QED
  BY <1>1, <1>3, <1>4, <1>5, <1>6, QueueStepKeeps

-----------------------------------------------------------------------------
(* The agents *)

Reports == [at : {"done", "checked", "appended"}, turn : Turns,
            outcome : AllOutcomes, boxes : Seq(Box), keys : Keys]

\* A commit ticks and adds, and takes nothing back.
LEMMA CommitFacts ==
    ASSUME DevInv, NEW c \in Commits, IsFiniteSet(c.adds), commits' = Append(commits, c)
    PROVE  /\ CommitsTypeOK' /\ Len(commits') = Len(commits) + 1
           /\ TickedBoxes(commits) \subseteq TickedBoxes(commits')
<1>1. commits \in Seq(Commits) /\ \A i \in DOMAIN commits : IsFiniteSet(commits[i].adds)
  BY DEF DevInv, CommitsTypeOK
<1>2. /\ commits' \in Seq(Commits) /\ Len(commits') = Len(commits) + 1
      /\ Len(commits) \in Nat /\ DOMAIN commits = 1..Len(commits)
      /\ DOMAIN commits' = 1..(Len(commits) + 1)
      /\ commits'[Len(commits) + 1] = c
      /\ \A i \in DOMAIN commits : i \in DOMAIN commits' /\ commits'[i] = commits[i]
  BY <1>1
<1>3. \A i \in DOMAIN commits' : IsFiniteSet(commits'[i].adds)
  <2>1. \A i \in DOMAIN commits' : i = Len(commits) + 1 \/ i \in DOMAIN commits
    BY <1>2
  <2>. QED
    BY <1>1, <1>2, <2>1
<1>4. TickedBoxes(commits) \subseteq TickedBoxes(commits')
  BY <1>2 DEF TickedBoxes
<1>. QED
  BY <1>2, <1>3, <1>4 DEF CommitsTypeOK

\* A step of one agent: it may commit, and what it is at then fits.
LEMMA WorkKeeps ==
    ASSUME DevInv,
           UNCHANGED <<desired, status, stage, err, dev, op, log, pc, turn, base, open, quiet>>,
           reports' \subseteq DOMAIN log,
           \/ UNCHANGED commits
           \/ \E c \in Commits : IsFiniteSet(c.adds) /\ commits' = Append(commits, c),
           NEW r \in Roles, NEW a \in Agents, agent' = [agent EXCEPT ![r] = a],
           Fits(a, r, DOMAIN log, TickedBoxes(commits))
    PROVE  DevInv'
<1>1. /\ CommitsTypeOK' /\ Len(commits') >= Len(commits) /\ Len(commits') \in Nat
      /\ TickedBoxes(commits) \subseteq TickedBoxes(commits')
  <2>1. Len(commits) \in Nat
    BY DEF DevInv, CommitsTypeOK
  <2>2. CASE UNCHANGED commits
    BY <2>1, <2>2, SameCommits DEF DevInv
  <2>3. CASE \E c \in Commits : IsFiniteSet(c.adds) /\ commits' = Append(commits, c)
    BY <2>1, <2>3, CommitFacts
  <2>. QED
    BY <2>2, <2>3
<1>2. TickedBoxes(commits)' = TickedBoxes(commits')
  BY DEF TickedBoxes
<1>3. LogTypeOK'
  <2>1. \A t \in DOMAIN log : log[t].base \in Nat /\ log[t].base <= Len(commits)
    BY DEF DevInv, LogTypeOK, Logged
  <2>2. \A t \in DOMAIN log : log[t].base <= Len(commits')
    <3>1. Len(commits) \in Nat
      BY DEF DevInv, CommitsTypeOK
    <3>. QED
      BY <1>1, <2>1, <3>1
  <2>. QED
    BY <2>2 DEF DevInv, LogTypeOK
<1>4. RunnerTypeOK'
  <2>1. Len(commits) \in Nat
    BY DEF DevInv, CommitsTypeOK
  <2>. QED
    BY <1>1, <2>1 DEF DevInv, RunnerTypeOK
<1>5. DevFits'
  BY <1>1, <1>2, MoreTicked DEF DevInv, DevFits
<1>6. AgentTypeOK'
  BY DEF DevInv, AgentTypeOK
<1>7. AgentsFit'
  <2>. SUFFICES ASSUME NEW q \in Roles
                PROVE  Fits(agent'[q], q, DOMAIN log, TickedBoxes(commits'))
    BY <1>2 DEF AgentsFit
  <2>1. Fits(agent'[q], q, DOMAIN log, TickedBoxes(commits))
    BY DEF DevInv, AgentTypeOK, AgentsFit
  <2>. QED
    BY <1>1, <2>1, FitsMore
<1>8. StateTypeOK' /\ SendFits' /\ StopFits' /\ OpenFits' /\ StageFits'
  BY SameOpen
  DEF DevInv, RunFits, StateTypeOK, SendFits, StopFits, StageFits, LoggedAs
<1>. QED
  BY <1>1, <1>3, <1>4, <1>5, <1>6, <1>7, <1>8 DEF DevInv, RunFits

LEMMA AtRecord ==
    ASSUME DevInv, NEW r \in Roles, agent[r].at # "none"
    PROVE  /\ agent[r].turn \in Turns /\ agent[r].turn \in DOMAIN log
           /\ agent[r].turn.task.role = r /\ agent[r].turn.task.round \in Nat
           /\ agent[r].turn.task.box \in Box
           /\ agent[r].at # "prompted" =>
                /\ agent[r] \in Reports /\ agent[r].outcome \in OutcomesOf(r)
                /\ agent[r].outcome = "planned" => Len(agent[r].boxes) > 0
<1>1. agent[r] \in Agents /\ Fits(agent[r], r, DOMAIN log, TickedBoxes(commits))
  BY DEF DevInv, AgentTypeOK, AgentsFit
<1>2. agent[r].turn \in Turns /\ (agent[r].at # "prompted" => agent[r] \in Reports)
  BY <1>1 DEF Agents, NoWork, Reports
<1>. QED
  BY <1>1, <1>2 DEF Fits, Turns, Tasks

\* What an agent found out, before it is checked.
LEMMA FindsKeeps ==
    ASSUME DevInv, NEW r \in Roles, AgentAt(r, "prompted"),
           NEW out \in OutcomesOf(r), NEW boxes \in Seq(Box), NEW keys \in Keys,
           Done(r, out, boxes, keys), out = "planned" => Len(boxes) > 0,
           UNCHANGED <<desired, status, stage, err, dev, op, log, reports, pc, turn, base,
                       open, quiet>>,
           \/ UNCHANGED commits
           \/ \E c \in Commits : IsFiniteSet(c.adds) /\ commits' = Append(commits, c)
    PROVE  DevInv'
<1>. DEFINE a == [at |-> "done", turn |-> agent[r].turn, outcome |-> out,
                  boxes |-> boxes, keys |-> keys]
<1>1. /\ agent[r].turn \in Turns /\ agent[r].turn \in DOMAIN log
      /\ agent[r].turn.task.role = r
  BY AtRecord DEF AgentAt
<1>2. out \in AllOutcomes
  BY DEF OutcomesOf, AllOutcomes
<1>3. /\ a \in Agents /\ a.at = "done" /\ a.turn = agent[r].turn /\ a.outcome = out
      /\ a.boxes = boxes
  BY <1>1, <1>2 DEF Agents
<1>4. agent' = [agent EXCEPT ![r] = a]
  BY DEF Done, Holds
<1>. HIDE DEF a
<1>5. Fits(a, r, DOMAIN log, TickedBoxes(commits))
  BY <1>1, <1>3 DEF Fits
<1>6. reports' \subseteq DOMAIN log
  BY DEF DevInv, LogTypeOK
<1>. QED
  BY <1>3, <1>4, <1>5, <1>6, WorkKeeps

LEMMA WorksKeeps ==
    ASSUME DevInv, NEW r \in Roles, Works(r)
    PROVE  DevInv'
<1>. USE DEF stateVars, runnerVars, history
<1>1. /\ AgentAt(r, "prompted") /\ r \in {"implementer", "reviewer"}
      /\ UNCHANGED <<desired, status, stage, err, dev, op, log, reports, pc, turn, base,
                     open, quiet>>
  BY DEF Works
<1>2. PICK out \in OutcomesOf(r), keys \in Keys : Done(r, out, << >>, keys) /\ out # "planned"
  <2>1. PICK out \in Outcomes \cap (IF r = "implementer" THEN {"complete", "blocked"}
                                    ELSE {"approve", "request_changes", "blocked"}) :
             \E keys \in IF out = "request_changes" THEN FindingKeys ELSE {"none"} :
                 Done(r, out, << >>, keys)
    BY DEF Works
  <2>2. out \in OutcomesOf(r) /\ out # "planned"
    BY <1>1 DEF OutcomesOf
  <2>3. PICK keys \in Keys : Done(r, out, << >>, keys)
    BY <2>1 DEF Keys
  <2>. QED
    BY <2>2, <2>3
<1>3. \/ UNCHANGED commits
      \/ \E c \in Commits : IsFiniteSet(c.adds) /\ commits' = Append(commits, c)
  <2>1. CASE Commit({}, {Holds(r).task.box})
    <3>1. Holds(r).task.box \in Box
      BY <1>1, AtRecord DEF AgentAt, Holds
    <3>2. [adds |-> {}, ticks |-> {Holds(r).task.box}] \in Commits
      BY <3>1 DEF Commits
    <3>3. IsFiniteSet({})
      BY FS_EmptySet
    <3>. QED
      BY <2>1, <3>2, <3>3 DEF Commit
  <2>. QED
    BY <2>1 DEF Works
<1>4. << >> \in Seq(Box)
  OBVIOUS
<1>. QED
  BY <1>1, <1>2, <1>3, <1>4, FindsKeeps

\* Names are counted: the boxes that were added are finitely many.
LEMMA CountsNames ==
    ASSUME DevInv
    PROVE  /\ Cardinality(PhasesPlanned) \in Nat
           /\ \A p : NextItem(p) \in Nat
<1>. DEFINE n == Len(commits)
            adds == [i \in 1..n |-> commits[i].adds]
            F == {commits[i].adds : i \in DOMAIN commits}
<1>1. /\ n \in Nat /\ DOMAIN commits = 1..n
      /\ \A i \in 1..n : IsFiniteSet(commits[i].adds)
  BY DEF DevInv, CommitsTypeOK
<1>2. IsFiniteSet(F)
  <2>1. IsFiniteSet(1..n)
    BY <1>1, FS_Interval
  <2>2. adds \in Surjection(1..n, F)
    BY <1>1 DEF Surjection
  <2>. QED
    BY <2>1, <2>2, FS_Surjection
<1>3. IsFiniteSet(AddedBoxes(commits))
  <2>1. \A S \in F : IsFiniteSet(S)
    BY <1>1
  <2>. HIDE DEF F
  <2>2. IsFiniteSet(UNION F)
    BY <1>2, <2>1, FS_UNION
  <2>. QED
    BY <2>2 DEF AddedBoxes, F
<1>4. Cardinality(PhasesPlanned) \in Nat
  <2>. DEFINE A == AddedBoxes(commits)
              f == [b \in A |-> b[1]]
  <2>1. f \in Surjection(A, PhasesPlanned)
    BY DEF Surjection, PhasesPlanned
  <2>. HIDE DEF A, f
  <2>2. IsFiniteSet(PhasesPlanned)
    BY <1>3, <2>1, FS_Surjection DEF A
  <2>. QED
    BY <2>2, FS_CardinalityType
<1>5. ASSUME NEW p
      PROVE  NextItem(p) \in Nat
  <2>. DEFINE A == AddedBoxes(commits)
              S == {b \in A : b[1] = p}
  <2>1. S \in SUBSET A
    OBVIOUS
  <2>. HIDE DEF A, S
  <2>2. IsFiniteSet(S)
    BY <1>3, <2>1, FS_Subset DEF A
  <2>3. Cardinality(S) \in Nat
    BY <2>2, FS_CardinalityType
  <2>. QED
    BY <2>3 DEF NextItem, S, A
<1>. QED
  BY <1>4, <1>5

\* The boxes of a plan are new names, as many as were asked for.
LEMMA PlannedBoxes ==
    ASSUME NEW p \in Nat, NEW first \in Nat, NEW k \in Nat \ {0}
    PROVE  LET boxes == [i \in 1..k |-> <<p, first + i - 1>>] IN
           /\ boxes \in Seq(Box) /\ Len(boxes) > 0
           /\ IsFiniteSet({boxes[i] : i \in 1..k}) /\ {boxes[i] : i \in 1..k} \subseteq Box
<1>. DEFINE boxes == [i \in 1..k |-> <<p, first + i - 1>>]
            B == {boxes[i] : i \in 1..k}
<1>1. \A i \in 1..k : boxes[i] \in Box
  <2>. SUFFICES ASSUME NEW i \in 1..k PROVE boxes[i] \in Box
    OBVIOUS
  <2>1. first + i - 1 \in Nat
    OBVIOUS
  <2>. QED
    BY <2>1 DEF Box
<1>2. DOMAIN boxes = 1..k
  OBVIOUS
<1>. HIDE DEF boxes
<1>3. boxes \in [1..k -> Box]
  <2>1. boxes = [i \in 1..k |-> boxes[i]]
    BY DEF boxes
  <2>. QED
    BY <1>1, <1>2, <2>1
<1>4. boxes \in Seq(Box) /\ Len(boxes) = k
  BY <1>3
<1>5. IsFiniteSet(B)
  <2>1. IsFiniteSet(1..k)
    BY FS_Interval
  <2>2. boxes \in Surjection(1..k, B)
    BY <1>2, <1>3 DEF Surjection
  <2>. HIDE DEF B
  <2>. QED
    BY <2>1, <2>2, FS_Surjection
<1>6. boxes \in Seq(Box) /\ Len(boxes) > 0 /\ IsFiniteSet(B) /\ B \subseteq Box
  BY <1>1, <1>4, <1>5
<1>. QED
  BY <1>6 DEF boxes

LEMMA PlansKeeps ==
    ASSUME DevInv, NEW r \in Roles, Plans(r)
    PROVE  DevInv'
<1>. USE DEF stateVars, runnerVars, history
<1>1. /\ AgentAt(r, "prompted") /\ r = "coordinator"
      /\ UNCHANGED <<desired, status, stage, err, dev, op, log, reports, pc, turn, base,
                     open, quiet>>
  BY DEF Plans
<1>2. "none" \in Keys /\ << >> \in Seq(Box) /\ {"done", "planned"} \subseteq OutcomesOf(r)
  BY <1>1 DEF Keys, OutcomesOf
<1>3. CASE Done(r, "done", << >>, "none") /\ UNCHANGED commits
  BY <1>1, <1>2, <1>3, FindsKeeps
<1>4. ASSUME NEW k \in PlanSizes, NEW p \in Nat, NEW first \in Nat, NEW also, also \subseteq Box,
             IsFiniteSet(also),
             LET boxes == [i \in 1..k |-> <<p, first + i - 1>>] IN
             /\ Commit({boxes[i] : i \in 1..k} \cup also, {})
             /\ Done(r, "planned", boxes, "none")
      PROVE  DevInv'
  <2>. DEFINE boxes == [i \in 1..k |-> <<p, first + i - 1>>]
              B == {boxes[i] : i \in 1..k}
              c == [adds |-> B \cup also, ticks |-> {}]
  <2>1. k \in Nat \ {0}
    BY AgentDevAssumption, AgentDevStateAssumption
  <2>2. boxes \in Seq(Box) /\ Len(boxes) > 0 /\ IsFiniteSet(B) /\ B \subseteq Box
    BY <2>1, PlannedBoxes
  <2>3. commits' = Append(commits, c) /\ Done(r, "planned", boxes, "none")
    BY <1>4 DEF Commit
  <2>. HIDE DEF boxes, B
  <2>4. c \in Commits /\ IsFiniteSet(c.adds)
    BY <1>4, <2>2, FS_Union DEF Commits
  <2>. HIDE DEF c
  <2>. QED
    BY <1>1, <1>2, <2>2, <2>3, <2>4, FindsKeeps
<1>5. CASE Holds(r).task.round > 0
           /\ \E k \in PlanSizes :
                LET p == Holds(r).task.box[1]
                    boxes == [i \in 1..k |-> <<p, NextItem(p) + i - 1>>]
                IN /\ Commit({boxes[i] : i \in 1..k} \cup {}, {})
                   /\ Done(r, "planned", boxes, "none")
  <2>1. Holds(r).task.box[1] \in Nat /\ NextItem(Holds(r).task.box[1]) \in Nat
    BY <1>1, AtRecord, CountsNames DEF AgentAt, Holds, Box
  <2>2. {} \subseteq Box /\ IsFiniteSet({})
    BY FS_EmptySet
  <2>. QED
    BY <1>4, <1>5, <2>1, <2>2
<1>6. CASE \E k \in PlanSizes :
                LET p == Cardinality(PhasesPlanned) + 1
                    boxes == [i \in 1..k |-> <<p, 1 + i - 1>>]
                IN /\ Commit({boxes[i] : i \in 1..k} \cup {<<p, 0>>}, {})
                   /\ Done(r, "planned", boxes, "none")
  <2>. DEFINE p == Cardinality(PhasesPlanned) + 1
  <2>1. p \in Nat
    BY CountsNames
  <2>. HIDE DEF p
  <2>2. {<<p, 0>>} \subseteq Box /\ IsFiniteSet({<<p, 0>>}) /\ 1 \in Nat
    BY <2>1, FS_Singleton DEF Box
  <2>. QED
    BY <1>4, <1>6, <2>1, <2>2 DEF p
<1>7. \/ Done(r, "done", << >>, "none") /\ UNCHANGED commits
      \/ Holds(r).task.round > 0
           /\ \E k \in PlanSizes :
                LET p == Holds(r).task.box[1]
                    boxes == [i \in 1..k |-> <<p, NextItem(p) + i - 1>>]
                IN /\ Commit({boxes[i] : i \in 1..k} \cup {}, {})
                   /\ Done(r, "planned", boxes, "none")
      \/ \E k \in PlanSizes :
                LET p == Cardinality(PhasesPlanned) + 1
                    boxes == [i \in 1..k |-> <<p, 1 + i - 1>>]
                IN /\ Commit({boxes[i] : i \in 1..k} \cup {<<p, 0>>}, {})
                   /\ Done(r, "planned", boxes, "none")
  BY DEF Plans
<1>. QED
  BY <1>3, <1>5, <1>6, <1>7

\* A report is checked against the queue and the workspace: what it passes with
\* still holds when it is applied.
LEMMA ChecksKeeps ==
    ASSUME DevInv, NEW r \in Roles, ReportChecks(r)
    PROVE  DevInv'
<1>. USE DEF stateVars, runnerVars, history
<1>. DEFINE a == agent[r]
            c == [a EXCEPT !.at = "checked"]
<1>1. /\ a.at = "done"
      /\ UNCHANGED <<desired, status, stage, err, dev, op, log, reports, commits, pc, turn,
                     base, open, quiet>>
  BY DEF ReportChecks, AgentAt
<1>2. /\ a \in Reports /\ a.turn \in Turns /\ a.turn \in DOMAIN log /\ a.turn.task.role = r
      /\ a.turn.task.round \in Nat
      /\ a.outcome \in OutcomesOf(r) /\ (a.outcome = "planned" => Len(a.boxes) > 0)
  BY <1>1, AtRecord
<1>3. reports' \subseteq DOMAIN log
  BY <1>1 DEF DevInv, LogTypeOK
<1>4. CASE Forget(r)
  <2>1. NoWork \in Agents /\ Fits(NoWork, r, DOMAIN log, TickedBoxes(commits))
    BY DEF Agents, NoWork, Fits
  <2>. QED
    BY <1>1, <1>3, <1>4, <2>1, WorkKeeps DEF Forget
<1>5. CASE ActiveTurn(a.turn) /\ Verified(r) /\ agent' = [agent EXCEPT ![r].at = "checked"]
  <2>1. /\ c \in Agents /\ c.at = "checked" /\ c.turn = a.turn /\ c.outcome = a.outcome
        /\ c.boxes = a.boxes
    BY <1>2 DEF Reports, Agents
  <2>2. agent' = [agent EXCEPT ![r] = c]
    BY <1>5 DEF DevInv, AgentTypeOK
  <2>3. dev # NoDev /\ dev.cur = a.turn /\ dev.cur # NoTurn
    BY <1>2, <1>5, NoTurnIsNone DEF ActiveTurn
  <2>4. TurnFits(dev)
    BY <2>3 DEF DevInv, DevFits
  <2>5. ASSUME a.outcome = "done"
        PROVE  a.turn.task.round = 0
    <3>1. r = "coordinator"
      BY <1>2, <2>5 DEF OutcomesOf, Roles
    <3>2. ~HasOpenPhase(dev)
      BY <1>5, <2>5 DEF Verified, MayFinish
    <3>. QED
      BY <1>2, <2>3, <2>4, <3>1, <3>2 DEF TurnFits
  <2>6. ASSUME a.outcome \in {"complete", "approve"}
        PROVE  a.turn.task.box \in TickedBoxes(commits)
    BY <1>5, <2>6 DEF Verified, ItemCommitted, Holds
  <2>. HIDE DEF a, c
  <2>7. Fits(c, r, DOMAIN log, TickedBoxes(commits))
    BY <1>2, <2>1, <2>5, <2>6 DEF Fits
  <2>. QED
    BY <1>1, <1>3, <2>1, <2>2, <2>7, WorkKeeps
<1>. QED
  BY <1>4, <1>5 DEF ReportChecks, Holds

LEMMA AppendsKeeps ==
    ASSUME DevInv, NEW r \in Roles, ReportAppends(r)
    PROVE  DevInv'
<1>. USE DEF stateVars, runnerVars, history
<1>. DEFINE a == agent[r]
            c == [a EXCEPT !.at = "appended"]
<1>1. /\ a.at = "checked" /\ agent' = [agent EXCEPT ![r].at = "appended"]
      /\ reports' = reports \cup {a.turn}
      /\ UNCHANGED <<desired, status, stage, err, dev, op, log, commits, pc, turn,
                     base, open, quiet>>
  BY DEF ReportAppends, AgentAt, Holds
<1>2. a \in Reports /\ a.turn \in DOMAIN log /\ Fits(a, r, DOMAIN log, TickedBoxes(commits))
  BY <1>1, AtRecord DEF DevInv, AgentsFit
<1>3. reports' \subseteq DOMAIN log
  BY <1>1, <1>2 DEF DevInv, LogTypeOK
<1>4. /\ c \in Agents /\ c.at = "appended" /\ c.turn = a.turn /\ c.outcome = a.outcome
      /\ c.boxes = a.boxes
  BY <1>2 DEF Reports, Agents
<1>5. agent' = [agent EXCEPT ![r] = c]
  BY <1>1 DEF DevInv, AgentTypeOK
<1>. HIDE DEF a, c
<1>6. Fits(c, r, DOMAIN log, TickedBoxes(commits))
  BY <1>1, <1>2, <1>4 DEF Fits, a
<1>. QED
  BY <1>1, <1>3, <1>4, <1>5, <1>6, WorkKeeps

\* A reporter that was killed starts its report over.
LEMMA ReporterKilledKeeps ==
    ASSUME DevInv, NEW r \in Roles, ReporterKilled(r)
    PROVE  DevInv'
<1>. USE DEF stateVars, runnerVars, history
<1>. DEFINE a == agent[r]
            c == [a EXCEPT !.at = "done"]
<1>1. /\ a.at \in {"checked", "appended"} /\ agent' = [agent EXCEPT ![r].at = "done"]
      /\ UNCHANGED <<desired, status, stage, err, dev, op, log, reports, commits, pc, turn,
                     base, open, quiet>>
  BY DEF ReporterKilled, Busy
<1>2. a \in Reports /\ Fits(a, r, DOMAIN log, TickedBoxes(commits))
  BY <1>1, AtRecord DEF DevInv, AgentsFit
<1>3. reports' \subseteq DOMAIN log
  BY <1>1 DEF DevInv, LogTypeOK
<1>4. /\ c \in Agents /\ c.at = "done" /\ c.turn = a.turn /\ c.outcome = a.outcome
      /\ c.boxes = a.boxes
  BY <1>2 DEF Reports, Agents
<1>5. agent' = [agent EXCEPT ![r] = c]
  BY <1>1 DEF DevInv, AgentTypeOK
<1>6. Fits(c, r, DOMAIN log, TickedBoxes(commits))
  <2>. HIDE DEF c
  <2>. QED
    BY <1>1, <1>2, <1>4 DEF Fits
<1>. HIDE DEF c
<1>. QED
  BY <1>1, <1>3, <1>4, <1>5, <1>6, WorkKeeps

\* The Update of a report whose turn is the current one.
LEMMA AppliedQueue ==
    ASSUME DevInv, NEW r \in Roles, AgentAt(r, "appended"), StillCurrent(Holds(r)), Applied(r)
    PROVE  /\ Queued(dev', TickedBoxes(commits)) /\ dev'.cur = NoTurn /\ TurnFits(dev')
           /\ dev' # NoDev
           /\ agent[r].outcome = "done" => ~HasOpenPhase(dev')
<1>. DEFINE a == agent[r]
            box == a.turn.task.box
            ticked == TickedBoxes(commits)
<1>1. /\ a \in Reports /\ a.turn \in Turns /\ a.turn.task.role = r /\ a.at = "appended"
      /\ a.outcome \in OutcomesOf(r) /\ (a.outcome = "planned" => Len(a.boxes) > 0)
      /\ Fits(a, r, DOMAIN log, ticked)
  BY AtRecord DEF AgentAt, DevInv, AgentsFit
<1>2. dev # NoDev /\ dev.cur = a.turn /\ dev.cur # NoTurn
  BY <1>1, NoTurnIsNone DEF StillCurrent, Holds
<1>3. Queued(dev, ticked) /\ TurnFits(dev)
  BY <1>2 DEF DevInv, DevFits
<1>4. /\ a.outcome = "done" => a.turn.task.round = 0
      /\ a.outcome \in {"complete", "approve"} => box \in ticked
  BY <1>1 DEF Fits
<1>5. a.boxes \in Seq(Box) /\ a.keys \in Keys
  BY <1>1 DEF Reports
<1>6. 0 \in Nat /\ {"complete", "blocked"} \subseteq ItemStates /\ "blocked" # "complete"
  BY DEF ItemStates
<1>. HIDE DEF box, ticked
<1>7. \E d : Queued(d, ticked) /\ dev' = ClearTurn(d)
             /\ (a.outcome = "done" => ~HasOpenPhase(d))
  <2>1. CASE a.outcome = "done"
    <3>1. r = "coordinator"
      BY <1>1, <2>1 DEF OutcomesOf, Roles
    <3>2. ~HasOpenPhase(dev)
      BY <1>1, <1>2, <1>3, <1>4, <2>1, <3>1 DEF TurnFits
    <3>3. Queued(ApplyDone(dev), ticked) /\ ~HasOpenPhase(ApplyDone(dev))
      BY <1>3, <3>2, DoneKeeps
    <3>4. dev' = ClearTurn(ApplyDone(dev))
      BY <2>1 DEF Applied
    <3>. QED
      BY <3>3, <3>4
  <2>2. CASE a.outcome = "planned"
    <3>1. r = "coordinator"
      BY <1>1, <2>2 DEF OutcomesOf, Roles
    <3>2. HasOpenPhase(dev) => dev.status = "fix_planning"
      BY <1>1, <1>2, <1>3, <3>1 DEF TurnFits
    <3>3. Queued(ApplyPlan(dev, a.boxes), ticked)
      BY <1>1, <1>3, <1>5, <2>2, <3>2, PlanKeeps
    <3>4. dev' = ClearTurn(ApplyPlan(dev, a.boxes))
      BY <2>2 DEF Applied
    <3>. QED
      BY <2>2, <3>3, <3>4
  <2>3. CASE a.outcome = "complete"
    <3>1. r = "implementer"
      BY <1>1, <2>3 DEF OutcomesOf, Roles
    <3>2. HasOpenPhase(dev)
      BY <1>1, <1>2, <1>3, <3>1 DEF TurnFits
    <3>3. Queued(SetItem(dev, box, "complete", 0), ticked)
      BY <1>3, <1>4, <1>6, <2>3, <3>2, SetItemKeeps
    <3>4. dev' = ClearTurn(SetItem(dev, box, "complete", 0))
      BY <2>3 DEF Applied, Holds, box
    <3>. QED
      BY <2>3, <3>3, <3>4
  <2>4. CASE a.outcome = "approve"
    <3>1. r = "reviewer"
      BY <1>1, <2>4 DEF OutcomesOf, Roles
    <3>2. HasOpenPhase(dev) /\ AllComplete(LastPhase(dev))
          /\ LastPhase(dev).review.box = box
      BY <1>1, <1>2, <1>3, <3>1 DEF TurnFits, box
    <3>3. Queued(ApplyApprove(dev), ticked)
      BY <1>3, <1>4, <2>4, <3>2, ApproveKeeps
    <3>4. dev' = ClearTurn(ApplyApprove(dev))
      BY <2>4 DEF Applied
    <3>. QED
      BY <2>4, <3>3, <3>4
  <2>5. CASE a.outcome = "request_changes"
    <3>1. r = "reviewer"
      BY <1>1, <2>5 DEF OutcomesOf, Roles
    <3>2. HasOpenPhase(dev) /\ dev.round > 0
      BY <1>1, <1>2, <1>3, <3>1 DEF TurnFits
    <3>3. Queued(ApplyChanges(dev, a.keys), ticked)
      BY <1>3, <1>5, <3>2, ChangesKeeps
    <3>4. dev' = ClearTurn(ApplyChanges(dev, a.keys))
      BY <2>5 DEF Applied
    <3>. QED
      BY <2>5, <3>3, <3>4
  <2>6. CASE a.outcome = "blocked" /\ r = "implementer"
    <3>2. HasOpenPhase(dev)
      BY <1>1, <1>2, <1>3, <2>6 DEF TurnFits
    <3>3. Queued(SetItem(dev, box, "blocked", 0), ticked)
      <4>1. "blocked" \in ItemStates /\ ("blocked" = "complete" => box \in ticked)
        BY <1>6
      <4>. QED
        BY <1>3, <1>6, <3>2, <4>1, SetItemKeeps
    <3>4. dev' = ClearTurn(SetItem(dev, box, "blocked", 0))
      BY <2>6 DEF Applied, Holds, box
    <3>. QED
      BY <2>6, <3>3, <3>4
  <2>7. CASE a.outcome = "blocked" /\ r # "implementer"
    <3>1. r = "reviewer"
      BY <1>1, <2>7 DEF OutcomesOf, Roles
    <3>2. HasOpenPhase(dev)
      BY <1>1, <1>2, <1>3, <3>1 DEF TurnFits
    <3>3. Queued(SetReview(dev, "blocked", 0), ticked)
      BY <1>3, <1>6, <3>2, SetReviewKeeps
    <3>4. dev' = ClearTurn(SetReview(dev, "blocked", 0))
      BY <2>7 DEF Applied
    <3>. QED
      BY <2>7, <3>3, <3>4
  <2>. QED
    BY <1>1, <2>1, <2>2, <2>3, <2>4, <2>5, <2>6, <2>7 DEF OutcomesOf
<1>8. PICK d : Queued(d, ticked) /\ dev' = ClearTurn(d)
               /\ (a.outcome = "done" => ~HasOpenPhase(d))
  BY <1>7
<1>9. /\ Queued(dev', ticked) /\ dev'.cur = NoTurn /\ TurnFits(dev')
      /\ HasOpenPhase(dev') <=> HasOpenPhase(d)
  BY <1>8, ClearKeeps
<1>. QED
  BY <1>8, <1>9, NoTurnIsNone DEF Queued, ticked

LEMMA AppliesKeeps ==
    ASSUME DevInv, NEW r \in Roles, ReportApplies(r)
    PROVE  DevInv'
<1>1. /\ AgentAt(r, "appended") /\ Forget(r)
      /\ UNCHANGED <<desired, log, reports, commits, pc, turn, base, op, quiet>>
      /\ \/ UNCHANGED <<status, stage, err, dev, open>>
         \/ StillCurrent(Holds(r)) /\ Applied(r) /\ open' = open \ {Holds(r)}
  BY DEF ReportApplies
<1>2. LogTypeOK' /\ CommitsTypeOK' /\ RunnerTypeOK' /\ StopFits'
  BY <1>1, SameLog, SameCommits DEF DevInv, RunFits, RunnerTypeOK, StopFits
<1>3. AgentTypeOK' /\ AgentsFit'
  <2>1. NoWork \in Agents /\ \A logged, ticked : Fits(NoWork, r, logged, ticked)
    BY DEF Agents, NoWork, Fits
  <2>2. TickedBoxes(commits)' = TickedBoxes(commits)
    BY <1>1 DEF TickedBoxes
  <2>3. agent \in [Roles -> Agents] /\ agent' = [agent EXCEPT ![r] = NoWork]
    BY <1>1 DEF DevInv, AgentTypeOK, Forget
  <2>4. \A q \in Roles : agent'[q] = IF q = r THEN NoWork ELSE agent[q]
    BY <2>3
  <2>. QED
    BY <1>1, <2>1, <2>2, <2>3, <2>4 DEF DevInv, AgentTypeOK, AgentsFit
<1>4. CASE UNCHANGED <<status, stage, err, dev, open>>
  <2>1. StateTypeOK' /\ SendFits' /\ OpenFits' /\ StageFits'
    BY <1>1, <1>4, SameOpen
    DEF DevInv, RunFits, StateTypeOK, SendFits, StageFits, LoggedAs
  <2>2. DevFits'
    BY <1>1, <1>4, SameDev DEF DevInv
  <2>. QED
    BY <1>2, <1>3, <2>1, <2>2 DEF DevInv, RunFits
<1>5. CASE StillCurrent(Holds(r)) /\ Applied(r) /\ open' = open \ {Holds(r)}
  <2>1. /\ Queued(dev', TickedBoxes(commits)) /\ dev'.cur = NoTurn /\ TurnFits(dev')
        /\ dev' # NoDev
        /\ agent[r].outcome = "done" => ~HasOpenPhase(dev')
    BY <1>1, <1>5, AppliedQueue
  <2>2. open' = {}
    BY <1>5 DEF DevInv, RunFits, OpenFits, StillCurrent
  <2>3. dev.cur # NoTurn
    BY <1>1, <1>5, AtRecord, NoTurnIsNone DEF AgentAt, Holds, StillCurrent
  <2>4. DevFits'
    BY <1>1, <2>1 DEF DevFits, TickedBoxes
  <2>5. \/ agent[r].outcome = "done" /\ stage' = "succeeded" /\ err' = "none" /\ status' = "running"
        \/ err' = "none" /\ status' = "running" /\ UNCHANGED stage
        \/ \E e \in {"prompt", "other"} : Block(e)
        \/ UNCHANGED <<status, stage, err>>
    BY <1>5 DEF Applied
  <2>6. StateTypeOK'
    BY <1>1, <2>1, <2>5 DEF DevInv, StateTypeOK, Queued, Block
  <2>7. StageFits'
    BY <2>1, <2>3, <2>5 DEF DevInv, RunFits, StageFits, Block
  <2>8. SendFits' /\ OpenFits'
    BY <1>1, <2>1, <2>2, <2>5
    DEF DevInv, RunFits, SendFits, OpenFits, LoggedAs, StopStates, Block
  <2>. QED
    BY <1>2, <1>3, <2>4, <2>6, <2>7, <2>8 DEF DevInv, RunFits
<1>. QED
  BY <1>1, <1>4, <1>5

-----------------------------------------------------------------------------
(* What holds of every run *)

LEMMA StartsFit == Init => DevInv
<1>. SUFFICES ASSUME Init PROVE DevInv
  OBVIOUS
<1>1. StateTypeOK /\ RunFits
  BY NoTurnIsNone
  DEF Init, StateTypeOK, RunFits, SendFits, StopFits, OpenFits, StageFits, Sending,
      Untyped, Failing
<1>2. /\ log = << >> /\ DOMAIN log = {} /\ commits = << >> /\ reports = {}
      /\ commits \in Seq(Commits) /\ Len(commits) = 0 /\ DOMAIN commits = {}
  BY DEF Init
<1>3. LogTypeOK
  <2>1. log = [t \in DOMAIN log |-> log[t]]
    BY <1>2
  <2>. QED
    BY <1>2, <2>1 DEF LogTypeOK
<1>4. CommitsTypeOK
  BY <1>2 DEF CommitsTypeOK
<1>5. RunnerTypeOK
  BY <1>2 DEF Init, RunnerTypeOK
<1>6. AgentTypeOK /\ AgentsFit
  BY DEF Init, AgentTypeOK, Agents, AgentsFit, Fits, NoWork
<1>7. DevFits
  BY DEF Init, DevFits
<1>. QED
  BY <1>1, <1>3, <1>4, <1>5, <1>6, <1>7 DEF DevInv

LEMMA StepsFit == DevInv /\ [Next]_vars => DevInv'
<1>. SUFFICES ASSUME DevInv, [Next]_vars PROVE DevInv'
  OBVIOUS
<1>1. CASE RunnerStep
  BY <1>1, RunnerFlags, SenderFlags, SendStartsKeeps, TypesKeeps, RecordSentKeeps,
     SendFaultsKeep, DispatchKeeps, NotReadyKeeps, SendFailedKeeps
  DEF RunnerStep
<1>2. CASE AgentStep
  BY <1>2, PlansKeeps, WorksKeeps, ChecksKeeps, AppendsKeeps, AppliesKeeps
  DEF AgentStep, Reporting
<1>3. CASE Crash
  BY <1>3, RunnerFlags, ReporterKilledKeeps DEF Crash
<1>4. CASE OperatorStep
  BY <1>4, OperatorFlags, RetryKeeps DEF OperatorStep
<1>5. CASE Recover
  BY <1>5, RecoverKeeps
<1>6. CASE UNCHANGED vars
  BY <1>6, StutterKeeps
<1>. QED
  BY <1>1, <1>2, <1>3, <1>4, <1>5, <1>6 DEF Next

\* The inductive invariant: the runner, the log, the queue, the workspace and
\* what agents are about to report fit together, through kills and restarts.
THEOREM DevInvariant == Spec => []DevInv
<1>. QED
  BY StartsFit, StepsFit, PTL DEF Spec

\* Every variable stays in its type, only the last phase is open, and an agent
\* works on turns of its own role.
THEOREM DevTyped == Spec => []TypeOK
<1>1. DevInv => TypeOK
  <2>. SUFFICES ASSUME DevInv PROVE TypeOK
    OBVIOUS
  <2>1. ASSUME dev # NoDev
        PROVE  /\ dev.status \in {"planning", "active", "fix_planning", "complete"}
               /\ \A i \in DOMAIN dev.phases :
                    LET ph == dev.phases[i] IN
                    /\ ph.status \in {"active", "fix_planning", "complete"}
                    /\ i < Len(dev.phases) => ph.status = "complete"
                    /\ IsItem(ph.review) /\ \A j \in DOMAIN ph.items : IsItem(ph.items[j])
    <3>1. dev \in Devs /\ QueueFits(dev)
      BY <2>1 DEF DevInv, DevFits, Queued
    <3>2. ASSUME NEW i \in DOMAIN dev.phases
          PROVE  dev.phases[i] \in Phases
      BY <3>1 DEF Devs
    <3>3. ASSUME NEW ph \in Phases
          PROVE  /\ ph.status \in {"active", "fix_planning", "complete"}
                 /\ IsItem(ph.review) /\ \A j \in DOMAIN ph.items : IsItem(ph.items[j])
      <4>1. ph.review \in WorkItems /\ \A j \in DOMAIN ph.items : ph.items[j] \in WorkItems
        BY DEF Phases
      <4>. QED
        BY <4>1 DEF Phases, WorkItems, IsItem
    <3>. QED
      BY <3>1, <3>2, <3>3 DEF Devs, QueueFits
  <2>2. \A t \in DOMAIN log : log[t] \in Logged /\ log[t].base <= Len(commits)
    BY DEF DevInv, LogTypeOK
  <2>3. \A t \in DOMAIN log : /\ log[t].status \in {"sending", "sent", "failed"}
                              /\ log[t].base \in 0..Len(commits)
    <3>1. Len(commits) \in Nat
      BY DEF DevInv, CommitsTypeOK
    <3>. QED
      BY <2>2, <3>1 DEF Logged
  <2>4. \A r \in Roles : ~AgentAt(r, "none") => agent[r].turn.task.role = r
    BY AtRecord DEF AgentAt
  <2>. QED
    BY <2>1, <2>3, <2>4
    DEF DevInv, StateTypeOK, LogTypeOK, RunnerTypeOK, TypeOK, Sending, Untyped, Failing
<1>. QED
  BY <1>1, DevInvariant, PTL

\* Nothing passes for done that was not done and seen: a run that succeeded has
\* every phase reviewed, and what is complete was ticked in the workspace.
THEOREM DoneWasDone == Spec => []DoneIsBacked
<1>1. DevInv => SucceededMeansReviewed
  <2>. SUFFICES ASSUME DevInv, status = "succeeded"
                PROVE  \A i \in DOMAIN dev.phases :
                           dev.phases[i].status = "complete" /\ Reviewed(dev.phases[i])
    BY DEF SucceededMeansReviewed, Reviewed
  <2>1. stage = "succeeded" /\ dev # NoDev /\ ~HasOpenPhase(dev)
    BY DEF DevInv, RunFits, StageFits
  <2>2. dev \in Devs /\ QueueFits(dev)
    BY <2>1 DEF DevInv, DevFits, Queued
  <2>3. \A i \in DOMAIN dev.phases : i < Len(dev.phases) \/ i = Len(dev.phases)
    BY <2>2 DEF Devs
  <2>. QED
    BY <2>1, <2>2, <2>3 DEF QueueFits, HasOpenPhase, LastPhase
<1>2. DevInv => CompleteMeansCommitted
  BY DEF DevInv, DevFits, Queued, QueueBacked, Backed, CompleteMeansCommitted
<1>3. DevInv => DoneIsBacked
  BY <1>1, <1>2 DEF DoneIsBacked
<1>. QED
  BY <1>3, DevInvariant, PTL

\* An agent is typed to only by a launch or a prompt of a turn that is being
\* sent, or by one that failed half way.
LEMMA PromptsWhileSending ==
    ASSUME DevInv, [Next]_vars, NEW r \in Roles,
           agent'[r] # agent[r], agent'[r].at = "prompted"
    PROVE  open = {} /\ ~quiet
<1>1. agent \in [Roles -> Agents]
  BY DEF DevInv, AgentTypeOK
<1>2. CASE Launch \/ LaunchFails \/ TypePrompt \/ TypeFails
  <2>1. pc \in {"launch", "type"}
    BY <1>2 DEF Launch, LaunchFails, TypePrompt, TypeFails
  <2>. QED
    BY <2>1 DEF DevInv, RunFits, SendFits, Sending, Untyped
<1>3. CASE UNCHANGED agent
  BY <1>3
<1>4. CASE AgentStep \/ \E q \in Roles : ReporterKilled(q)
  <2>1. PICK q \in Roles : Plans(q) \/ Works(q) \/ Reporting(q) \/ ReporterKilled(q)
    BY <1>4 DEF AgentStep
  <2>2. \E a : agent' = [agent EXCEPT ![q] = a] /\ a.at # "prompted"
    <3>1. CASE Plans(q) \/ Works(q)
      <4>1. \E out, boxes, keys : Done(q, out, boxes, keys)
        BY <3>1 DEF Plans, Works
      <4>. QED
        BY <4>1 DEF Done
    <3>2. CASE ReportApplies(q) \/ (ReportChecks(q) /\ Forget(q))
      <4>1. Forget(q)
        BY <3>2 DEF ReportApplies
      <4>. QED
        BY <4>1 DEF Forget, NoWork
    <3>3. CASE \E at \in {"done", "checked", "appended"} : agent' = [agent EXCEPT ![q].at = at]
      <4>1. PICK at \in {"done", "checked", "appended"} : agent' = [agent EXCEPT ![q].at = at]
        BY <3>3
      <4>2. agent' = [agent EXCEPT ![q] = [agent[q] EXCEPT !.at = at]]
        BY <1>1, <4>1
      <4>3. [agent[q] EXCEPT !.at = at].at = at
        BY <1>1 DEF Agents, NoWork
      <4>. QED
        BY <4>2, <4>3
    <3>. QED
      BY <2>1, <3>1, <3>2, <3>3 DEF Reporting, ReportChecks, ReportAppends, ReporterKilled
  <2>3. PICK a : agent' = [agent EXCEPT ![q] = a] /\ a.at # "prompted"
    BY <2>2
  <2>4. agent'[r] = IF r = q THEN a ELSE agent[r]
    BY <1>1, <2>3
  <2>. QED
    BY <2>3, <2>4
<1>5. \/ Launch \/ LaunchFails \/ TypePrompt \/ TypeFails
      \/ UNCHANGED agent
      \/ AgentStep \/ \E q \in Roles : ReporterKilled(q)
  <2>1. CASE RunnerStep
    BY <2>1 DEF RunnerStep, TakeLock, TickStops, TickStopped, TickPaused, TickEnds,
       TickDispatch, TickNotReady, TickUndetermined, TickWaits, TickSeesTrouble, SendKnown,
       SendStarts, PreflightFails, Clear, Cleared, RecordSent, SendFailed
  <2>2. CASE Crash
    BY <2>2 DEF Crash, RunnerKilled, RunnerInterrupted
  <2>3. CASE OperatorStep
    BY <2>3 DEF OperatorStep, Pause, Resume, StopRequest, StopProbe, StopInactive, StopWaits,
       Look, Acknowledge, Retry
  <2>4. CASE Recover
    BY <2>4 DEF Recover
  <2>5. CASE UNCHANGED vars
    BY <2>5 DEF vars
  <2>. QED
    BY <2>1, <2>2, <2>3, <2>4, <2>5 DEF Next
<1>. QED
  BY <1>2, <1>3, <1>4, <1>5

\* An agent is handed a turn only while no other is outstanding and no stop was
\* reported.
THEOREM OnlyWantedTurns == Spec => TurnsAreWanted
<1>1. DevInv /\ [Next]_vars =>
          [\A r \in Roles : (agent'[r] # agent[r] /\ agent'[r].at = "prompted") => open = {}]_vars
  BY PromptsWhileSending
<1>2. DevInv /\ [Next]_vars =>
          [\A r \in Roles : (agent'[r] # agent[r] /\ agent'[r].at = "prompted") => ~quiet]_vars
  BY PromptsWhileSending
<1>3. Spec => OneTurnAtATime
  BY <1>1, DevInvariant, PTL DEF Spec, OneTurnAtATime
<1>4. Spec => StoppedStaysQuiet
  BY <1>2, DevInvariant, PTL DEF Spec, StoppedStaysQuiet
<1>. QED
  BY <1>3, <1>4 DEF TurnsAreWanted
=============================================================================
