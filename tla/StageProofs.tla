----------------------------- MODULE StageProofs -----------------------------
(***************************************************************************)
(* Proofs about WorkflowStages for any workflows, actors, faults and       *)
(* commands.  The pass over the stages (Scheduled) chooses stages whose    *)
(* agents are different, and from then on each of them has its dispatch    *)
(* and its agent to itself until its prompt was typed; the record that is  *)
(* written before keeps it from being typed again.                         *)
(* And while nothing comes out of turn, the stages that every producer     *)
(* stands on keep their place although the producers change the workspace. *)
(***************************************************************************)
EXTENDS WorkflowStages, MinMaxLemmas, FiniteSetTheorems, TLAPS

(***************************************************************************)
(* Types.                                                                  *)
(***************************************************************************)
StageIds == Nat \X Nat \X Nat
Revs == [Revisions -> Nat]
BoundRevs == UNION {[names -> Nat] : names \in SUBSET Revisions}
StageOutcomes ==
    {"none", "success", "failed", "timeout", "blocked"} \cup
    UNION {UNION {DOMAIN Pipelines[p].stages[s].outcomes : s \in DOMAIN Pipelines[p].stages} :
              p \in DOMAIN Pipelines}
StageErrors == {"none", "other", "prompt", "stale", "dependency"}
StageRecords == [status : Statuses, outcome : StageOutcomes, attempt : Nat, gen : Nat,
                 id : StageIds, bound : BoundRevs, error : StageErrors]
RunStatuses == EndStates \cup {"running", "paused", "needs_user"}
DispatchRecords == [status : {"none", "sending", "sent", "failed"}, revs : BoundRevs,
                    typed : BOOLEAN, outcome : StageOutcomes, failed : BOOLEAN,
                    refused : BOOLEAN]
AgentPlaces == {"check", "typing", "typed"}
Executions == [at : AgentPlaces \cup Results \cup {"none", "command"}, id : StageIds,
               revs : BoundRevs]

StageState(stages) == stages \in [Stages -> StageRecords]
StateTypeOK ==
    state \in [desired : {"running", "paused", "stopped"}, status : RunStatuses,
               stages : [Stages -> StageRecords], revs : Revs]
HandlingTypeOK ==
    handling # NoResult => handling \in [stage : Stages, to : StageRecords, revs : Revs,
                                         asks : BOOLEAN]
ReporterTypeOK ==
    reporter # NoReport =>
        /\ reporter \in [id : StageIds, outcome : StageOutcomes \cup {"stale"}, revs : Revs]
        /\ reporter.id[1] \in Stages
ResolverTypeOK ==
    resolver # NoAnswer =>
        resolver \in [stage : Stages, outcome : StageOutcomes \cup {"stale"}, revs : Revs]
LogTypeOK ==
    \A id \in DOMAIN log : id \in StageIds /\ id[1] \in Stages /\ log[id] \in DispatchRecords

StageTypeOK ==
    /\ pipe \in DOMAIN Pipelines /\ work \in Revs
    /\ StateTypeOK /\ LogTypeOK /\ HandlingTypeOK /\ ReporterTypeOK /\ ResolverTypeOK
    /\ agentAt \in [Actors -> StageIds]
    /\ exec \in [Stages -> Executions]
    /\ pc \in {"off", "tick", "execute", "finish", "cleanup"}

\* A stage on its way to its agent has the id of its own dispatch, and its actor to
\* itself.
OnTheWay(s) == exec[s].at \in AgentPlaces
WaysAreApart ==
    /\ \A s \in Stages : OnTheWay(s) => Config(s).type = "agent" /\ exec[s].id[1] = s
    /\ \A s, t \in Stages : OnTheWay(s) /\ OnTheWay(t) /\ s # t => Actor(s) # Actor(t)

\* What is about to be typed was not typed before, unless that failed, and goes to
\* an actor that is at nothing, if it was found so.
AboutToType ==
    \A s \in Stages :
        /\ exec[s].at \in {"typing", "typed"} => exec[s].id \in DOMAIN log
        /\ exec[s].at = "typing" =>
               /\ log[exec[s].id].status = "sending"
               /\ log[exec[s].id].typed => log[exec[s].id].failed
               /\ Actor(s) \notin LaunchedActors => agentAt[Actor(s)] = NoId

\* A dispatch that was typed is on record, as sent or being sent, or has failed.
TypedIsKnown ==
    \A id \in DOMAIN log :
        log[id].typed /\ log[id].status \notin {"sending", "sent"} => log[id].failed

StageInv == StageTypeOK /\ WaysAreApart /\ AboutToType /\ TypedIsKnown

-----------------------------------------------------------------------------
(***************************************************************************)
(* Pipelines.                                                              *)
(***************************************************************************)
LEMMA PipelineFacts ==
    ASSUME pipe \in DOMAIN Pipelines
    PROVE  /\ Cardinality(Stages) \in Nat /\ Stages = 1..Cardinality(Stages)
           /\ Pipelines[pipe].parallel \in Nat
           /\ \A s \in Stages :
                 /\ s \in Nat
                 /\ Config(s).type \in StageTypes
                 /\ Config(s).actor \in Actors \cup {"none"}
                 /\ Config(s).type = "agent" => Config(s).actor \in Actors
                 /\ Config(s).bind \subseteq Revisions /\ Config(s).produces \subseteq Revisions
                 /\ DOMAIN Config(s).outcomes \subseteq StageOutcomes
<1>1. ValidPipeline(Pipelines[pipe])
  BY PipelinesAreValid
<1>2. PICK n \in Nat \ {0} : Stages = 1..n
  BY <1>1 DEF ValidPipeline, Stages
<1>3. Cardinality(Stages) = n
  BY <1>2, FS_Interval
<1>4. ASSUME NEW s \in Stages
      PROVE  /\ s \in Nat
             /\ Config(s).type \in StageTypes
             /\ Config(s).actor \in Actors \cup {"none"}
             /\ Config(s).type = "agent" => Config(s).actor \in Actors
             /\ Config(s).bind \subseteq Revisions /\ Config(s).produces \subseteq Revisions
             /\ DOMAIN Config(s).outcomes \subseteq StageOutcomes
  <2>1. ValidStage(Pipelines[pipe], Config(s))
    BY <1>1 DEF ValidPipeline, Stages, Config
  <2>2. s \in Nat
    BY <1>2
  <2>3. DOMAIN Config(s).outcomes \subseteq StageOutcomes
    BY DEF Config, Stages, StageOutcomes
  <2>. QED
    BY <2>1, <2>2, <2>3 DEF ValidStage, ValidType
<1>. QED
  BY <1>1, <1>2, <1>3, <1>4 DEF ValidPipeline

LEMMA BoundTyped ==
    ASSUME NEW revs, NEW names \in SUBSET Revisions, \A r \in names : revs[r] \in Nat
    PROVE  Bound(revs, names) \in BoundRevs
<1>1. Bound(revs, names) \in [names -> Nat]
  BY DEF Bound
<1>. QED
  BY <1>1 DEF BoundRevs

LEMMA NothingBound == << >> \in BoundRevs
<1>1. << >> \in [{} -> Nat]
  OBVIOUS
<1>. QED
  BY <1>1 DEF BoundRevs

LEMMA StageConstants ==
    /\ NoId \in StageIds /\ NewStage \in StageRecords /\ NotSent \in DispatchRecords
    /\ Idle \in Executions
BY NothingBound
   DEF NoId, NewStage, NotSent, Idle, StageIds, StageRecords, DispatchRecords, Executions,
       StageErrors, StageOutcomes, Statuses

(***************************************************************************)
(* What becomes of a stage is again a stage.                               *)
(***************************************************************************)
LEMMA StatusTyped ==
    ASSUME NEW ss \in StageRecords, NEW status \in Statuses, NEW error \in StageErrors
    PROVE  /\ [ss EXCEPT !.status = status] \in StageRecords
           /\ [ss EXCEPT !.error = error] \in StageRecords
           /\ [ss EXCEPT !.status = status, !.error = error] \in StageRecords
BY DEF StageRecords

LEMMA Bind ==
    ASSUME NEW ss \in StageRecords, NEW bound \in BoundRevs
    PROVE  [ss EXCEPT !.bound = bound] \in StageRecords
BY DEF StageRecords

LEMMA StaleTyped ==
    ASSUME NEW ss \in StageRecords
    PROVE  /\ Outran(ss) \in StageRecords
           /\ Renewed(ss) \in StageRecords
           /\ [Renewed(ss) EXCEPT !.error = "none"] \in StageRecords
<1>. DEFINE ren == [ss EXCEPT !.status = "pending", !.gen = @ + 1, !.attempt = 0,
                              !.outcome = "none", !.id = NoId]
<1>1. ss.gen + 1 \in Nat
  BY DEF StageRecords
<1>2. /\ "pending" \in Statuses /\ "stale" \in Statuses /\ "stale" \in StageErrors
      /\ "none" \in StageErrors /\ "none" \in StageOutcomes
  BY DEF Statuses, StageErrors, StageOutcomes
<1>3. ren \in StageRecords
  BY <1>1, <1>2, StageConstants DEF StageRecords
<1>4. [ren EXCEPT !.error = "none"] \in StageRecords
  <2>. HIDE DEF ren
  <2>. QED
    BY <1>2, <1>3 DEF StageRecords
<1>. QED
  BY <1>2, <1>3, <1>4, StatusTyped DEF Renewed, Outran

LEMMA FinishedTyped ==
    ASSUME NEW ss \in StageRecords, NEW s \in Stages, NEW outcome \in StageOutcomes
    PROVE  Finished(ss, s, outcome) \in StageRecords
<1>. DEFINE to(status) == [ss EXCEPT !.outcome = outcome, !.status = status]
<1>1. \A status \in Statuses : to(status) \in StageRecords
  BY DEF StageRecords
<1>. HIDE DEF to
<1>2. /\ to("succeeded") \in StageRecords /\ to("blocked") \in StageRecords
      /\ to("pending") \in StageRecords /\ to("failed") \in StageRecords
  BY <1>1 DEF Statuses
<1>3. [to("failed") EXCEPT !.error = "other"] \in StageRecords
  BY <1>2 DEF StageRecords, StageErrors
<1>4. Finished(ss, s, outcome) \in {to("succeeded"), to("blocked"), to("pending"), to("failed"),
                                    [to("failed") EXCEPT !.error = "other"]}
  BY DEF Finished, to
<1>. QED
  BY <1>2, <1>3, <1>4

LEMMA RecoveredTyped ==
    ASSUME NEW ss \in StageRecords
    PROVE  Recovered(ss) \in StageRecords
<1>1. [ss EXCEPT !.status = "waiting_report"] \in StageRecords
  BY DEF StageRecords, Statuses
<1>2. ss.attempt \in Nat
  BY DEF StageRecords
<1>3. (IF ss.attempt > 0 THEN ss.attempt - 1 ELSE 0) \in Nat
  BY <1>2
<1>4. [ss EXCEPT !.status = "pending", !.id = NoId,
                 !.attempt = IF @ > 0 THEN @ - 1 ELSE 0] \in StageRecords
  BY <1>2, <1>3, StageConstants DEF StageRecords, Statuses
<1>. QED
  BY <1>1, <1>4 DEF Recovered

LEMMA HandledTyped ==
    ASSUME pipe \in DOMAIN Pipelines, work \in Revs, NEW ss \in StageRecords,
           NEW s \in Stages, NEW result \in Results
    PROVE  Handled(ss, s, result) \in StageRecords
<1>. DEFINE failed == [ss EXCEPT !.error = "other"]
            done == Finished(ss, s, result)
<1>1. failed \in StageRecords
  BY DEF StageRecords, StageErrors
<1>2. CASE result = "deferred"
  <2>1. failed.attempt \in Nat
    BY <1>1 DEF StageRecords
  <2>2. (IF failed.attempt > 0 THEN failed.attempt - 1 ELSE 0) \in Nat
    BY <2>1
  <2>3. [failed EXCEPT !.status = "pending", !.id = NoId,
                       !.attempt = IF @ > 0 THEN @ - 1 ELSE 0] \in StageRecords
    <3>. HIDE DEF failed
    <3>. QED
      BY <1>1, <2>2, StageConstants DEF StageRecords, Statuses
  <2>. QED
    BY <1>2, <2>3 DEF Handled
<1>3. CASE result = "prompt"
  <2>1. [ss EXCEPT !.status = "blocked", !.error = "prompt"] \in StageRecords
    BY DEF StageRecords, Statuses, StageErrors
  <2>. QED
    BY <1>3, <2>1 DEF Handled
<1>4. CASE result = "error"
  <2>1. "failed" \in StageOutcomes
    BY DEF StageOutcomes
  <2>2. Finished(failed, s, "failed") \in StageRecords
    <3>. HIDE DEF failed
    <3>. QED
      BY <1>1, <2>1, FinishedTyped
  <2>. QED
    BY <1>4, <2>2 DEF Handled
<1>5. CASE result = "ok"
  <2>1. [ss EXCEPT !.status = "waiting_report"] \in StageRecords
    BY DEF StageRecords, Statuses
  <2>. QED
    BY <1>5, <2>1 DEF Handled
<1>6. CASE result \in {"success", "failed", "timeout", "blocked"}
  <2>1. result \in StageOutcomes
    BY <1>6 DEF StageOutcomes
  <2>2. done \in StageRecords
    BY <2>1, FinishedTyped
  <2>. DEFINE names == Config(s).bind \cup Config(s).produces
  <2>3. names \in SUBSET Revisions
    BY PipelineFacts
  <2>4. Bound(work, names) \in BoundRevs
    <3>. HIDE DEF names
    <3>1. \A r \in names : work[r] \in Nat
      BY <2>3 DEF Revs
    <3>. QED
      BY <2>3, <3>1, BoundTyped
  <2>5. [done EXCEPT !.bound = Bound(work, names)] \in StageRecords
    <3>. HIDE DEF done, names
    <3>. QED
      BY <2>2, <2>4, Bind
  <2>6. Handled(ss, s, result) \in {done, [done EXCEPT !.bound = Bound(work, names)]}
    BY <1>6 DEF Handled
  <2>. QED
    BY <2>2, <2>5, <2>6
<1>. QED
  BY <1>2, <1>3, <1>4, <1>5, <1>6 DEF Results

LEMMA DriftedTyped ==
    ASSUME NEW stages \in [Stages -> StageRecords], NEW old, NEW new
    PROVE  /\ Drifted(stages, old, new) \in [Stages -> StageRecords]
           /\ Advanced(stages) \in [Stages -> StageRecords]
<1>1. Drifted(stages, old, new) \in [Stages -> StageRecords]
  <2>1. \A s \in Stages : Outran(stages[s]) \in StageRecords
    BY StaleTyped
  <2>. QED
    BY <2>1 DEF Drifted
<1>2. Advanced(stages) \in [Stages -> StageRecords]
  <2>1. \A s \in Stages : Renewed(stages[s]) \in StageRecords
    BY StaleTyped
  <2>. QED
    BY <2>1 DEF Advanced
<1>. QED
  BY <1>1, <1>2

-----------------------------------------------------------------------------
(***************************************************************************)
(* The pass over the stages: what is chosen has its actor to itself.       *)
(***************************************************************************)
Plans == [stages : [Stages -> StageRecords], revs : Revs, status : RunStatuses,
          chosen : SUBSET Stages, human : BOOLEAN, busy : SUBSET Actors, room : Nat]
Apart(stages) ==
    \A s, t \in stages : Config(s).actor = Config(t).actor => s = t \/ Config(s).actor = "none"
PlanOK(a) ==
    /\ a \in Plans /\ Apart(a.chosen)
    /\ \A s \in a.chosen : Config(s).actor \in a.busy \cup {"none"}

LEMMA SkipTyped ==
    ASSUME NEW ss \in StageRecords, NEW cause \in StageErrors
    PROVE  Skip(ss, cause) \in StageRecords
BY DEF Skip, StageRecords, Statuses

LEMMA AskHumanKeeps ==
    ASSUME pipe \in DOMAIN Pipelines, NEW a, PlanOK(a), NEW s \in Stages
    PROVE  PlanOK(AskHuman(a, s))
<1>. DEFINE asked(ss) == [ss EXCEPT !.status = "waiting_human", !.attempt = @ + 1,
                                    !.bound = Bound(a.revs, Config(s).bind)]
            back(ss) == [ss EXCEPT !.status = "pending"]
            stages == [i \in Stages |-> CASE i = s -> asked(a.stages[i])
                                          [] i \in a.chosen -> back(a.stages[i])
                                          [] OTHER -> a.stages[i]]
<1>1. a \in Plans
  BY DEF PlanOK
<1>2. Bound(a.revs, Config(s).bind) \in BoundRevs
  <2>1. Config(s).bind \in SUBSET Revisions
    BY PipelineFacts
  <2>2. \A r \in Config(s).bind : a.revs[r] \in Nat
    BY <1>1, <2>1 DEF Plans, Revs
  <2>. QED
    BY <2>1, <2>2, BoundTyped
<1>3. \A ss \in StageRecords : asked(ss) \in StageRecords
  <2>1. TAKE ss \in StageRecords
  <2>2. ss.attempt + 1 \in Nat
    BY DEF StageRecords
  <2>. QED
    BY <1>2, <2>2 DEF StageRecords, Statuses
<1>4. \A ss \in StageRecords : back(ss) \in StageRecords
  BY DEF StageRecords, Statuses
<1>5. stages \in [Stages -> StageRecords]
  <2>. HIDE DEF asked, back
  <2>. QED
    BY <1>1, <1>3, <1>4 DEF Plans
<1>6. AskHuman(a, s) = [a EXCEPT !.stages = stages, !.status = "needs_user", !.chosen = {},
                                 !.human = TRUE]
  BY DEF AskHuman
<1>. HIDE DEF stages
<1>7. AskHuman(a, s) \in Plans /\ AskHuman(a, s).chosen = {}
  BY <1>1, <1>5, <1>6 DEF Plans, RunStatuses
<1>. QED
  BY <1>7 DEF PlanOK, Apart

LEMMA ChooseKeeps ==
    ASSUME pipe \in DOMAIN Pipelines, NEW a, PlanOK(a), NEW s \in Stages
    PROVE  PlanOK(Choose(a, s))
<1>1. a \in Plans /\ a.stages \in [Stages -> StageRecords] /\ a.chosen \subseteq Stages
      /\ a.busy \subseteq Actors /\ a.room \in Nat
  BY DEF PlanOK, Plans
<1>. DEFINE stages == [a.stages EXCEPT ![s] = [@ EXCEPT !.status = "runnable"]]
            actor == Config(s).actor
<1>2. stages \in [Stages -> StageRecords]
  <2>1. [a.stages[s] EXCEPT !.status = "runnable"] \in StageRecords
    BY <1>1 DEF StageRecords, Statuses
  <2>. QED
    BY <1>1, <2>1
<1>3. CASE a.room > 0 /\ actor \notin a.busy
  <2>. DEFINE b == [a EXCEPT !.stages = stages, !.chosen = @ \cup {s}, !.room = @ - 1,
                             !.busy = @ \cup ({actor} \ {"none"})]
  <2>1. Choose(a, s) = b
    BY <1>1, <1>3 DEF Choose, Plans
  <2>2. actor \in Actors \cup {"none"}
    BY PipelineFacts
  <2>3. a.room - 1 \in Nat
    BY <1>1, <1>3
  <2>4. /\ b.chosen = a.chosen \cup {s} /\ b.busy = a.busy \cup ({actor} \ {"none"})
        /\ b \in Plans
    <3>1. /\ a.chosen \cup {s} \in SUBSET Stages
          /\ a.busy \cup ({actor} \ {"none"}) \in SUBSET Actors
      BY <1>1, <2>2
    <3>. HIDE DEF stages, actor
    <3>. QED
      BY <1>1, <1>2, <2>3, <3>1 DEF Plans
  <2>. HIDE DEF b
  <2>5. Apart(b.chosen)
    <3>1. Apart(a.chosen) /\ \A t \in a.chosen : Config(t).actor \in a.busy \cup {"none"}
      BY DEF PlanOK
    <3>2. \A t \in a.chosen : Config(t).actor = actor => actor = "none"
      BY <1>3, <3>1
    <3>. QED
      BY <2>4, <3>1, <3>2 DEF Apart
  <2>6. \A t \in b.chosen : Config(t).actor \in b.busy \cup {"none"}
    BY <2>4 DEF PlanOK
  <2>. QED
    BY <2>1, <2>4, <2>5, <2>6 DEF PlanOK
<1>4. CASE ~(a.room > 0 /\ actor \notin a.busy)
  <2>1. Choose(a, s) = [a EXCEPT !.stages = stages]
    BY <1>1, <1>4 DEF Choose, Plans
  <2>. HIDE DEF stages
  <2>2. /\ Choose(a, s) \in Plans
        /\ Choose(a, s).chosen = a.chosen /\ Choose(a, s).busy = a.busy
    BY <1>1, <1>2, <2>1 DEF Plans
  <2>. QED
    BY <2>2 DEF PlanOK
<1>. QED
  BY <1>3, <1>4

LEMMA ConsiderKeeps ==
    ASSUME pipe \in DOMAIN Pipelines, NEW resting, NEW a, PlanOK(a), NEW s \in Stages
    PROVE  PlanOK(Consider(a, s, resting))
<1>1. a \in Plans /\ a.stages \in [Stages -> StageRecords] /\ a.stages[s] \in StageRecords
  BY DEF PlanOK, Plans
<1>2. ASSUME NEW cause \in StageErrors
      PROVE  PlanOK([a EXCEPT !.stages[s] = Skip(a.stages[s], cause)])
  <2>. DEFINE stages == [a.stages EXCEPT ![s] = Skip(a.stages[s], cause)]
              b == [a EXCEPT !.stages = stages]
  <2>1. [a EXCEPT !.stages[s] = Skip(a.stages[s], cause)] = b
    BY <1>1 DEF Plans
  <2>2. stages \in [Stages -> StageRecords]
    BY <1>1, SkipTyped
  <2>3. b \in Plans /\ b.chosen = a.chosen /\ b.busy = a.busy
    <3>. HIDE DEF stages
    <3>. QED
      BY <1>1, <2>2 DEF Plans
  <2>. HIDE DEF b
  <2>. QED
    BY <2>1, <2>3 DEF PlanOK
<1>3. "dependency" \in StageErrors /\ a.stages[s].error \in StageErrors
  BY <1>1 DEF StageErrors, StageRecords
<1>4. \/ Consider(a, s, resting) = a
      \/ Consider(a, s, resting) =
             [a EXCEPT !.stages[s] = Skip(a.stages[s], "dependency")]
      \/ Consider(a, s, resting) =
             [a EXCEPT !.stages[s] = Skip(a.stages[s], a.stages[s].error)]
      \/ Consider(a, s, resting) = AskHuman(a, s)
      \/ Consider(a, s, resting) = Choose(a, s)
  BY DEF Consider
<1>. QED
  BY <1>2, <1>3, <1>4, AskHumanKeeps, ChooseKeeps

FirstPlan(st) ==
    LET used == Cardinality(ActiveStages(st.stages))
        busy == {Config(s).actor : s \in ActiveStages(st.stages)} \ {"none"}
    IN  [stages |-> st.stages, revs |-> st.revs, status |-> st.status,
         chosen |-> {}, human |-> FALSE, busy |-> busy,
         room |-> IF used > Pipelines[pipe].parallel THEN 0
                  ELSE Pipelines[pipe].parallel - used]
PlansUpTo(st, resting, plans, n) ==
    plans = [s \in 0..n |-> IF s = 0 THEN FirstPlan(st) ELSE Consider(plans[s - 1], s, resting)]

LEMMA FirstPlanOK ==
    ASSUME pipe \in DOMAIN Pipelines, NEW st, st.stages \in [Stages -> StageRecords],
           st.revs \in Revs, st.status \in RunStatuses
    PROVE  PlanOK(FirstPlan(st))
<1>. DEFINE active == ActiveStages(st.stages)
            used == Cardinality(active)
            parallel == Pipelines[pipe].parallel
            busy == {Config(s).actor : s \in active} \ {"none"}
            room == IF used > parallel THEN 0 ELSE parallel - used
<1>1. active \subseteq Stages
  BY DEF ActiveStages
<1>2. used \in Nat
  <2>1. IsFiniteSet(Stages)
    BY PipelineFacts, FS_Interval
  <2>2. IsFiniteSet(active)
    BY <1>1, <2>1, FS_Subset
  <2>. QED
    BY <2>2, FS_CardinalityType
<1>3. room \in Nat
  <2>. HIDE DEF used
  <2>. QED
    BY <1>2, PipelineFacts
<1>4. busy \in SUBSET Actors
  BY <1>1, PipelineFacts
<1>5. FirstPlan(st) = [stages |-> st.stages, revs |-> st.revs, status |-> st.status,
                       chosen |-> {}, human |-> FALSE, busy |-> busy, room |-> room]
  BY DEF FirstPlan
<1>. HIDE DEF busy, room
<1>6. FirstPlan(st) \in Plans /\ FirstPlan(st).chosen = {}
  BY <1>3, <1>4, <1>5 DEF Plans
<1>. QED
  BY <1>6 DEF PlanOK, Apart

\* The recursive function of the pass exists, and each of its plans is sound: else
\* there were a first stage where it fails.
LEMMA PlansExist ==
    ASSUME NEW st, NEW resting, NEW n \in Nat
    PROVE  \E plans : PlansUpTo(st, resting, plans, n)
<1>. DEFINE Bad == {k \in Nat : ~\E plans : PlansUpTo(st, resting, plans, k)}
<1>1. ASSUME Bad # {} PROVE FALSE
  <2>. DEFINE k == Min(Bad)
  <2>1. k \in Bad /\ \A j \in Bad : k =< j
    <3>1. Bad \subseteq Nat
      OBVIOUS
    <3>. HIDE DEF Bad
    <3>. QED
      BY <1>1, <3>1, MinIn
  <2>. HIDE DEF k
  <2>2. CASE k = 0
    <3>. DEFINE plans == [s \in 0..0 |-> FirstPlan(st)]
    <3>1. PlansUpTo(st, resting, plans, 0)
      <4>1. plans = [s \in 0..0 |-> IF s = 0 THEN FirstPlan(st) 
                                               ELSE Consider(plans[s - 1], s, resting)]
        <5>1. \A s \in 0..0 : s = 0
          OBVIOUS
        <5>. QED
          BY <5>1
      <4>. QED
        BY <4>1 DEF PlansUpTo
    <3>. QED
      BY <2>1, <2>2, <3>1
  <2>3. CASE k # 0
    <3>1. k \in Nat /\ k - 1 \in Nat /\ k - 1 \notin Bad
      BY <2>1, <2>3
    <3>2. PICK before : PlansUpTo(st, resting, before, k - 1)
      BY <3>1
    <3>. DEFINE plans == [s \in 0..k |-> IF s = k THEN Consider(before[k - 1], k, resting)
                                         ELSE before[s]]
                step(s) == IF s = 0 THEN FirstPlan(st) ELSE Consider(plans[s - 1], s, resting)
    <3>3. \A s \in 0..k : plans[s] = step(s)
      <4>1. TAKE s \in 0..k
      <4>2. CASE s = k
        <5>1. plans[k - 1] = before[k - 1]
          BY <3>1
        <5>. QED
          BY <2>3, <4>2, <5>1
      <4>3. CASE s # k
        <5>1. s \in 0..(k - 1)
          BY <3>1, <4>3
        <5>2. before[s] = IF s = 0 THEN FirstPlan(st) ELSE Consider(before[s - 1], s, resting)
          BY <3>2, <5>1 DEF PlansUpTo
        <5>3. s # 0 => plans[s - 1] = before[s - 1]
          BY <3>1, <4>3
        <5>. QED
          BY <4>3, <5>2, <5>3
      <4>. QED
        BY <4>2, <4>3
    <3>4. plans = [s \in 0..k |-> step(s)]
      <4>1. plans = [s \in 0..k |-> plans[s]]
        OBVIOUS
      <4>. HIDE DEF plans, step
      <4>. QED
        BY <3>3, <4>1
    <3>5. PlansUpTo(st, resting, plans, k)
      BY <3>4 DEF PlansUpTo
    <3>. QED
      BY <2>1, <3>5
  <2>. QED
    BY <2>2, <2>3
<1>. QED
  BY <1>1

LEMMA ScheduledOK ==
    ASSUME pipe \in DOMAIN Pipelines, NEW resting, NEW st,
           st.stages \in [Stages -> StageRecords],
           st.revs \in Revs, st.status \in RunStatuses
    PROVE  PlanOK(Scheduled(st, resting))
<1>. DEFINE n == Cardinality(Stages)
            pass == CHOOSE plans : PlansUpTo(st, resting, plans, n)
<1>1. Scheduled(st, resting) = pass[n]
  BY DEF Scheduled, PlansUpTo, FirstPlan
<1>2. n \in Nat /\ Stages = 1..n
  BY PipelineFacts
<1>3. PlansUpTo(st, resting, pass, n)
  BY <1>2, PlansExist
<1>. HIDE DEF pass, n
<1>4. /\ pass[0] = FirstPlan(st)
      /\ \A s \in 1..n : pass[s] = Consider(pass[s - 1], s, resting)
  BY <1>2, <1>3 DEF PlansUpTo
<1>. DEFINE Bad == {k \in 0..n : ~PlanOK(pass[k])}
<1>5. ASSUME Bad # {} PROVE FALSE
  <2>. DEFINE k == Min(Bad)
  <2>1. k \in Bad /\ \A j \in Bad : k =< j
    <3>1. Bad \subseteq Nat
      BY <1>2
    <3>. HIDE DEF Bad
    <3>. QED
      BY <1>5, <3>1, MinIn
  <2>. HIDE DEF k
  <2>2. k # 0
    BY <1>4, <2>1, FirstPlanOK
  <2>3. k \in 1..n /\ k - 1 \in 0..n /\ k - 1 \notin Bad
    BY <1>2, <2>1, <2>2
  <2>4. PlanOK(pass[k - 1])
    BY <2>3
  <2>5. PlanOK(Consider(pass[k - 1], k, resting))
    BY <1>2, <2>3, <2>4, ConsiderKeeps
  <2>. QED
    BY <1>4, <2>1, <2>3, <2>5
<1>. QED
  BY <1>1, <1>2, <1>5

RunStates == [desired : {"running", "paused", "stopped"}, status : RunStatuses,
              stages : [Stages -> StageRecords], revs : Revs]

LEMMA TickedOK ==
    ASSUME StageTypeOK, NEW late, NEW resting
    PROVE  LET t == Ticked(late, resting) IN
           /\ t.state \in RunStates
           /\ t.chosen \subseteq Stages /\ Apart(t.chosen)
           /\ \A s \in t.chosen :
                 /\ FirstStep(t.state, s) \in Executions
                 /\ FirstStep(t.state, s).at \in AgentPlaces =>
                        Config(s).type = "agent" /\ FirstStep(t.state, s).id[1] = s
                 /\ FirstStep(t.state, s).at \notin {"typing", "typed"}
<1>. DEFINE drifted == Advanced(Drifted(state.stages, state.revs, work))
            timed == [s \in Stages |-> IF s \in late THEN Finished(drifted[s], s, "timeout")
                                                     ELSE drifted[s]]
            status == IF state.status \in {"paused", "stopped"} THEN "running"
                      ELSE state.status
            st == [state EXCEPT !.stages = timed, !.status = status, !.revs = work]
            plan == Scheduled(st, resting)
            stages == [s \in Stages |-> IF s \in plan.chosen THEN Started(plan, s)
                                        ELSE plan.stages[s]]
            after == [state EXCEPT !.status = plan.status, !.revs = work, !.stages = stages]
<1>1. state \in RunStates /\ work \in Revs /\ pipe \in DOMAIN Pipelines
  BY DEF StageTypeOK, StateTypeOK, RunStates
<1>2. drifted \in [Stages -> StageRecords]
  <2>1. state.stages \in [Stages -> StageRecords]
    BY <1>1 DEF RunStates
  <2>. QED
    BY <2>1, DriftedTyped
<1>3. timed \in [Stages -> StageRecords]
  <2>. HIDE DEF drifted
  <2>1. "timeout" \in StageOutcomes
    BY DEF StageOutcomes
  <2>2. \A s \in Stages : Finished(drifted[s], s, "timeout") \in StageRecords
    BY <1>2, <2>1, FinishedTyped
  <2>. QED
    BY <1>2, <2>2
<1>4. status \in RunStatuses
  BY <1>1 DEF RunStates, RunStatuses
<1>. HIDE DEF drifted, timed, status
<1>5. st.stages \in [Stages -> StageRecords] /\ st.revs \in Revs /\ st.status \in RunStatuses
  BY <1>1, <1>3, <1>4 DEF RunStates
<1>. HIDE DEF st
<1>6. PlanOK(plan)
  BY <1>1, <1>5, ScheduledOK
<1>. HIDE DEF plan
<1>7. /\ plan.stages \in [Stages -> StageRecords] /\ plan.chosen \subseteq Stages
      /\ plan.status \in RunStatuses /\ plan.revs \in Revs /\ Apart(plan.chosen)
  BY <1>6 DEF PlanOK, Plans
<1>8. ASSUME NEW s \in Stages
      PROVE  /\ Started(plan, s) \in StageRecords
             /\ Started(plan, s).bound = Bound(plan.revs, Config(s).bind)
             /\ Config(s).type = "agent" => Started(plan, s).id[1] = s
  <2>. DEFINE ss == plan.stages[s]
              id == IF Config(s).type = "agent" THEN <<s, ss.gen, ss.attempt + 1>> ELSE ss.id
              bound == Bound(plan.revs, Config(s).bind)
  <2>1. ss \in StageRecords /\ ss.gen \in Nat /\ ss.attempt + 1 \in Nat /\ ss.id \in StageIds
    BY <1>7 DEF StageRecords
  <2>2. id \in StageIds
    <3>1. s \in Nat
      BY <1>1, PipelineFacts
    <3>. HIDE DEF ss
    <3>. QED
      BY <2>1, <3>1 DEF StageIds
  <2>3. bound \in BoundRevs
    <3>1. Config(s).bind \in SUBSET Revisions
      BY <1>1, PipelineFacts
    <3>2. \A r \in Config(s).bind : plan.revs[r] \in Nat
      BY <1>7, <3>1 DEF Revs
    <3>. QED
      BY <3>1, <3>2, BoundTyped
  <2>4. Started(plan, s) = [ss EXCEPT !.status = "running", !.attempt = @ + 1,
                                !.error = "none", !.outcome = "none", !.bound = bound,
                                !.id = id]
    BY DEF Started
  <2>5. id = <<s, ss.gen, ss.attempt + 1>> => id[1] = s
    OBVIOUS
  <2>6. Config(s).type = "agent" => id = <<s, ss.gen, ss.attempt + 1>>
    OBVIOUS
  <2>7. "running" \in Statuses /\ "none" \in StageErrors /\ "none" \in StageOutcomes
    BY DEF Statuses, StageErrors, StageOutcomes
  <2>. HIDE DEF ss, bound, id
  <2>8. /\ Started(plan, s) \in StageRecords
        /\ Started(plan, s).bound = bound /\ Started(plan, s).id = id
    BY <2>1, <2>2, <2>3, <2>4, <2>7, ZenonT(60) DEF StageRecords
  <2>. QED
    BY <2>5, <2>6, <2>8 DEF bound
<1>9. stages \in [Stages -> StageRecords]
  BY <1>7, <1>8
<1>10. Ticked(late, resting) = [state |-> after, chosen |-> plan.chosen]
  BY DEF Ticked, plan, st, timed, status, drifted
<1>. HIDE DEF stages
<1>11. after \in RunStates /\ after.stages = stages
  BY <1>1, <1>7, <1>9 DEF RunStates
<1>. HIDE DEF after
<1>12. ASSUME NEW s \in plan.chosen
       PROVE  /\ FirstStep(after, s) \in Executions
              /\ FirstStep(after, s).at \in AgentPlaces =>
                     Config(s).type = "agent" /\ FirstStep(after, s).id[1] = s
              /\ FirstStep(after, s).at \notin {"typing", "typed"}
  <2>. DEFINE ss == after.stages[s]
              at == CASE Config(s).type = "agent" -> "check"
                      [] Config(s).type = "command" -> "command"
                      [] OTHER -> IF Holds(Config(s).gate, after) THEN "success" ELSE "blocked"
              revs == Bound(ss.bound, Inputs(s))
  <2>1. s \in Stages /\ ss = Started(plan, s) /\ ss.id \in StageIds
    BY <1>7, <1>8, <1>11 DEF stages, StageRecords
  <2>2. revs \in BoundRevs
    <3>1. Inputs(s) \subseteq Config(s).bind /\ Config(s).bind \subseteq Revisions
      BY <1>1, <2>1, PipelineFacts DEF Inputs
    <3>2. ss.bound = Bound(plan.revs, Config(s).bind)
      BY <1>8, <2>1
    <3>3. \A r \in Config(s).bind : Bound(plan.revs, Config(s).bind)[r] \in Nat
      BY <1>7, <3>1 DEF Bound, Revs
    <3>4. \A r \in Inputs(s) : ss.bound[r] \in Nat
      BY <3>1, <3>2, <3>3
    <3>. QED
      BY <3>1, <3>4, BoundTyped
  <2>3. FirstStep(after, s) = [at |-> at, id |-> ss.id, revs |-> revs]
    BY DEF FirstStep
  <2>4. at \in {"check", "command", "success", "blocked"}
        /\ (at = "check" => Config(s).type = "agent")
    OBVIOUS
  <2>5. Config(s).type = "agent" => ss.id[1] = s
    BY <1>8, <2>1
  <2>. HIDE DEF ss, at, revs
  <2>. QED
    BY <2>1, <2>2, <2>3, <2>4, <2>5 DEF Executions, AgentPlaces, Results
<1>. QED
  BY <1>7, <1>10, <1>11, <1>12

-----------------------------------------------------------------------------
(***************************************************************************)
(* The steps.                                                              *)
(***************************************************************************)
Engine == {"off", "tick", "execute", "finish", "cleanup"}

\* The types of what a step leaves alone.
LEMMA TypeKeeps ==
    ASSUME StageTypeOK, pipe' = pipe, state' \in RunStates, work' \in Revs,
           agentAt' \in [Actors -> StageIds], exec' \in [Stages -> Executions], pc' \in Engine,
           UNCHANGED log \/ LogTypeOK', UNCHANGED handling \/ HandlingTypeOK',
           UNCHANGED reporter \/ ReporterTypeOK', UNCHANGED resolver \/ ResolverTypeOK'
    PROVE  StageTypeOK'
<1>1. Stages' = Stages
  BY DEF Stages
<1>2. StateTypeOK'
  BY <1>1 DEF StateTypeOK, RunStates
<1>3. LogTypeOK' /\ HandlingTypeOK' /\ ReporterTypeOK' /\ ResolverTypeOK'
  BY <1>1 DEF StageTypeOK, LogTypeOK, HandlingTypeOK, ReporterTypeOK, ResolverTypeOK
<1>. QED
  BY <1>1, <1>2, <1>3 DEF StageTypeOK, Engine

LEMMA TypeFacts ==
    ASSUME StageTypeOK
    PROVE  /\ pipe \in DOMAIN Pipelines /\ work \in Revs
           /\ state \in RunStates /\ state.stages \in [Stages -> StageRecords]
           /\ state.status \in RunStatuses /\ state.revs \in Revs
           /\ agentAt \in [Actors -> StageIds]
           /\ exec \in [Stages -> Executions] /\ pc \in Engine
           /\ [s \in Stages |-> Idle] \in [Stages -> Executions]
BY StageConstants DEF StageTypeOK, StateTypeOK, RunStates, Engine

\* A step that types nothing, that at most frees actors and takes stages from their
\* way, and that changes of a dispatch only what was reported.
LEMMA LessKeeps ==
    ASSUME StageInv, StageTypeOK', pipe' = pipe,
           \A s \in Stages : exec'[s] = exec[s] \/ exec'[s].at \notin AgentPlaces,
           \A a \in Actors : agentAt'[a] \in {agentAt[a], NoId},
           DOMAIN log' = DOMAIN log,
           \A id \in DOMAIN log : /\ log'[id].typed = log[id].typed
                                  /\ log'[id].status = log[id].status
                                  /\ log'[id].failed = log[id].failed
    PROVE  StageInv'
<1>1. WaysAreApart /\ AboutToType /\ TypedIsKnown
  BY DEF StageInv
<1>2. pipe \in DOMAIN Pipelines
  BY DEF StageInv, StageTypeOK
<1>3. /\ Stages' = Stages
      /\ \A s : Config(s)' = Config(s) /\ Actor(s)' = Actor(s)
  BY DEF Stages, Config, Actor
<1>4. WaysAreApart'
  BY <1>1, <1>3 DEF WaysAreApart, OnTheWay
<1>5. AboutToType'
  <2>1. SUFFICES ASSUME NEW s \in Stages, exec'[s].at \in {"typing", "typed"}
                 PROVE  /\ exec'[s].id \in DOMAIN log'
                        /\ exec'[s].at = "typing" =>
                              /\ log'[exec'[s].id].status = "sending"
                              /\ log'[exec'[s].id].typed => log'[exec'[s].id].failed
                              /\ Actor(s) \notin LaunchedActors => agentAt'[Actor(s)] = NoId
    BY <1>3 DEF AboutToType
  <2>2. exec'[s] = exec[s] /\ OnTheWay(s)
    BY <2>1 DEF AgentPlaces, OnTheWay
  <2>3. Actor(s) \in Actors
    BY <1>1, <1>2, <2>2, PipelineFacts DEF WaysAreApart, Actor
  <2>. QED
    BY <1>1, <2>1, <2>2, <2>3 DEF AboutToType
<1>6. TypedIsKnown'
  BY <1>1 DEF TypedIsKnown
<1>. QED
  BY <1>4, <1>5, <1>6 DEF StageInv

\* A step of the state alone, or of what comes and goes with it.
LEMMA QuietKeeps ==
    ASSUME StageInv, pipe' = pipe, state' \in RunStates, work' \in Revs, pc' \in Engine,
           exec' = exec \/ exec' = [s \in Stages |-> Idle],
           agentAt' \in [Actors -> StageIds],
           \A a \in Actors : agentAt'[a] \in {agentAt[a], NoId}, log' = log,
           UNCHANGED handling \/ HandlingTypeOK',
           UNCHANGED reporter \/ ReporterTypeOK', UNCHANGED resolver \/ ResolverTypeOK'
    PROVE  StageInv'
<1>1. StageTypeOK
  BY DEF StageInv
<1>2. exec' \in [Stages -> Executions]
  BY <1>1, TypeFacts
<1>3. StageTypeOK'
  BY <1>1, <1>2, TypeKeeps
<1>4. \A s \in Stages : exec'[s] = exec[s] \/ exec'[s].at \notin AgentPlaces
  BY DEF Idle, AgentPlaces
<1>. QED
  BY <1>3, <1>4, LessKeeps

LEMMA CleanupFrees ==
    ASSUME agentAt \in [Actors -> StageIds], Cleanup
    PROVE  /\ agentAt' \in [Actors -> StageIds]
           /\ \A a \in Actors : agentAt'[a] \in {agentAt[a], NoId}
BY StageConstants DEF Cleanup

LEMMA StateWith ==
    ASSUME NEW st \in RunStates, NEW stages \in [Stages -> StageRecords],
           NEW status \in RunStatuses, NEW revs \in Revs
    PROVE  /\ [st EXCEPT !.status = status] \in RunStates
           /\ [st EXCEPT !.stages = stages] \in RunStates
           /\ [st EXCEPT !.stages = stages, !.status = status] \in RunStates
           /\ [st EXCEPT !.stages = stages, !.revs = revs] \in RunStates
           /\ [st EXCEPT !.stages = stages, !.revs = revs, !.status = status] \in RunStates
BY DEF RunStates

LEMMA StageWith ==
    ASSUME NEW st \in RunStates, NEW s \in Stages, NEW ss \in StageRecords,
           NEW status \in RunStatuses, NEW revs \in Revs
    PROVE  /\ [st EXCEPT !.stages[s] = ss, !.revs = revs] \in RunStates
           /\ [st EXCEPT !.stages[s] = ss, !.revs = revs, !.status = status] \in RunStates
<1>. DEFINE stages == [st.stages EXCEPT ![s] = ss]
<1>1. stages \in [Stages -> StageRecords]
  BY DEF RunStates
<1>2. /\ [st EXCEPT !.stages[s] = ss, !.revs = revs]
           = [st EXCEPT !.stages = stages, !.revs = revs]
      /\ [st EXCEPT !.stages[s] = ss, !.revs = revs, !.status = status]
           = [st EXCEPT !.stages = stages, !.revs = revs, !.status = status]
  BY DEF RunStates
<1>. HIDE DEF stages
<1>. QED
  BY <1>1, <1>2, StateWith

LEMMA StartKeeps ==
    ASSUME StageInv, Start
    PROVE  StageInv'
<1>1. StageTypeOK
  BY DEF StageInv
<1>. DEFINE stages == [s \in Stages |-> Recovered(state.stages[s])]
<1>2. stages \in [Stages -> StageRecords]
  BY <1>1, TypeFacts, RecoveredTyped
<1>3. /\ \/ state' = [state EXCEPT !.stages = stages]
         \/ state' = [state EXCEPT !.stages = stages, !.status = "needs_user"]
      /\ pc' \in {pc, "tick"}
      /\ UNCHANGED <<pipe, log, work, agentAt, exec, handling, reporter, resolver>>
  BY DEF Start, clients
<1>. HIDE DEF stages
<1>4. state' \in RunStates
  <2>1. "needs_user" \in RunStatuses
    BY DEF RunStatuses
  <2>2. state \in RunStates /\ state.revs \in Revs
    BY <1>1, TypeFacts
  <2>3. /\ [state EXCEPT !.stages = stages] \in RunStates
        /\ [state EXCEPT !.stages = stages, !.status = "needs_user"] \in RunStates
    BY <1>2, <2>1, <2>2 DEF RunStates
  <2>. QED
    BY <1>3, <2>3
<1>. QED
  BY <1>1, <1>3, <1>4, TypeFacts, QuietKeeps DEF Engine

LEMMA RunStatusTyped ==
    ASSUME StageTypeOK
    PROVE  RunStatus \in RunStatuses
<1>. DEFINE first == {s \in Stages : EndsRun(s) /\ \A i \in 1..(s - 1) : ~EndsRun(i)}
<1>1. first # {} => state.stages[CHOOSE s \in first : TRUE].status \in {"failed", "blocked"}
  BY DEF EndsRun
<1>2. \/ first # {} /\ RunStatus = state.stages[CHOOSE s \in first : TRUE].status
      \/ RunStatus \in {"succeeded", "needs_user", "running"}
  BY DEF RunStatus
<1>. HIDE DEF first
<1>. QED
  BY <1>1, <1>2 DEF RunStatuses, EndStates

LEMMA EngineKeeps ==
    ASSUME StageInv,
           TickStopped \/ TickPaused \/ FinishTick \/ CleanupActors \/ Kill \/ Interrupt
    PROVE  StageInv'
<1>1. StageTypeOK
  BY DEF StageInv
<1>2. /\ "stopped" \in RunStatuses /\ "paused" \in RunStatuses
      /\ RunStatus \in RunStatuses
  BY <1>1, RunStatusTyped DEF RunStatuses, EndStates
<1>3. /\ state' \in {state} \cup {[state EXCEPT !.status = status] : status \in RunStatuses}
      /\ UNCHANGED <<pipe, work, log, reporter, resolver>>
      /\ pc' \in {pc, "off", "tick", "cleanup"}
      /\ \/ UNCHANGED <<exec, handling>>
         \/ exec' = [s \in Stages |-> Idle] /\ handling' = NoResult
      /\ UNCHANGED agentAt \/ Cleanup
  BY <1>2, SMTT(60) DEF TickStopped, TickPaused, FinishTick, CleanupActors, Kill, Interrupt,
              RunnerEnds, clients, engineVars, bounds
<1>4. state' \in RunStates
  BY <1>1, <1>3, TypeFacts, StateWith, ZenonT(60)
<1>5. /\ agentAt' \in [Actors -> StageIds]
      /\ \A a \in Actors : agentAt'[a] \in {agentAt[a], NoId}
  BY <1>1, <1>3, TypeFacts, CleanupFrees
<1>6. UNCHANGED handling \/ HandlingTypeOK'
  BY <1>3 DEF HandlingTypeOK
<1>. QED
  BY <1>1, <1>3, <1>4, <1>5, <1>6, TypeFacts, QuietKeeps DEF Engine

\* A tick puts what it chose on its way, and nothing else is.
LEMMA TickKeeps ==
    ASSUME StageInv, NEW late, NEW resting, TickRuns(late, resting)
    PROVE  StageInv'
<1>. DEFINE t == Ticked(late, resting)
<1>1. StageTypeOK /\ TypedIsKnown
  BY DEF StageInv
<1>2. /\ state' = t.state
      /\ exec' = [s \in Stages |-> IF s \in t.chosen THEN FirstStep(t.state, s) ELSE Idle]
      /\ pc' \in {"finish", "execute"}
      /\ UNCHANGED <<pipe, log, work, agentAt, handling, reporter, resolver>>
  BY DEF TickRuns, clients
<1>. HIDE DEF t
<1>3. /\ t.state \in RunStates /\ Apart(t.chosen)
      /\ \A s \in t.chosen :
            /\ FirstStep(t.state, s) \in Executions
            /\ FirstStep(t.state, s).at \in AgentPlaces =>
                   Config(s).type = "agent" /\ FirstStep(t.state, s).id[1] = s
            /\ FirstStep(t.state, s).at \notin {"typing", "typed"}
  BY <1>1, TickedOK DEF t
<1>4. exec' \in [Stages -> Executions]
  BY <1>2, <1>3, StageConstants
<1>5. StageTypeOK'
  BY <1>1, <1>2, <1>3, <1>4, TypeFacts, TypeKeeps DEF Engine
<1>6. /\ Stages' = Stages
      /\ \A s : Config(s)' = Config(s) /\ Actor(s)' = Actor(s)
  BY <1>2 DEF Stages, Config, Actor
<1>7. ASSUME NEW s \in Stages
      PROVE  /\ exec'[s].at \in AgentPlaces =>
                   /\ s \in t.chosen /\ Config(s).type = "agent" /\ exec'[s].id[1] = s
                   /\ Config(s).actor # "none"
             /\ exec'[s].at \notin {"typing", "typed"}
  <2>1. CASE s \in t.chosen
    <3>1. exec'[s] = FirstStep(t.state, s)
      BY <1>2, <2>1
    <3>2. Config(s).type = "agent" => Config(s).actor # "none"
      BY <1>1, PipelineFacts, WorkflowStagesAssumption DEF StageTypeOK
    <3>. QED
      BY <1>3, <2>1, <3>1, <3>2
  <2>2. CASE s \notin t.chosen
    BY <1>2, <2>2 DEF Idle, AgentPlaces
  <2>. QED
    BY <2>1, <2>2
<1>8. WaysAreApart'
  <2>1. \A s, u \in Stages : exec'[s].at \in AgentPlaces /\ exec'[u].at \in AgentPlaces
                                /\ s # u => Actor(s) # Actor(u)
    BY <1>3, <1>7 DEF Apart, Actor
  <2>. QED
    BY <1>6, <1>7, <2>1 DEF WaysAreApart, OnTheWay
<1>9. AboutToType'
  BY <1>6, <1>7 DEF AboutToType
<1>10. TypedIsKnown'
  BY <1>1, <1>2 DEF TypedIsKnown
<1>. QED
  BY <1>5, <1>8, <1>9, <1>10 DEF StageInv

-----------------------------------------------------------------------------
(***************************************************************************)
(* The dispatches of a tick.                                               *)
(***************************************************************************)
LEMMA Moves ==
    ASSUME StageTypeOK, NEW s \in Stages, NEW at \in AgentPlaces \cup Results, Becomes(s, at)
    PROVE  /\ exec' \in [Stages -> Executions]
           /\ exec'[s].at = at /\ exec'[s].id = exec[s].id
           /\ \A i \in Stages : i # s => exec'[i] = exec[i]
<1>1. exec \in [Stages -> Executions] /\ exec[s] \in Executions
  BY TypeFacts
<1>2. [exec[s] EXCEPT !.at = at] \in Executions
  BY <1>1 DEF Executions
<1>3. exec' = [exec EXCEPT ![s] = [exec[s] EXCEPT !.at = at]]
  BY DEF Becomes
<1>4. /\ [exec[s] EXCEPT !.at = at].at = at
      /\ [exec[s] EXCEPT !.at = at].id = exec[s].id
  BY <1>1 DEF Executions
<1>. QED
  BY <1>1, <1>2, <1>3, <1>4

LEMMA Recorded ==
    ASSUME StageTypeOK, pipe' = pipe, NEW id \in StageIds, id[1] \in Stages,
           NEW entry \in DispatchRecords, Record(id, entry)
    PROVE  /\ LogTypeOK' /\ DOMAIN log' = DOMAIN log \cup {id} /\ log'[id] = entry
           /\ \A i \in DOMAIN log : i # id => log'[i] = log[i]
<1>1. Stages' = Stages /\ LogTypeOK
  BY DEF Stages, StageTypeOK
<1>2. /\ DOMAIN log' = DOMAIN log \cup {id} /\ log'[id] = entry
      /\ \A i \in DOMAIN log : i # id => log'[i] = log[i]
  BY DEF Record
<1>3. LogTypeOK'
  BY <1>1, <1>2 DEF LogTypeOK
<1>. QED
  BY <1>2, <1>3

\* A stage leaves the way to its agent with a result.
LEMMA ResultKeeps ==
    ASSUME StageInv, NEW s \in Stages, NEW at \in Results, Becomes(s, at),
           UNCHANGED <<log, agentAt>>, NotExec
    PROVE  StageInv'
<1>1. StageTypeOK /\ at \notin AgentPlaces
  BY DEF StageInv, Results, AgentPlaces
<1>2. /\ exec' \in [Stages -> Executions] /\ exec'[s].at = at
      /\ \A i \in Stages : i # s => exec'[i] = exec[i]
  BY <1>1, Moves
<1>3. UNCHANGED <<pipe, state, work, pc, handling, reporter, resolver, log, agentAt>>
  BY DEF NotExec, clients
<1>4. StageTypeOK'
  BY <1>1, <1>2, <1>3, TypeFacts, TypeKeeps
<1>. QED
  BY <1>1, <1>2, <1>3, <1>4, LessKeeps

\* A stage on its way goes on, with a change to its own dispatch.  The dispatches of
\* other stages and the actors they are about to type to are theirs alone.
LEMMA DispatchKeeps ==
    ASSUME StageInv, NEW s \in Stages, OnTheWay(s), NEW at \in AgentPlaces \cup Results,
           Becomes(s, at), NotExec,
           NEW entry \in DispatchRecords, Record(exec[s].id, entry),
           at = "typing" => /\ entry.status = "sending" /\ (entry.typed => entry.failed)
                            /\ Actor(s) \notin LaunchedActors => agentAt'[Actor(s)] = NoId,
           entry.typed /\ entry.status \notin {"sending", "sent"} => entry.failed,
           \/ UNCHANGED agentAt
           \/ agentAt' = [agentAt EXCEPT ![Actor(s)] = exec[s].id]
    PROVE  StageInv'
<1>1. StageTypeOK /\ WaysAreApart /\ AboutToType /\ TypedIsKnown
  BY DEF StageInv
<1>2. /\ pipe \in DOMAIN Pipelines /\ exec[s].id \in StageIds /\ exec[s].id[1] = s
      /\ Config(s).type = "agent" /\ Actor(s) \in Actors
  <2>1. pipe \in DOMAIN Pipelines /\ exec[s] \in Executions
    BY <1>1, TypeFacts
  <2>2. Config(s).type = "agent" /\ exec[s].id[1] = s
    BY <1>1 DEF WaysAreApart
  <2>. QED
    BY <2>1, <2>2, PipelineFacts DEF Executions, Actor
<1>3. /\ exec' \in [Stages -> Executions] /\ exec'[s].at = at /\ exec'[s].id = exec[s].id
      /\ \A i \in Stages : i # s => exec'[i] = exec[i]
  BY <1>1, Moves
<1>4. UNCHANGED <<pipe, state, work, pc, handling, reporter, resolver>>
  BY DEF NotExec, clients
<1>5. /\ LogTypeOK' /\ DOMAIN log' = DOMAIN log \cup {exec[s].id} /\ log'[exec[s].id] = entry
      /\ \A i \in DOMAIN log : i # exec[s].id => log'[i] = log[i]
  BY <1>1, <1>2, <1>4, Recorded
<1>6. /\ agentAt' \in [Actors -> StageIds]
      /\ \A a \in Actors : a # Actor(s) => agentAt'[a] = agentAt[a]
  BY <1>1, <1>2, TypeFacts
<1>7. StageTypeOK'
  BY <1>1, <1>3, <1>4, <1>5, <1>6, TypeFacts, TypeKeeps
<1>8. /\ Stages' = Stages
      /\ \A i : Config(i)' = Config(i) /\ Actor(i)' = Actor(i)
  BY <1>4 DEF Stages, Config, Actor
<1>9. WaysAreApart'
  <2>1. \A i \in Stages : exec'[i].at \in AgentPlaces => OnTheWay(i)
    BY <1>3 DEF OnTheWay
  <2>2. \A i \in Stages : exec'[i].id = exec[i].id
    BY <1>3
  <2>. QED
    BY <1>1, <1>8, <2>1, <2>2 DEF WaysAreApart, OnTheWay
<1>10. AboutToType'
  <2>1. SUFFICES ASSUME NEW i \in Stages, exec'[i].at \in {"typing", "typed"}
                 PROVE  /\ exec'[i].id \in DOMAIN log'
                        /\ exec'[i].at = "typing" =>
                              /\ log'[exec'[i].id].status = "sending"
                              /\ log'[exec'[i].id].typed => log'[exec'[i].id].failed
                              /\ Actor(i) \notin LaunchedActors => agentAt'[Actor(i)] = NoId
    BY <1>8 DEF AboutToType
  <2>2. CASE i = s
    BY <1>3, <1>5, <2>1, <2>2
  <2>3. CASE i # s
    <3>1. exec'[i] = exec[i] /\ OnTheWay(i)
      BY <1>3, <2>1, <2>3 DEF OnTheWay, AgentPlaces
    <3>2. exec[i].id[1] = i /\ Actor(i) # Actor(s) /\ Config(i).type = "agent"
      BY <1>1, <2>3, <3>1 DEF WaysAreApart
    <3>3. exec[i].id # exec[s].id /\ Actor(i) \in Actors
      BY <1>2, <2>3, <3>2, PipelineFacts DEF Actor
    <3>4. /\ exec[i].id \in DOMAIN log
          /\ exec[i].at = "typing" =>
                /\ log[exec[i].id].status = "sending"
                /\ log[exec[i].id].typed => log[exec[i].id].failed
                /\ Actor(i) \notin LaunchedActors => agentAt[Actor(i)] = NoId
      BY <1>1, <2>1, <3>1 DEF AboutToType
    <3>. QED
      BY <1>5, <1>6, <3>1, <3>2, <3>3, <3>4
  <2>. QED
    BY <2>2, <2>3
<1>11. TypedIsKnown'
  BY <1>1, <1>5 DEF TypedIsKnown
<1>. QED
  BY <1>7, <1>9, <1>10, <1>11 DEF StageInv

LEMMA EntryFacts ==
    ASSUME StageInv, NEW id \in StageIds
    PROVE  /\ Entry(id) \in DispatchRecords
           /\ id \in DOMAIN log => Entry(id) = log[id] /\ log[id] \in DispatchRecords
           /\ Entry(id).typed /\ Entry(id).status \notin {"sending", "sent"} => Entry(id).failed
BY StageConstants DEF Entry, StageInv, StageTypeOK, LogTypeOK, TypedIsKnown, NotSent

LEMMA CommandKeeps ==
    ASSUME StageInv, NEW s, Command(s)
    PROVE  StageInv'
<1>1. /\ s \in Stages /\ UNCHANGED <<log, agentAt>> /\ NotExec
      /\ \E at \in Results : Becomes(s, at)
  BY DEF Command, Executing, Results
<1>. QED
  BY <1>1, ResultKeeps

\* What is not on its way yet, or did not arrive, may be typed.
LEMMA CheckKeeps ==
    ASSUME StageInv, NEW s, CheckActor(s)
    PROVE  StageInv'
<1>1. /\ s \in Stages /\ exec[s].at = "check" /\ UNCHANGED agentAt /\ NotExec
  BY DEF CheckActor, Executing
<1>2. CASE \E at \in Results : Becomes(s, at) /\ UNCHANGED log
  BY <1>1, <1>2, ResultKeeps
<1>3. CASE /\ Entry(exec[s].id).status \notin {"sending", "sent"}
           /\ Actor(s) \in LaunchedActors \/ agentAt[Actor(s)] = NoId
           /\ Record(exec[s].id, [Entry(exec[s].id) EXCEPT !.status = "sending",
                                                           !.revs = exec[s].revs])
           /\ Becomes(s, "typing")
  <2>. DEFINE entry == [Entry(exec[s].id) EXCEPT !.status = "sending", !.revs = exec[s].revs]
  <2>1. exec[s].id \in StageIds /\ exec[s].revs \in BoundRevs
    BY <1>1, TypeFacts DEF StageInv, Executions
  <2>2. /\ Entry(exec[s].id) \in DispatchRecords
        /\ Entry(exec[s].id).typed => Entry(exec[s].id).failed
    BY <1>3, <2>1, EntryFacts
  <2>3. /\ entry \in DispatchRecords /\ entry.status = "sending"
        /\ entry.typed => entry.failed
    BY <2>1, <2>2 DEF DispatchRecords
  <2>4. Record(exec[s].id, entry)
    BY <1>3
  <2>. HIDE DEF entry
  <2>5. OnTheWay(s) /\ "typing" \in AgentPlaces \cup Results
    BY <1>1 DEF OnTheWay, AgentPlaces
  <2>6. Actor(s) \notin LaunchedActors => agentAt'[Actor(s)] = NoId
    BY <1>1, <1>3
  <2>. QED
    BY <1>1, <1>3, <2>3, <2>4, <2>5, <2>6, DispatchKeeps
<1>. QED
  BY <1>1, <1>2, <1>3 DEF CheckActor, Results

\* A prompt is typed, or is not: then the dispatch has failed.
LEMMA TypingKeeps ==
    ASSUME StageInv, NEW s, PasteInto(s) \/ Sent(s)
    PROVE  StageInv'
<1>1. /\ s \in Stages /\ exec[s].at \in {"typing", "typed"} /\ NotExec
  BY DEF PasteInto, Sent, Executing
<1>2. /\ OnTheWay(s) /\ exec[s].id \in DOMAIN log /\ exec[s].id \in StageIds
      /\ log[exec[s].id] \in DispatchRecords
  <2>1. OnTheWay(s) /\ exec[s].id \in DOMAIN log
    BY <1>1 DEF StageInv, AboutToType, OnTheWay, AgentPlaces
  <2>. QED
    BY <2>1 DEF StageInv, StageTypeOK, LogTypeOK
<1>. DEFINE dispatch == log[exec[s].id]
            failed == [dispatch EXCEPT !.status = "failed", !.failed = TRUE]
            typed == [dispatch EXCEPT !.typed = TRUE]
            sent == [dispatch EXCEPT !.status = "sent"]
<1>3. /\ failed \in DispatchRecords /\ failed.failed
      /\ typed \in DispatchRecords /\ typed.status = dispatch.status
      /\ typed.failed = dispatch.failed
      /\ sent \in DispatchRecords /\ sent.status = "sent"
  BY <1>2 DEF DispatchRecords
<1>4. /\ Failed(s) => Record(exec[s].id, failed)
  BY DEF Failed
<1>. HIDE DEF failed, typed, sent
<1>5. CASE \E at \in Results : Becomes(s, at) /\ Failed(s) /\ UNCHANGED agentAt
  <2>1. PICK at \in Results : Becomes(s, at) /\ Failed(s) /\ UNCHANGED agentAt
    BY <1>5
  <2>2. at # "typing" /\ at \in AgentPlaces \cup Results
    BY DEF Results
  <2>. QED
    BY <1>1, <1>2, <1>3, <1>4, <2>1, <2>2, DispatchKeeps
<1>6. CASE /\ Becomes(s, "typed") /\ Record(exec[s].id, typed)
           /\ agentAt' = [agentAt EXCEPT ![Actor(s)] = exec[s].id]
           /\ exec[s].at = "typing"
  <2>1. "typed" \in AgentPlaces \cup Results
    BY DEF AgentPlaces
  <2>2. typed.status = "sending"
    BY <1>1, <1>3, <1>6 DEF StageInv, AboutToType
  <2>. QED
    BY <1>1, <1>2, <1>3, <1>6, <2>1, <2>2, DispatchKeeps
<1>7. CASE /\ Becomes(s, "ok") /\ Record(exec[s].id, sent) /\ UNCHANGED agentAt
  <2>1. "ok" \in AgentPlaces \cup Results
    BY DEF Results
  <2>. QED
    BY <1>1, <1>2, <1>3, <1>7, <2>1, DispatchKeeps
<1>8. CASE PasteInto(s)
  <2>1. \/ /\ agentAt' = [agentAt EXCEPT ![Actor(s)] = exec[s].id]
           /\ Record(exec[s].id, typed) /\ Becomes(s, "typed") /\ exec[s].at = "typing"
        \/ Failed(s) /\ Becomes(s, "deferred") /\ UNCHANGED agentAt
        \/ Failed(s) /\ Becomes(s, "prompt") /\ UNCHANGED agentAt
        \/ Failed(s) /\ Becomes(s, "error") /\ UNCHANGED agentAt
    BY <1>8 DEF PasteInto, Executing, typed
  <2>. QED
    BY <1>5, <1>6, <2>1 DEF Results
<1>9. CASE Sent(s)
  <2>1. /\ UNCHANGED agentAt
        /\ \/ Record(exec[s].id, sent) /\ Becomes(s, "ok")
           \/ Failed(s) /\ Becomes(s, "error")
    BY <1>9 DEF Sent, sent
  <2>. QED
    BY <1>5, <1>7, <2>1 DEF Results
<1>. QED
  BY <1>8, <1>9

-----------------------------------------------------------------------------
(***************************************************************************)
(* Results, reports, answers and operators change the state alone.         *)
(***************************************************************************)
LEMMA RevsBound ==
    ASSUME pipe \in DOMAIN Pipelines, NEW s \in Stages, NEW revs \in Revs
    PROVE  Bound(revs, Config(s).bind \cup Config(s).produces) \in BoundRevs
<1>1. Config(s).bind \cup Config(s).produces \in SUBSET Revisions
  BY PipelineFacts
<1>2. \A r \in Config(s).bind \cup Config(s).produces : revs[r] \in Nat
  BY <1>1 DEF Revs
<1>. QED
  BY <1>1, <1>2, BoundTyped

LEMMA HandleKeeps ==
    ASSUME StageInv, NEW s \in Stages, Handle(s)
    PROVE  StageInv'
<1>1. StageTypeOK
  BY DEF StageInv
<1>. DEFINE ss == state.stages[s]
            to == IF InputsDrifted(ss, s, work)
                  THEN Outran(ss) ELSE Handled(ss, s, exec[s].at)
            asked == exec[s].at \notin {"deferred", "ok"} /\ state.status = "needs_user"
            asks == ~InputsDrifted(ss, s, work) /\ (exec[s].at = "prompt" \/ asked)
<1>2. /\ handling' = [stage |-> s, revs |-> work, to |-> to, asks |-> asks]
      /\ exec' = [exec EXCEPT ![s] = Idle] /\ exec[s].at \in Results
      /\ UNCHANGED <<pipe, state, log, work, agentAt, pc, reporter, resolver>>
  BY DEF Handle, clients
<1>3. to \in StageRecords
  <2>1. ss \in StageRecords
    BY <1>1, TypeFacts
  <2>. HIDE DEF ss
  <2>. QED
    BY <1>1, <1>2, <2>1, TypeFacts, StaleTyped, HandledTyped
<1>4. asks \in BOOLEAN
  BY DEF InputsDrifted
<1>. HIDE DEF to, asks
<1>5. HandlingTypeOK'
  <2>1. Stages' = Stages
    BY <1>2 DEF Stages
  <2>2. handling' \in [stage : Stages, to : StageRecords, revs : Revs, asks : BOOLEAN]
    BY <1>1, <1>2, <1>3, <1>4, TypeFacts
  <2>. QED
    BY <2>1, <2>2 DEF HandlingTypeOK
<1>6. exec' \in [Stages -> Executions]
  BY <1>1, <1>2, TypeFacts, StageConstants
<1>7. StageTypeOK'
  BY <1>1, <1>2, <1>5, <1>6, TypeFacts, TypeKeeps
<1>8. \A i \in Stages : exec'[i] = exec[i] \/ exec'[i].at \notin AgentPlaces
  BY <1>1, <1>2, TypeFacts DEF Idle, AgentPlaces
<1>. QED
  BY <1>2, <1>7, <1>8, LessKeeps

LEMMA StoreKeeps ==
    ASSUME StageInv, Store
    PROVE  StageInv'
<1>1. StageTypeOK
  BY DEF StageInv
<1>2. /\ handling # NoResult /\ handling' = NoResult
      /\ state' = [state EXCEPT !.stages[handling.stage] = handling.to,
                                !.revs = handling.revs,
                                !.status = IF handling.asks THEN "needs_user" ELSE @]
      /\ pc' \in {"finish", pc}
      /\ UNCHANGED <<pipe, log, work, agentAt, exec, reporter, resolver>>
  BY DEF Store, clients
<1>3. handling.stage \in Stages /\ handling.to \in StageRecords /\ handling.revs \in Revs
  BY <1>1, <1>2 DEF StageTypeOK, HandlingTypeOK
<1>4. state \in RunStates /\ state.status \in RunStatuses /\ "needs_user" \in RunStatuses
  BY <1>1, TypeFacts DEF RunStatuses
<1>. DEFINE status == IF handling.asks THEN "needs_user" ELSE state.status
<1>5. status \in RunStatuses
  BY <1>4
<1>6. state' = [state EXCEPT !.stages[handling.stage] = handling.to, !.revs = handling.revs,
                             !.status = status]
  BY <1>2, SMTT(60)
<1>. HIDE DEF status
<1>7. state' \in RunStates
  BY <1>3, <1>4, <1>5, <1>6, StageWith
<1>8. HandlingTypeOK'
  BY <1>2 DEF HandlingTypeOK
<1>. QED
  BY <1>1, <1>2, <1>7, <1>8, TypeFacts, QuietKeeps DEF Engine

LEMMA EditKeeps ==
    ASSUME StageInv, (\E r \in Revisions : Edit(r)) \/ \E a \in Actors : AgentEnds(a)
    PROVE  StageInv'
<1>1. StageTypeOK
  BY DEF StageInv
<1>2. /\ work' = work \/ \E r \in Revisions, v \in 0..MaxEdits : work' = [work EXCEPT ![r] = v]
      /\ agentAt' = agentAt \/ \E a \in Actors : agentAt' = [agentAt EXCEPT ![a] = NoId]
      /\ UNCHANGED <<pipe, state, log, pc, exec, handling, reporter, resolver>>
  BY DEF Edit, AgentEnds, engineVars, clients, bounds
<1>3. work' \in Revs
  BY <1>1, <1>2, TypeFacts, WorkflowStagesAssumption DEF Revs
<1>4. /\ agentAt' \in [Actors -> StageIds]
      /\ \A a \in Actors : agentAt'[a] \in {agentAt[a], NoId}
  BY <1>1, <1>2, TypeFacts, StageConstants
<1>. QED
  BY <1>1, <1>2, <1>3, <1>4, TypeFacts, QuietKeeps

LEMMA RacedPlace ==
    ASSUME StageTypeOK, Raced
    PROVE  pc' \in Engine
BY TypeFacts DEF Raced, NoRace, Engine

\* A report changes of its dispatch what it says, and of the state its stage.
LEMMA RecordedReport ==
    ASSUME StageInv, pipe' = pipe, NEW id \in DOMAIN log, NEW entry \in DispatchRecords,
           Record(id, entry), entry.typed = log[id].typed, entry.status = log[id].status,
           entry.failed = log[id].failed,
           state' \in RunStates, pc' \in Engine,
           UNCHANGED <<work, agentAt, exec, handling, resolver>>,
           UNCHANGED reporter \/ ReporterTypeOK'
    PROVE  StageInv'
<1>1. StageTypeOK
  BY DEF StageInv
<1>2. id \in StageIds /\ id[1] \in Stages
  BY <1>1 DEF StageTypeOK, LogTypeOK
<1>3. /\ LogTypeOK' /\ DOMAIN log' = DOMAIN log \cup {id} /\ log'[id] = entry
      /\ \A i \in DOMAIN log : i # id => log'[i] = log[i]
  BY <1>1, <1>2, Recorded
<1>4. StageTypeOK'
  BY <1>1, <1>3, TypeFacts, TypeKeeps
<1>. QED
  BY <1>3, <1>4, TypeFacts, LessKeeps DEF StageInv

LEMMA ReportKeeps ==
    ASSUME StageInv, AnyReport
    PROVE  StageInv'
<1>1. StageTypeOK
  BY DEF StageInv
<1>2. PICK id \in DOMAIN log : RefuseReport(id) \/ \E o \in StageAnswers : SubmitReport(id, o)
  BY DEF AnyReport
<1>3. id \in StageIds /\ id[1] \in Stages /\ log[id] \in DispatchRecords
  BY <1>1 DEF StageTypeOK, LogTypeOK
<1>4. CASE RefuseReport(id)
  <2>. DEFINE entry == [log[id] EXCEPT !.refused = TRUE]
  <2>1. /\ Record(id, entry) /\ reporter' = [id |-> id, outcome |-> "stale", revs |-> work]
        /\ UNCHANGED <<pipe, state, work, agentAt, pc, exec, handling, resolver>>
    BY <1>4 DEF RefuseReport, engineVars, bounds
  <2>2. /\ entry \in DispatchRecords /\ entry.typed = log[id].typed
        /\ entry.status = log[id].status /\ entry.failed = log[id].failed
    BY <1>3 DEF DispatchRecords
  <2>3. ReporterTypeOK'
    <3>1. Stages' = Stages
      BY <2>1 DEF Stages
    <3>. QED
      BY <1>1, <1>3, <2>1, <3>1, TypeFacts DEF ReporterTypeOK
  <2>. HIDE DEF entry
  <2>. QED
    BY <1>1, <2>1, <2>2, <2>3, TypeFacts, RecordedReport
<1>5. CASE \E o \in StageAnswers : SubmitReport(id, o)
  <2>1. PICK o \in StageAnswers : SubmitReport(id, o)
    BY <1>5
  <2>. DEFINE entry == [log[id] EXCEPT !.outcome = o]
  <2>2. /\ Record(id, entry) /\ reporter' = [id |-> id, outcome |-> o, revs |-> work]
        /\ o \in DOMAIN Config(id[1]).outcomes
        /\ UNCHANGED <<pipe, state, work, agentAt, pc, exec, handling, resolver>>
    BY <2>1 DEF SubmitReport, engineVars, bounds
  <2>3. o \in StageOutcomes
    BY <1>1, <1>3, <2>2, TypeFacts, PipelineFacts
  <2>4. /\ entry \in DispatchRecords /\ entry.typed = log[id].typed
        /\ entry.status = log[id].status /\ entry.failed = log[id].failed
    BY <1>3, <2>3 DEF DispatchRecords
  <2>5. ReporterTypeOK'
    <3>1. Stages' = Stages
      BY <2>2 DEF Stages
    <3>. QED
      BY <1>1, <1>3, <2>2, <2>3, <3>1, TypeFacts DEF ReporterTypeOK
  <2>. HIDE DEF entry
  <2>. QED
    BY <1>1, <2>2, <2>4, <2>5, TypeFacts, RecordedReport
<1>. QED
  BY <1>2, <1>4, <1>5

LEMMA RefusalKeeps ==
    ASSUME StageInv, ApplyRefusal
    PROVE  StageInv'
<1>1. StageTypeOK
  BY DEF StageInv
<1>. DEFINE s == reporter.id[1]
            ss == Outran(state.stages[s])
<1>2. /\ reporter # NoReport /\ reporter' = NoReport /\ Raced
      /\ state' = [state EXCEPT !.stages[s] = ss, !.revs = reporter.revs]
      /\ UNCHANGED <<pipe, log, work, agentAt, exec, handling, resolver>>
  BY DEF ApplyRefusal, bounds
<1>3. reporter.revs \in Revs /\ s \in Stages
  BY <1>1, <1>2 DEF StageTypeOK, ReporterTypeOK
<1>4. ss \in StageRecords
  <2>. HIDE DEF s
  <2>. QED
    BY <1>1, <1>3, TypeFacts, StaleTyped
<1>5. state' \in RunStates
  <2>. HIDE DEF ss, s
  <2>. QED
    BY <1>1, <1>2, <1>3, <1>4, TypeFacts, StageWith
<1>6. ReporterTypeOK'
  BY <1>2 DEF ReporterTypeOK
<1>. QED
  BY <1>1, <1>2, <1>5, <1>6, TypeFacts, RacedPlace, QuietKeeps

LEMMA ApplyKeeps ==
    ASSUME StageInv, ApplyReport
    PROVE  StageInv'
<1>1. StageTypeOK
  BY DEF StageInv
<1>. DEFINE s == reporter.id[1]
            drifted == Drifted(state.stages, state.revs, reporter.revs)
            bound == Bound(reporter.revs, Config(s).bind \cup Config(s).produces)
            ss == [Finished(drifted[s], s, reporter.outcome) EXCEPT !.bound = bound]
            stages == [drifted EXCEPT ![s] = ss]
<1>2. /\ reporter # NoReport /\ reporter' = NoReport /\ Raced /\ reporter.outcome # "stale"
      /\ state' = [state EXCEPT !.stages = stages, !.revs = reporter.revs, !.status = "running"]
      /\ UNCHANGED <<pipe, log, work, agentAt, exec, handling, resolver>>
  BY DEF ApplyReport, bounds
<1>3. reporter.revs \in Revs /\ reporter.outcome \in StageOutcomes /\ s \in Stages
  BY <1>1, <1>2 DEF StageTypeOK, ReporterTypeOK
<1>4. drifted \in [Stages -> StageRecords]
  BY <1>1, TypeFacts, DriftedTyped
<1>5. bound \in BoundRevs
  <2>. HIDE DEF s
  <2>. QED
    BY <1>1, <1>3, TypeFacts, RevsBound
<1>6. stages \in [Stages -> StageRecords]
  <2>. HIDE DEF s, drifted, bound
  <2>1. Finished(drifted[s], s, reporter.outcome) \in StageRecords
    BY <1>3, <1>4, FinishedTyped
  <2>2. ss \in StageRecords
    BY <1>5, <2>1, Bind, SMTT(60)
  <2>. QED
    BY <1>3, <1>4, <2>2
<1>. HIDE DEF stages
<1>7. state' \in RunStates
  <2>1. "running" \in RunStatuses /\ state \in RunStates
    BY <1>1, TypeFacts DEF RunStatuses
  <2>. QED
    BY <1>2, <1>3, <1>6, <2>1, StateWith
<1>8. ReporterTypeOK'
  BY <1>2 DEF ReporterTypeOK
<1>. QED
  BY <1>1, <1>2, <1>7, <1>8, TypeFacts, RacedPlace, QuietKeeps

LEMMA ReporterEnds ==
    ASSUME StageInv, ReporterKilled
    PROVE  StageInv'
<1>1. reporter' = NoReport
      /\ UNCHANGED <<pipe, state, log, work, agentAt, pc, exec, handling, resolver>>
  BY DEF ReporterKilled, engineVars
<1>2. ReporterTypeOK'
  BY <1>1 DEF ReporterTypeOK
<1>. QED
  BY <1>1, <1>2, TypeFacts, QuietKeeps DEF StageInv

LEMMA ResolveKeeps ==
    ASSUME StageInv, NEW s \in Stages, NEW outcome, ResolveHuman(s, outcome)
    PROVE  StageInv'
<1>1. StageTypeOK
  BY DEF StageInv
<1>. DEFINE answer == IF InputsDrifted(state.stages[s], s, work) THEN "stale" ELSE outcome
<1>2. /\ resolver' = [stage |-> s, revs |-> work, outcome |-> answer]
      /\ outcome \in DOMAIN Config(s).outcomes
      /\ UNCHANGED <<pipe, state, log, work, agentAt, pc, exec, handling, reporter>>
  BY DEF ResolveHuman, NoRace, NotOperator
<1>3. answer \in StageOutcomes \cup {"stale"}
  BY <1>1, <1>2, TypeFacts, PipelineFacts
<1>. HIDE DEF answer
<1>4. ResolverTypeOK'
  <2>1. Stages' = Stages
    BY <1>2 DEF Stages
  <2>. QED
    BY <1>1, <1>2, <1>3, <2>1, TypeFacts DEF ResolverTypeOK
<1>. QED
  BY <1>1, <1>2, <1>4, TypeFacts, QuietKeeps

LEMMA RefusedAnswerKeeps ==
    ASSUME StageInv, RefuseAnswer
    PROVE  StageInv'
<1>1. StageTypeOK
  BY DEF StageInv
<1>. DEFINE s == resolver.stage
            ss == Outran(state.stages[s])
<1>2. /\ resolver # NoAnswer /\ resolver' = NoAnswer /\ Raced
      /\ state' = [state EXCEPT !.stages[s] = ss, !.revs = resolver.revs]
      /\ UNCHANGED <<pipe, log, work, agentAt, exec, handling, reporter>>
  BY DEF RefuseAnswer, NotOperator
<1>3. resolver.revs \in Revs /\ s \in Stages
  BY <1>1, <1>2 DEF StageTypeOK, ResolverTypeOK
<1>4. ss \in StageRecords
  <2>. HIDE DEF s
  <2>. QED
    BY <1>1, <1>3, TypeFacts, StaleTyped
<1>5. state' \in RunStates
  <2>. HIDE DEF ss, s
  <2>. QED
    BY <1>1, <1>2, <1>3, <1>4, TypeFacts, StageWith
<1>6. ResolverTypeOK'
  BY <1>2 DEF ResolverTypeOK
<1>. QED
  BY <1>1, <1>2, <1>5, <1>6, TypeFacts, RacedPlace, QuietKeeps

LEMMA AnswerKeeps ==
    ASSUME StageInv, ApplyAnswer
    PROVE  StageInv'
<1>1. StageTypeOK
  BY DEF StageInv
<1>. DEFINE s == resolver.stage
            bound == Bound(resolver.revs, Config(s).bind \cup Config(s).produces)
            ss == [state.stages[s] EXCEPT !.bound = bound]
            done == Finished(ss, s, resolver.outcome)
<1>2. /\ resolver # NoAnswer /\ resolver' = NoAnswer /\ resolver.outcome # "stale"
      /\ UNCHANGED <<pipe, log, work, agentAt, exec, handling, reporter>>
      /\ \/ /\ state' = [state EXCEPT !.stages[s] = done, !.revs = resolver.revs,
                                      !.status = "running"]
            /\ Raced
         \/ UNCHANGED <<state, pc>>
  BY DEF ApplyAnswer, NotOperator, NoRace
<1>3. resolver.revs \in Revs /\ resolver.outcome \in StageOutcomes /\ s \in Stages
  BY <1>1, <1>2 DEF StageTypeOK, ResolverTypeOK
<1>4. bound \in BoundRevs
  <2>. HIDE DEF s
  <2>. QED
    BY <1>1, <1>3, TypeFacts, RevsBound
<1>5. done \in StageRecords
  <2>. HIDE DEF s, bound
  <2>1. state.stages[s] \in StageRecords
    BY <1>1, <1>3, TypeFacts
  <2>2. ss \in StageRecords
    BY <1>4, <2>1, Bind
  <2>. HIDE DEF ss
  <2>. QED
    BY <1>3, <2>2, FinishedTyped
<1>. HIDE DEF done, s
<1>6. state' \in RunStates
  <2>1. "running" \in RunStatuses /\ state \in RunStates
    BY <1>1, TypeFacts DEF RunStatuses
  <2>2. [state EXCEPT !.stages[s] = done, !.revs = resolver.revs, !.status = "running"]
            \in RunStates
    BY <1>3, <1>5, <2>1, StageWith
  <2>. QED
    BY <1>2, <2>1, <2>2, SMTT(60)
<1>7. ResolverTypeOK'
  BY <1>2 DEF ResolverTypeOK
<1>. QED
  BY <1>1, <1>2, <1>6, <1>7, TypeFacts, RacedPlace, QuietKeeps

LEMMA OperatorKeeps ==
    ASSUME StageInv, (\E s \in Stages : Retry(s)) \/ Pause \/ Resume \/ Stop
    PROVE  StageInv'
<1>1. StageTypeOK
  BY DEF StageInv
<1>2. Raced /\ UNCHANGED <<pipe, log, work, agentAt, exec, handling, reporter, resolver>>
  BY DEF Retry, Pause, Resume, Stop, NotClients, NotOperator
<1>3. state \in RunStates /\ state.stages \in [Stages -> StageRecords]
  BY <1>1, TypeFacts
<1>4. state' \in RunStates
  <2>1. CASE \E s \in Stages : Retry(s)
    <3>1. PICK s \in Stages : Retry(s)
      BY <2>1
    <3>. DEFINE stages == [i \in Stages |-> IF s \in Chain(i)
                                THEN [Renewed(state.stages[i]) EXCEPT !.error = "none"]
                                ELSE state.stages[i]]
    <3>2. state' = [state EXCEPT !.stages = stages, !.status = "running"]
      BY <3>1 DEF Retry
    <3>3. stages \in [Stages -> StageRecords]
      BY <1>3, StaleTyped
    <3>4. "running" \in RunStatuses
      BY DEF RunStatuses
    <3>. HIDE DEF stages
    <3>. QED
      BY <1>3, <3>2, <3>3, <3>4 DEF RunStates
  <2>2. CASE Pause
    BY <1>3, <2>2 DEF Pause, RunStates
  <2>3. CASE Resume
    <3>. DEFINE again(ss) == [ss EXCEPT !.status = "pending", !.error = "none"]
                stages == [s \in Stages |->
                             IF state.stages[s].status = "blocked"
                                /\ state.stages[s].error = "prompt"
                             THEN again(state.stages[s]) ELSE state.stages[s]]
    <3>1. state' = [state EXCEPT !.desired = "running", !.status = "running",
                                 !.stages = stages]
      BY <2>3 DEF Resume
    <3>2. \A ss \in StageRecords : again(ss) \in StageRecords
      BY DEF StageRecords, Statuses, StageErrors
    <3>3. stages \in [Stages -> StageRecords]
      <4>. HIDE DEF again
      <4>. QED
        BY <1>3, <3>2
    <3>. HIDE DEF stages
    <3>. QED
      BY <1>3, <3>1, <3>3 DEF RunStates, RunStatuses
  <2>4. CASE Stop
    <3>. DEFINE status == IF pc = "off" THEN "stopped" ELSE state.status
    <3>1. state' = [state EXCEPT !.desired = "stopped", !.status = status]
      BY <2>4 DEF Stop
    <3>2. status \in RunStatuses
      BY <1>1, TypeFacts DEF RunStatuses, EndStates
    <3>. HIDE DEF status
    <3>. QED
      BY <1>3, <3>1, <3>2 DEF RunStates
  <2>. QED
    BY <2>1, <2>2, <2>3, <2>4
<1>. QED
  BY <1>1, <1>2, <1>4, TypeFacts, RacedPlace, QuietKeeps

-----------------------------------------------------------------------------
LEMMA StagesStart == StageInit => StageInv
<1>1. SUFFICES ASSUME StageInit PROVE StageInv
  OBVIOUS
<1>2. /\ pipe \in DOMAIN Pipelines
      /\ work = [r \in Revisions |-> 0] /\ agentAt = [a \in Actors |-> NoId]
      /\ state = [desired |-> "running", status |-> "running",
                  stages |-> [s \in Stages |-> NewStage], revs |-> work]
      /\ log = << >> /\ pc = "off" /\ exec = [s \in Stages |-> Idle]
      /\ handling = NoResult /\ reporter = NoReport /\ resolver = NoAnswer
  BY <1>1 DEF StageInit
<1>3. work \in Revs
  BY <1>2 DEF Revs
<1>4. state \in RunStates
  BY <1>2, <1>3, StageConstants DEF RunStates, RunStatuses
<1>5. DOMAIN log = {}
  BY <1>2
<1>6. StageTypeOK
  BY <1>2, <1>3, <1>4, <1>5, StageConstants
     DEF StageTypeOK, StateTypeOK, RunStates, LogTypeOK, HandlingTypeOK, ReporterTypeOK,
         ResolverTypeOK
<1>7. \A s \in Stages : exec[s].at = "none"
  BY <1>2 DEF Idle
<1>. QED
  BY <1>5, <1>6, <1>7
     DEF StageInv, WaysAreApart, OnTheWay, AboutToType, TypedIsKnown, AgentPlaces

LEMMA StepKeeps ==
    ASSUME StageInv, [StageNext]_stageVars
    PROVE  StageInv'
<1>1. CASE UNCHANGED stageVars
  <2>1. UNCHANGED <<pipe, state, log, work, agentAt, pc, exec, handling, reporter, resolver>>
    BY <1>1 DEF stageVars, engineVars, clients
  <2>. QED
    BY <2>1, TypeFacts, QuietKeeps DEF StageInv
<1>2. CASE RunnerStep
  <2>1. CASE ExecStep
    <3>1. PICK s \in Stages : Command(s) \/ CheckActor(s) \/ PasteInto(s) \/ Sent(s) \/ Handle(s)
      BY <2>1 DEF ExecStep
    <3>. QED
      BY <3>1, CommandKeeps, CheckKeeps, TypingKeeps, HandleKeeps
  <2>. QED
    BY <1>2, <2>1, EngineKeeps, TickKeeps, StoreKeeps DEF RunnerStep
<1>3. CASE AnyOperator
  BY <1>3, ResolveKeeps, RefusedAnswerKeeps, AnswerKeeps, OperatorKeeps DEF AnyOperator
<1>. QED
  BY <1>1, <1>2, <1>3, StartKeeps, EngineKeeps, EditKeeps, ReportKeeps, RefusalKeeps, ApplyKeeps,
     ReporterEnds DEF StageNext

\* For any workflows, actors, faults and commands: the stages, dispatches, results and
\* reports of a run are what they should be, and no two stages are on their way to one
\* agent (engine.go:287-420).
THEOREM StageInvariant == StageSpec => []StageInv
BY StagesStart, StepKeeps, PTL DEF StageSpec

\* An agent at work is given no other turn.
LEMMA OnlyTyping ==
    ASSUME StageInv, [StageNext]_stageVars
    PROVE  \A a \in Actors :
              (agentAt'[a] # agentAt[a] /\ agentAt'[a] # NoId) =>
                  agentAt[a] = NoId /\ (log[agentAt'[a]].typed => log[agentAt'[a]].failed)
<1>1. StageTypeOK /\ AboutToType /\ WaysAreApart
  BY DEF StageInv
<1>2. ASSUME NEW s \in Stages, PasteInto(s), NEW a \in Actors,
             agentAt'[a] # agentAt[a], agentAt'[a] # NoId
      PROVE  agentAt[a] = NoId /\ (log[agentAt'[a]].typed => log[agentAt'[a]].failed)
  <2>1. /\ exec[s].at = "typing"
        /\ agentAt' = [agentAt EXCEPT ![Actor(s)] = exec[s].id]
        /\ Actor(s) \in LaunchedActors => agentAt[Actor(s)] = NoId
    BY <1>2 DEF PasteInto, Executing
  <2>2. a = Actor(s) /\ agentAt'[a] = exec[s].id
    BY <1>1, <1>2, <2>1, TypeFacts
  <2>. QED
    BY <1>1, <2>1, <2>2 DEF AboutToType
<1>3. ASSUME \/ UNCHANGED agentAt \/ Cleanup
             \/ \E b \in Actors : agentAt' = [agentAt EXCEPT ![b] = NoId],
             NEW a \in Actors
      PROVE  agentAt'[a] \in {agentAt[a], NoId}
  BY <1>1, <1>3, TypeFacts, CleanupFrees
<1>4. CASE ~\E s \in Stages : PasteInto(s)
  <2>1. UNCHANGED agentAt \/ Cleanup \/ \E b \in Actors : agentAt' = [agentAt EXCEPT ![b] = NoId]
    <3>1. CASE RunnerStep
      BY <1>4, <3>1
         DEF RunnerStep, ExecStep, TickStopped, TickRuns, FinishTick, CleanupActors, Store,
             Command, CheckActor, Sent, Handle
    <3>2. CASE AnyOperator \/ AnyReport
      BY <3>2 DEF AnyOperator, AnyReport, RefuseReport, SubmitReport, Retry, ResolveHuman,
                  RefuseAnswer, ApplyAnswer, Pause, Resume, Stop, NotOperator
    <3>3. CASE Start \/ TickPaused \/ Kill \/ Interrupt \/ ReporterKilled
               \/ ApplyRefusal \/ ApplyReport
      BY <3>3 DEF Start, TickPaused, Kill, Interrupt, ReporterKilled, ApplyRefusal, ApplyReport
    <3>4. CASE (\E r \in Revisions : Edit(r)) \/ \E a \in Actors : AgentEnds(a)
      BY <3>4 DEF Edit, AgentEnds
    <3>5. CASE UNCHANGED stageVars
      BY <3>5 DEF stageVars
    <3>. QED
      BY <3>1, <3>2, <3>3, <3>4, <3>5 DEF StageNext
  <2>. QED
    BY <1>3, <2>1
<1>5. CASE \E s \in Stages : PasteInto(s)
  <2>1. PICK s \in Stages : PasteInto(s)
    BY <1>5
  <2>2. CASE UNCHANGED agentAt
    BY <2>2
  <2>. QED
    BY <1>2, <2>1
<1>. QED
  BY <1>4, <1>5

\* For any workflows, actors, faults and commands: a dispatch is typed again only if
\* its sending had failed, whatever was killed or recovered, and no agent is given a
\* turn while it works on another (engine.go:947-1064).
THEOREM TurnsApart == StageSpec => TurnsAreExclusive
<1>1. StageInv /\ [StageNext]_stageVars =>
          [\A a \in Actors : (agentAt'[a] # agentAt[a] /\ agentAt'[a] # NoId) =>
              agentAt[a] = NoId /\ (log[agentAt'[a]].typed => log[agentAt'[a]].failed)]_stageVars
  BY OnlyTyping
<1>. QED
  BY <1>1, StageInvariant, PTL DEF StageSpec, TurnsAreExclusive

-----------------------------------------------------------------------------
(***************************************************************************)
(* A producer and its chain.  What every producer stands on, the core,     *)
(* keeps its place as long as nothing comes out of turn: a revision that   *)
(* changes has a producer at work, so the core below it is done, and the   *)
(* rest of the core does not look at it.                                   *)
(***************************************************************************)
LEMMA ChainFacts ==
    ASSUME pipe \in DOMAIN Pipelines, NEW t \in Stages
    PROVE  /\ t \in Chain(t) /\ Chain(t) \subseteq Stages
           /\ \A s \in Chain(t) : Chain(s) \subseteq Chain(t)
           /\ NeedsOf(Pipelines[pipe], t) \subseteq Stages
           /\ \A u \in Chain(t) : u # t =>
                 \E n \in NeedsOf(Pipelines[pipe], t) : u \in Chain(n)
<1>. DEFINE Needs(s) == NeedsOf(Pipelines[pipe], s)
            Up(s) == Upstream(Pipelines[pipe], s)
            Closed(S) == \A m \in S : Needs(m) \subseteq S
<1>1. \A s \in Stages : Chain(s) = {s} \cup Up(s)
  BY DEF Chain, Chains, Stages
<1>2. \A s \in Stages : Up(s) = {n \in Stages : \A S \in SUBSET Stages :
                                     Needs(s) \subseteq S /\ Closed(S) => n \in S}
  BY DEF Upstream, Stages
<1>3. \A s \in Stages : Needs(s) \subseteq Stages
  <2>1. ValidPipeline(Pipelines[pipe])
    BY PipelinesAreValid
  <2>. QED
    BY <2>1, SMTT(60) DEF ValidPipeline, ValidStage, NeedsOf, Stages
<1>. HIDE DEF Needs, Up
<1>4. \A s \in Stages : /\ Up(s) \subseteq Stages
                        /\ Needs(s) \subseteq Up(s) /\ Closed(Up(s))
  <2>1. TAKE s \in Stages
  <2>2. Needs(s) \subseteq Up(s)
    BY <1>2, <1>3
  <2>3. ASSUME NEW m \in Up(s), NEW n \in Needs(m)
        PROVE  n \in Up(s)
    <3>1. n \in Stages
      BY <1>2, <1>3, <2>3
    <3>. QED
      BY <1>2, <2>3, <3>1
  <2>. QED
    BY <1>2, <2>2, <2>3
<1>5. ASSUME NEW s \in Stages, NEW m \in Up(s)
      PROVE  Up(m) \subseteq Up(s)
  <2>1. m \in Stages /\ Up(s) \in SUBSET Stages /\ Needs(m) \subseteq Up(s) /\ Closed(Up(s))
    BY <1>4, <1>5
  <2>. QED
    BY <1>2, <2>1
<1>6. \A s \in Chain(t) : s \in Stages /\ Chain(s) \subseteq Chain(t)
  <2>1. TAKE s \in Chain(t)
  <2>2. s \in Stages
    BY <1>1, <1>4, <2>1
  <2>. QED
    BY <1>1, <1>5, <2>1, <2>2
<1>7. ASSUME NEW u \in Chain(t), u # t
      PROVE  \E n \in Needs(t) : u \in Chain(n)
  <2>. DEFINE S == Needs(t) \cup UNION {Up(n) : n \in Needs(t)}
  <2>1. S \in SUBSET Stages
    BY <1>3, <1>4
  <2>2. Closed(S)
    <3>1. TAKE m \in S
    <3>2. CASE m \in Needs(t)
      BY <1>3, <1>4, <3>2
    <3>3. CASE \E n \in Needs(t) : m \in Up(n)
      BY <1>3, <1>4, <3>3
    <3>. QED
      BY <3>1, <3>2, <3>3
  <2>3. u \in S
    <3>1. u \in Up(t)
      BY <1>1, <1>7
    <3>2. Needs(t) \subseteq S
      OBVIOUS
    <3>. HIDE DEF S
    <3>. QED
      BY <1>2, <2>1, <2>2, <3>1, <3>2
  <2>. QED
    BY <1>1, <1>3, <2>3
<1>. QED
  BY <1>1, <1>3, <1>6, <1>7 DEF Needs

\* What every producer stands on.
IsCore(s) == \A p \in Stages : Config(p).produces # {} => s \in Chain(p)

LEMMA CoreChain ==
    ASSUME pipe \in DOMAIN Pipelines, NEW s \in Stages, IsCore(s), NEW u \in Chain(s)
    PROVE  u \in Stages /\ IsCore(u)
BY ChainFacts DEF IsCore

\* A stage that has begun, and one whose inputs are still compared with the workspace.
Begun(ss) == IsActive(ss) \/ ss.status = "waiting_human" \/ Met(ss)
InProgress(ss) == IsActive(ss) \/ ss.status = "waiting_human"
\* The core below t is done.
Stands(stages, t) == \A u \in Chain(t) : IsCore(u) /\ u # t => Met(stages[u])
Busy(s) == exec[s].at # "none" \/ handling.stage = s
\* What a reading holds of the revisions that the stage does not produce.
UpToDate(s, revs) == \A r \in DOMAIN revs \ Config(s).produces : revs[r] = work[r]
IsInput(s, revs) == DOMAIN revs \cap Config(s).produces = {}

\* The engine has results to handle only while it executes.
EngineInv ==
    /\ ops \in Nat
    /\ pc # "execute" => handling = NoResult /\ \A s \in Stages : exec[s].at = "none"
    /\ handling # NoResult => exec[handling.stage].at = "none"

\* Whatever changed has a producer at work; what has begun stands on what is done.
Noticed == ~Outdated(state.stages, state.revs)
AllStand == \A t \in Stages : Begun(state.stages[t]) \/ Busy(t) => Stands(state.stages, t)
\* A stage of the core, the dispatches recorded for it, its execution and its result
\* look at the workspace as it is, but for what the stage itself produces.
CoreStage(s) ==
    LET ss == state.stages[s] IN
    /\ ss.status # "stale"
    /\ Busy(s) => ss.status = "running"
    /\ ss.id # NoId => ss.id[2] = ss.gen
    /\ InProgress(ss) => UpToDate(s, ss.bound)
CoreReports(s) ==
    \A id \in DOMAIN log : id[1] = s =>
        /\ id[2] <= state.stages[s].gen /\ IsInput(s, log[id].revs)
        /\ id[2] = state.stages[s].gen /\ ~Met(state.stages[s]) => UpToDate(s, log[id].revs)
CoreWay(s) ==
    OnTheWay(s) => /\ exec[s].id[2] = state.stages[s].gen
                   /\ IsInput(s, exec[s].revs) /\ UpToDate(s, exec[s].revs)
CoreResult(s) ==
    handling.stage = s => /\ handling.to.status # "stale"
                          /\ handling.to.gen = state.stages[s].gen
                          /\ handling.to.id # NoId => handling.to.id[2] = handling.to.gen
                          /\ InProgress(handling.to) => UpToDate(s, handling.to.bound)
ChainsHold ==
    /\ Noticed /\ AllStand
    /\ \A s \in Stages : IsCore(s) =>
          CoreStage(s) /\ CoreReports(s) /\ CoreWay(s) /\ CoreResult(s)

\* A stage of the core starts over only at a command.
CoreStays ==
    \A s \in Stages : IsCore(s) =>
        /\ state'.stages[s].status # "stale"
        /\ state'.stages[s].gen > state.stages[s].gen => ops' # ops

(***************************************************************************)
(* What a step may do to a stage of the core.                              *)
(***************************************************************************)
StageGoesOn(s) ==
    LET ss == state.stages[s]
        new == state'.stages[s]
    IN  /\ new.status # "stale" /\ new.gen = ss.gen
        /\ new.id = ss.id \/ (new.id # NoId => new.id[2] = new.gen)
        /\ Met(ss) => Met(new)
        /\ InProgress(new) => \/ InProgress(ss) /\ new.bound = ss.bound
                              \/ UpToDate(s, new.bound)
ReportsGoOn(s) ==
    \A id \in DOMAIN log' : id[1] = s =>
        \/ id \in DOMAIN log /\ log'[id].revs = log[id].revs
        \/ /\ id[2] <= state.stages[s].gen /\ IsInput(s, log'[id].revs)
           /\ UpToDate(s, log'[id].revs)
WayGoesOn(s) ==
    exec'[s].at \in AgentPlaces =>
        \/ OnTheWay(s) /\ exec'[s].id = exec[s].id /\ exec'[s].revs = exec[s].revs
        \/ /\ exec'[s].id[2] = state.stages[s].gen
           /\ IsInput(s, exec'[s].revs) /\ UpToDate(s, exec'[s].revs)
ResultGoesOn(s) ==
    handling'.stage = s =>
        \/ handling' = handling
        \/ LET to == handling'.to IN
           /\ to.status # "stale" /\ to.gen = state.stages[s].gen
           /\ to.id # NoId => to.id[2] = to.gen
           /\ InProgress(to) => UpToDate(s, to.bound)
BusyNext(s) == exec'[s].at # "none" \/ handling'.stage = s

LEMMA ChainsGoOn ==
    ASSUME ChainsHold, StageTypeOK, UNCHANGED <<pipe, work>>, Noticed',
           \A t \in Stages : Begun(state'.stages[t]) \/ BusyNext(t) =>
               Begun(state.stages[t]) \/ Busy(t) \/ Stands(state'.stages, t),
           \A s \in Stages : IsCore(s) =>
               /\ StageGoesOn(s) /\ ReportsGoOn(s) /\ WayGoesOn(s) /\ ResultGoesOn(s)
               /\ BusyNext(s) => state'.stages[s].status = "running"
    PROVE  ChainsHold' /\ CoreStays
<1>1. /\ Stages' = Stages
      /\ \A s : Config(s)' = Config(s) /\ Chain(s)' = Chain(s)
  BY DEF Stages, Config, Chain
<1>2. \A s : IsCore(s)' <=> IsCore(s)
  BY <1>1 DEF IsCore
<1>3. AllStand'
  <2>1. SUFFICES ASSUME NEW t \in Stages, Begun(state'.stages[t]) \/ BusyNext(t),
                        NEW u \in Chain(t), IsCore(u), u # t
                 PROVE  Met(state'.stages[u])
    BY <1>1, <1>2 DEF AllStand, Stands, Busy, BusyNext
  <2>2. u \in Stages /\ (Met(state.stages[u]) => Met(state'.stages[u]))
    BY <2>1, ChainFacts DEF StageTypeOK, StageGoesOn
  <2>3. CASE Stands(state'.stages, t)
    BY <2>1, <2>3 DEF Stands
  <2>4. CASE Begun(state.stages[t]) \/ Busy(t)
    BY <2>1, <2>2, <2>4 DEF ChainsHold, AllStand, Stands
  <2>. QED
    BY <2>1, <2>3, <2>4
<1>4. ASSUME NEW s \in Stages, IsCore(s)
      PROVE  CoreStage(s)' /\ CoreReports(s)' /\ CoreWay(s)' /\ CoreResult(s)'
  <2>1. /\ CoreStage(s) /\ CoreReports(s) /\ CoreWay(s) /\ CoreResult(s)
        /\ StageGoesOn(s) /\ ReportsGoOn(s) /\ WayGoesOn(s) /\ ResultGoesOn(s)
        /\ BusyNext(s) => state'.stages[s].status = "running"
    BY <1>4 DEF ChainsHold
  <2>2. \A revs : (UpToDate(s, revs) <=> \A r \in DOMAIN revs \ Config(s)'.produces :
                                                revs[r] = work'[r])
                  /\ (IsInput(s, revs) <=> DOMAIN revs \cap Config(s)'.produces = {})
    BY <1>1 DEF UpToDate, IsInput
  <2>3. CoreStage(s)'
    BY <2>1, <2>2, SMTT(60) DEF CoreStage, StageGoesOn, BusyNext, Busy, UpToDate
  <2>4. CoreReports(s)'
    BY <2>1, <2>2 DEF CoreReports, ReportsGoOn, StageGoesOn, UpToDate, IsInput
  <2>5. CoreWay(s)'
    BY <2>1, <2>2, SMTT(60) DEF CoreWay, WayGoesOn, StageGoesOn, UpToDate, IsInput, OnTheWay
  <2>6. CoreResult(s)'
    BY <2>1, <2>2 DEF CoreResult, ResultGoesOn, StageGoesOn, UpToDate
  <2>. QED
    BY <2>3, <2>4, <2>5, <2>6
<1>5. CoreStays
  <2>1. ASSUME NEW s \in Stages, IsCore(s)
        PROVE  /\ state'.stages[s].status # "stale"
               /\ ~(state'.stages[s].gen > state.stages[s].gen)
    <3>1. state.stages[s].gen \in Nat
      BY TypeFacts DEF StageRecords
    <3>2. StageGoesOn(s)
      BY <2>1
    <3>. QED
      BY <3>1, <3>2 DEF StageGoesOn
  <2>. QED
    BY <2>1 DEF CoreStays
<1>. QED
  BY <1>1, <1>2, <1>3, <1>4, <1>5 DEF ChainsHold

\* A step that leaves the stages as they are.
LEMMA QuietChains ==
    ASSUME ChainsHold, StageTypeOK, UNCHANGED <<pipe, work>>,
           state'.stages = state.stages, state'.revs = state.revs,
           UNCHANGED exec \/ exec' = [s \in Stages |-> Idle],
           handling' \in {handling, NoResult},
           DOMAIN log' = DOMAIN log, \A id \in DOMAIN log : log'[id].revs = log[id].revs
    PROVE  ChainsHold' /\ CoreStays
<1>1. /\ \A s \in Stages : exec'[s] = exec[s] \/ exec'[s].at = "none"
      /\ \A s \in Stages : NoResult.stage # s
  <2>1. \A s \in Stages : s # 0
    BY PipelineFacts DEF StageTypeOK
  <2>. QED
    BY <2>1 DEF Idle, NoResult
<1>2. Noticed'
  BY DEF ChainsHold, Noticed, Outdated, ActiveStages, Config
<1>3. \A s \in Stages : BusyNext(s) => Busy(s)
  BY <1>1 DEF BusyNext, Busy
<1>4. ASSUME NEW s \in Stages, IsCore(s)
      PROVE  /\ StageGoesOn(s) /\ ReportsGoOn(s) /\ WayGoesOn(s) /\ ResultGoesOn(s)
             /\ BusyNext(s) => state'.stages[s].status = "running"
  <2>1. CoreStage(s)
    BY <1>4 DEF ChainsHold
  <2>2. StageGoesOn(s)
    BY <2>1 DEF StageGoesOn, CoreStage
  <2>3. ReportsGoOn(s) /\ WayGoesOn(s) /\ ResultGoesOn(s)
    BY <1>1 DEF ReportsGoOn, WayGoesOn, ResultGoesOn, OnTheWay, AgentPlaces
  <2>. QED
    BY <1>3, <2>1, <2>2, <2>3 DEF CoreStage
<1>. QED
  BY <1>2, <1>3, <1>4, ChainsGoOn

\* A step of the dispatch of one stage.
LEMMA DispatchChains ==
    ASSUME ChainsHold, StageTypeOK, NEW s \in Stages, NEW at \in AgentPlaces \cup Results,
           Becomes(s, at), NotExec, exec[s].at # "none",
           at \in AgentPlaces => OnTheWay(s),
           \/ UNCHANGED log
           \/ /\ exec[s].id \in StageIds /\ exec[s].id[1] = s
              /\ \E entry : /\ Record(exec[s].id, entry)
                            /\ \/ OnTheWay(s) /\ entry.revs = exec[s].revs
                               \/ exec[s].id \in DOMAIN log /\ entry.revs = log[exec[s].id].revs
    PROVE  ChainsHold' /\ CoreStays
<1>1. /\ exec'[s].id = exec[s].id /\ exec'[s].revs = exec[s].revs /\ exec'[s].at = at
      /\ \A i \in Stages : i # s => exec'[i] = exec[i]
  <2>1. exec \in [Stages -> Executions]
    BY TypeFacts
  <2>2. exec' = [exec EXCEPT ![s] = [exec[s] EXCEPT !.at = at]]
    BY DEF Becomes
  <2>3. /\ [exec[s] EXCEPT !.at = at].id = exec[s].id
        /\ [exec[s] EXCEPT !.at = at].revs = exec[s].revs
        /\ [exec[s] EXCEPT !.at = at].at = at
    BY <2>1 DEF Executions
  <2>. QED
    BY <2>1, <2>2, <2>3
<1>2. UNCHANGED <<pipe, state, work, handling>>
  BY DEF NotExec
<1>3. Noticed'
  BY <1>2 DEF ChainsHold, Noticed, Outdated, ActiveStages, Config
<1>4. \A i \in Stages : BusyNext(i) => Busy(i)
  BY <1>1, <1>2 DEF BusyNext, Busy
<1>5. ASSUME NEW i \in Stages, IsCore(i)
      PROVE  /\ StageGoesOn(i) /\ ReportsGoOn(i) /\ WayGoesOn(i) /\ ResultGoesOn(i)
             /\ BusyNext(i) => state'.stages[i].status = "running"
  <2>1. CoreStage(i) /\ CoreWay(i)
    BY <1>5 DEF ChainsHold
  <2>2. StageGoesOn(i)
    BY <1>2, <2>1 DEF StageGoesOn, CoreStage
  <2>3. ReportsGoOn(i)
    <3>1. CASE UNCHANGED log
      BY <3>1 DEF ReportsGoOn
    <3>2. CASE log' # log
      <4>1. PICK entry : /\ Record(exec[s].id, entry) /\ exec[s].id[1] = s
                         /\ exec[s].id \in StageIds
                         /\ \/ OnTheWay(s) /\ entry.revs = exec[s].revs
                            \/ /\ exec[s].id \in DOMAIN log
                               /\ entry.revs = log[exec[s].id].revs
        BY <3>2
      <4>2. /\ DOMAIN log' = DOMAIN log \cup {exec[s].id} /\ log'[exec[s].id] = entry
            /\ \A id \in DOMAIN log : id # exec[s].id => log'[id] = log[id]
        BY <4>1 DEF Record
      <4>3. exec[s].id[2] \in Nat
        BY <4>1 DEF StageIds
      <4>4. i = s /\ OnTheWay(s) => /\ exec[s].id[2] <= state.stages[i].gen
                                    /\ IsInput(i, exec[s].revs) /\ UpToDate(i, exec[s].revs)
        BY <2>1, <4>3 DEF CoreWay
      <4>. QED
        BY <4>1, <4>2, <4>4 DEF ReportsGoOn
    <3>. QED
      BY <3>1, <3>2
  <2>4. WayGoesOn(i)
    <3>1. at \in AgentPlaces => OnTheWay(s)
      OBVIOUS
    <3>. QED
      BY <1>1, <3>1 DEF WayGoesOn, OnTheWay
  <2>5. ResultGoesOn(i)
    BY <1>2 DEF ResultGoesOn
  <2>. QED
    BY <1>2, <1>4, <2>1, <2>2, <2>3, <2>4, <2>5 DEF CoreStage
<1>. QED
  BY <1>2, <1>3, <1>4, <1>5, ChainsGoOn

LEMMA FinishedFacts ==
    ASSUME NEW ss \in StageRecords, NEW s, NEW outcome
    PROVE  LET new == Finished(ss, s, outcome) IN
           /\ new.status \in {"succeeded", "blocked", "pending", "failed"}
           /\ new.gen = ss.gen /\ new.id = ss.id /\ new.bound = ss.bound
<1>. DEFINE to(status) == [ss EXCEPT !.outcome = outcome, !.status = status]
            error == [to("failed") EXCEPT !.error = "other"]
            new == Finished(ss, s, outcome)
<1>1. \A status : /\ to(status).status = status /\ to(status).gen = ss.gen
                  /\ to(status).id = ss.id /\ to(status).bound = ss.bound
  BY DEF StageRecords
<1>2. /\ error.status = "failed" /\ error.gen = ss.gen
      /\ error.id = ss.id /\ error.bound = ss.bound
  BY DEF StageRecords
<1>3. new \in {to("succeeded"), to("blocked"), to("pending"), to("failed"), error}
  BY DEF Finished
<1>. HIDE DEF to, error, new
<1>4. /\ new.status \in {"succeeded", "blocked", "pending", "failed"}
      /\ new.gen = ss.gen /\ new.id = ss.id /\ new.bound = ss.bound
  BY <1>1, <1>2, <1>3
<1>. QED
  BY <1>4 DEF new

LEMMA HandledFacts ==
    ASSUME NEW ss \in StageRecords, NEW s, NEW result \in Results
    PROVE  LET new == Handled(ss, s, result) IN
           /\ new.status \in {"succeeded", "blocked", "pending", "failed", "waiting_report"}
           /\ new.gen = ss.gen /\ new.id \in {ss.id, NoId}
           /\ new.status = "waiting_report" => new.bound = ss.bound
<1>. DEFINE failed == [ss EXCEPT !.error = "other"]
            done == Finished(ss, s, result)
            new == Handled(ss, s, result)
            claim(r) == /\ r.status \in {"succeeded", "blocked", "pending", "failed",
                                         "waiting_report"}
                        /\ r.gen = ss.gen /\ r.id \in {ss.id, NoId}
                        /\ r.status = "waiting_report" => r.bound = ss.bound
<1>1. failed \in StageRecords /\ failed.gen = ss.gen /\ failed.id = ss.id
  BY DEF StageRecords, StageErrors
<1>2. ASSUME result = "deferred" PROVE claim(new)
  <2>1. new = [failed EXCEPT !.status = "pending", !.id = NoId,
                             !.attempt = IF @ > 0 THEN @ - 1 ELSE 0]
    BY <1>2 DEF Handled
  <2>. HIDE DEF new, failed
  <2>2. new.status = "pending" /\ new.gen = failed.gen /\ new.id = NoId
    BY <1>1, <2>1 DEF StageRecords
  <2>3. new.gen = ss.gen
    BY <1>1, <2>2
  <2>. QED
    BY <2>2, <2>3
<1>3. ASSUME result = "prompt" PROVE claim(new)
  <2>1. new = [ss EXCEPT !.status = "blocked", !.error = "prompt"]
    BY <1>3 DEF Handled
  <2>. HIDE DEF new
  <2>. QED
    BY <2>1 DEF StageRecords
<1>4. ASSUME result = "error" PROVE claim(new)
  <2>1. new = Finished(failed, s, "failed")
    BY <1>4 DEF Handled
  <2>. HIDE DEF new, failed
  <2>. QED
    BY <1>1, <2>1, FinishedFacts
<1>5. ASSUME result = "ok" PROVE claim(new)
  <2>1. new = [ss EXCEPT !.status = "waiting_report"]
    BY <1>5 DEF Handled
  <2>. HIDE DEF new
  <2>. QED
    BY <2>1 DEF StageRecords
<1>6. ASSUME result \in {"success", "failed", "timeout", "blocked"} PROVE claim(new)
  <2>. DEFINE bound == Bound(work, Config(s).bind \cup Config(s).produces)
  <2>1. new \in {done, [done EXCEPT !.bound = bound]}
    BY <1>6 DEF Handled
  <2>. HIDE DEF new, bound
  <2>2. /\ done.status \in {"succeeded", "blocked", "pending", "failed"}
        /\ done.gen = ss.gen /\ done.id = ss.id /\ done.bound = ss.bound
    BY FinishedFacts
  <2>3. \/ [done EXCEPT !.bound = bound] = done
        \/ /\ [done EXCEPT !.bound = bound].status = done.status
           /\ [done EXCEPT !.bound = bound].gen = done.gen
           /\ [done EXCEPT !.bound = bound].id = done.id
    OBVIOUS
  <2>. HIDE DEF done
  <2>. QED
    BY <2>1, <2>2, <2>3
<1>7. claim(new)
  BY <1>2, <1>3, <1>4, <1>5, <1>6 DEF Results
<1>. QED
  BY <1>7

LEMMA RecoveredFacts ==
    ASSUME NEW ss \in StageRecords
    PROVE  LET new == Recovered(ss) IN
           /\ new.gen = ss.gen /\ new.id \in {ss.id, NoId} /\ new.bound = ss.bound
           /\ \/ new = ss
              \/ ss.status = "running" /\ new.status \in {"waiting_report", "pending"}
<1>. DEFINE waits == [ss EXCEPT !.status = "waiting_report"]
            back == [ss EXCEPT !.status = "pending", !.id = NoId,
                               !.attempt = IF @ > 0 THEN @ - 1 ELSE 0]
            new == Recovered(ss)
<1>1. /\ waits.status = "waiting_report" /\ back.status = "pending"
      /\ waits.gen = ss.gen /\ back.gen = ss.gen
      /\ waits.id = ss.id /\ back.id = NoId
      /\ waits.bound = ss.bound /\ back.bound = ss.bound
  BY DEF StageRecords
<1>2. new = ss \/ (ss.status = "running" /\ new \in {waits, back})
  BY DEF Recovered
<1>. HIDE DEF waits, back
<1>. QED
  BY <1>1, <1>2

LEMMA NoticedNext ==
    ASSUME UNCHANGED <<pipe, work>>,
           state'.revs = work \/ ~Outdated(state'.stages, state'.revs)
    PROVE  Noticed'
BY DEF Noticed, Outdated, ActiveStages, Config

\* A step of the stages and of what is known of the workspace.
LEMMA StateChains ==
    ASSUME ChainsHold, StageTypeOK, UNCHANGED <<pipe, work, log, exec>>,
           handling' \in {handling, NoResult}, Noticed',
           \A t \in Stages : Begun(state'.stages[t]) => Begun(state.stages[t]) \/ Busy(t),
           \A s \in Stages : IsCore(s) =>
               /\ state'.stages[s] = state.stages[s] \/ StageGoesOn(s)
               /\ BusyNext(s) => state'.stages[s].status = "running"
    PROVE  ChainsHold' /\ CoreStays
<1>1. \A s \in Stages : NoResult.stage # s
  BY PipelineFacts DEF StageTypeOK, NoResult
<1>2. \A s \in Stages : BusyNext(s) => Busy(s)
  BY <1>1 DEF BusyNext, Busy
<1>3. ASSUME NEW s \in Stages, IsCore(s)
      PROVE  StageGoesOn(s) /\ ReportsGoOn(s) /\ WayGoesOn(s) /\ ResultGoesOn(s)
  <2>1. CoreStage(s)
    BY <1>3 DEF ChainsHold
  <2>2. StageGoesOn(s)
    BY <1>3, <2>1 DEF StageGoesOn, CoreStage
  <2>. QED
    BY <1>1, <2>2 DEF ReportsGoOn, WayGoesOn, ResultGoesOn, OnTheWay
<1>. QED
  BY <1>2, <1>3, ChainsGoOn

LEMMA StartChains ==
    ASSUME StageInv, EngineInv, ChainsHold, Start, ~stray'
    PROVE  ChainsHold' /\ CoreStays
<1>1. StageTypeOK /\ state \in RunStates
  BY TypeFacts DEF StageInv
<1>. DEFINE stages == [s \in Stages |-> Recovered(state.stages[s])]
<1>2. /\ \/ state' = [state EXCEPT !.stages = stages]
         \/ state' = [state EXCEPT !.stages = stages, !.status = "needs_user"]
      /\ ~Outdated(stages, state.revs) /\ pc = "off"
      /\ UNCHANGED <<pipe, work, log, exec, handling>>
  BY DEF Start
<1>. HIDE DEF stages
<1>3. state'.stages = stages /\ state'.revs = state.revs
  BY <1>1, <1>2 DEF RunStates
<1>4. Noticed'
  BY <1>2, <1>3, NoticedNext
<1>5. ASSUME NEW s \in Stages
      PROVE  LET ss == state.stages[s]
                 new == state'.stages[s]
             IN  /\ new.gen = ss.gen /\ new.id \in {ss.id, NoId} /\ new.bound = ss.bound
                 /\ \/ new = ss
                    \/ ss.status = "running" /\ new.status \in {"waiting_report", "pending"}
  BY <1>1, <1>3, TypeFacts, RecoveredFacts DEF stages
<1>6. \A t \in Stages : Begun(state'.stages[t]) => Begun(state.stages[t])
  BY <1>5 DEF Begun, IsActive, Met
<1>7. ASSUME NEW s \in Stages, IsCore(s)
      PROVE  StageGoesOn(s) /\ ~BusyNext(s)
  <2>1. CoreStage(s)
    BY <1>7 DEF ChainsHold
  <2>2. StageGoesOn(s)
    BY <1>5, <2>1 DEF StageGoesOn, CoreStage, InProgress, IsActive, Met
  <2>3. ~BusyNext(s)
    <3>1. s # 0
      BY <1>1, PipelineFacts DEF StageTypeOK
    <3>. QED
      BY <1>2, <3>1 DEF EngineInv, BusyNext, NoResult
  <2>. QED
    BY <2>2, <2>3
<1>. QED
  BY <1>1, <1>2, <1>4, <1>6, <1>7, StateChains

LEMMA EngineChains ==
    ASSUME StageInv, ChainsHold,
           \/ TickStopped \/ TickPaused \/ FinishTick \/ CleanupActors \/ Kill \/ Interrupt
           \/ (\E a \in Actors : AgentEnds(a)) \/ ReporterKilled \/ Pause \/ Stop
           \/ UNCHANGED stageVars
    PROVE  ChainsHold' /\ CoreStays
<1>1. StageTypeOK /\ state \in RunStates
  BY TypeFacts DEF StageInv
<1>2. /\ \/ state' = state
         \/ \E status : state' = [state EXCEPT !.status = status]
         \/ state' = [state EXCEPT !.desired = "paused"]
         \/ \E status : state' = [state EXCEPT !.desired = "stopped", !.status = status]
      /\ UNCHANGED <<pipe, work, log>>
      /\ \/ UNCHANGED <<exec, handling>>
         \/ exec' = [s \in Stages |-> Idle] /\ handling' = NoResult
  <2>1. CASE TickStopped \/ TickPaused \/ FinishTick \/ CleanupActors
    BY <2>1 DEF TickStopped, TickPaused, FinishTick, CleanupActors, engineVars
  <2>2. CASE Kill \/ Interrupt
    BY <2>2 DEF Kill, Interrupt, RunnerEnds
  <2>3. CASE (\E a \in Actors : AgentEnds(a)) \/ ReporterKilled \/ UNCHANGED stageVars
    BY <2>3 DEF AgentEnds, ReporterKilled, stageVars, engineVars
  <2>4. CASE Pause
    BY <2>4 DEF Pause, NotOperator
  <2>5. CASE Stop
    <3>. DEFINE status == IF pc = "off" THEN "stopped" ELSE state.status
    <3>1. /\ state' = [state EXCEPT !.desired = "stopped", !.status = status]
          /\ UNCHANGED <<pipe, work, log, exec, handling>>
      BY <2>5 DEF Stop, NotOperator
    <3>. HIDE DEF status
    <3>. QED
      BY <3>1
  <2>. QED
    BY <2>1, <2>2, <2>3, <2>4, <2>5
<1>3. state'.stages = state.stages /\ state'.revs = state.revs
  BY <1>1, <1>2 DEF RunStates
<1>. QED
  BY <1>1, <1>2, <1>3, QuietChains

LEMMA ExecChains ==
    ASSUME StageInv, ChainsHold, NEW s, Command(s) \/ CheckActor(s) \/ PasteInto(s) \/ Sent(s)
    PROVE  ChainsHold' /\ CoreStays
<1>1. StageTypeOK /\ WaysAreApart /\ AboutToType
  BY DEF StageInv
<1>2. CASE Command(s)
  <2>1. /\ s \in Stages /\ exec[s].at # "none" /\ UNCHANGED log /\ NotExec
        /\ \E at \in Results : Becomes(s, at)
    BY <1>2 DEF Command, Executing, Results
  <2>2. \A at \in Results : at \notin AgentPlaces
    BY DEF Results, AgentPlaces
  <2>. QED
    BY <1>1, <2>1, <2>2, DispatchChains
<1>3. CASE CheckActor(s)
  <2>1. s \in Stages /\ exec[s].at = "check" /\ NotExec /\ OnTheWay(s) /\ exec[s].at # "none"
    BY <1>3 DEF CheckActor, Executing, OnTheWay, AgentPlaces
  <2>2. exec[s].id \in StageIds /\ exec[s].id[1] = s /\ exec[s].revs \in BoundRevs
    BY <1>1, <2>1, TypeFacts DEF WaysAreApart, Executions
  <2>3. CASE \E at \in Results : Becomes(s, at) /\ UNCHANGED log
    BY <1>1, <2>1, <2>3, DispatchChains
  <2>4. CASE /\ Record(exec[s].id, [Entry(exec[s].id) EXCEPT !.status = "sending",
                                                           !.revs = exec[s].revs])
             /\ Becomes(s, "typing")
    <3>. DEFINE entry == [Entry(exec[s].id) EXCEPT !.status = "sending", !.revs = exec[s].revs]
    <3>1. Record(exec[s].id, entry) /\ Becomes(s, "typing")
      BY <2>4
    <3>2. entry.revs = exec[s].revs
      <4>1. Entry(exec[s].id) \in DispatchRecords
        BY <2>2, EntryFacts
      <4>. QED
        BY <2>2, <4>1 DEF DispatchRecords
    <3>. HIDE DEF entry
    <3>3. "typing" \in AgentPlaces
      BY DEF AgentPlaces
    <3>. QED
      BY <1>1, <2>1, <2>2, <3>1, <3>2, <3>3, DispatchChains
  <2>. QED
    BY <1>3, <2>3, <2>4 DEF CheckActor, Results
<1>4. CASE PasteInto(s) \/ Sent(s)
  <2>1. /\ s \in Stages /\ exec[s].at \in {"typing", "typed"} /\ NotExec /\ OnTheWay(s)
        /\ exec[s].at # "none"
    BY <1>4 DEF PasteInto, Sent, Executing, OnTheWay, AgentPlaces
  <2>2. /\ exec[s].id \in StageIds /\ exec[s].id[1] = s
        /\ exec[s].id \in DOMAIN log /\ log[exec[s].id] \in DispatchRecords
    BY <1>1, <2>1, TypeFacts DEF WaysAreApart, AboutToType, Executions, StageTypeOK, LogTypeOK
  <2>. DEFINE dispatch == log[exec[s].id]
              failed == [dispatch EXCEPT !.status = "failed", !.failed = TRUE]
              typed == [dispatch EXCEPT !.typed = TRUE]
              sent == [dispatch EXCEPT !.status = "sent"]
  <2>3. /\ failed.revs = dispatch.revs /\ typed.revs = dispatch.revs
        /\ sent.revs = dispatch.revs
    BY <2>2 DEF DispatchRecords
  <2>4. \E at \in Results \cup {"typed"} :
            /\ Becomes(s, at)
            /\ \E entry \in {failed, typed, sent} : Record(exec[s].id, entry)
    <3>1. CASE PasteInto(s)
      BY <3>1 DEF PasteInto, Failed, Results
    <3>2. CASE Sent(s)
      BY <3>2 DEF Sent, Failed, Results
    <3>. QED
      BY <1>4, <3>1, <3>2
  <2>. HIDE DEF failed, typed, sent
  <2>5. \E entry : Record(exec[s].id, entry) /\ entry.revs = dispatch.revs
    BY <2>3, <2>4
  <2>6. "typed" \in AgentPlaces
    BY DEF AgentPlaces
  <2>. QED
    BY <1>1, <2>1, <2>2, <2>4, <2>5, <2>6, DispatchChains
<1>. QED
  BY <1>2, <1>3, <1>4

\* A stage whose result is handled did not change under it.
LEMMA HandleChains ==
    ASSUME StageInv, ChainsHold, NEW s \in Stages, Handle(s)
    PROVE  ChainsHold' /\ CoreStays
<1>1. StageTypeOK
  BY DEF StageInv
<1>. DEFINE ss == state.stages[s]
            to == IF InputsDrifted(ss, s, work)
                  THEN Outran(ss) ELSE Handled(ss, s, exec[s].at)
<1>2. /\ handling'.stage = s /\ handling'.to = to
      /\ exec' = [exec EXCEPT ![s] = Idle] /\ exec[s].at \in Results
      /\ UNCHANGED <<pipe, state, log, work>>
  BY DEF Handle
<1>. HIDE DEF to
<1>3. \A i \in Stages : exec'[i] = exec[i] \/ exec'[i].at = "none"
  BY <1>1, <1>2, TypeFacts DEF Idle
<1>4. exec[s].at # "none"
  BY <1>2 DEF Results
<1>5. \A i \in Stages : BusyNext(i) => Busy(i)
  BY <1>2, <1>3, <1>4 DEF BusyNext, Busy
<1>6. Noticed'
  BY <1>2 DEF ChainsHold, Noticed, Outdated, ActiveStages, Config
<1>7. ASSUME IsCore(s)
      PROVE  ResultGoesOn(s)
  <2>1. CoreStage(s) /\ ss.status = "running" /\ UpToDate(s, ss.bound)
    BY <1>4, <1>7 DEF ChainsHold, CoreStage, Busy, InProgress, IsActive
  <2>2. ~InputsDrifted(ss, s, work)
    BY <2>1 DEF UpToDate, InputsDrifted
  <2>3. to = Handled(ss, s, exec[s].at) /\ ss \in StageRecords
    BY <1>1, <2>2, TypeFacts DEF to
  <2>4. /\ to.status \in {"succeeded", "blocked", "pending", "failed", "waiting_report"}
        /\ to.gen = ss.gen /\ to.id \in {ss.id, NoId}
        /\ to.status = "waiting_report" => to.bound = ss.bound
    <3>. HIDE DEF ss
    <3>. QED
      BY <1>2, <2>3, HandledFacts
  <2>. QED
    BY <1>2, <2>1, <2>4 DEF ResultGoesOn, CoreStage, InProgress, IsActive
<1>8. ASSUME NEW i \in Stages, IsCore(i)
      PROVE  /\ StageGoesOn(i) /\ ReportsGoOn(i) /\ WayGoesOn(i) /\ ResultGoesOn(i)
             /\ BusyNext(i) => state'.stages[i].status = "running"
  <2>1. CoreStage(i)
    BY <1>8 DEF ChainsHold
  <2>2. StageGoesOn(i)
    BY <1>2, <2>1 DEF StageGoesOn, CoreStage
  <2>3. ReportsGoOn(i) /\ WayGoesOn(i)
    BY <1>2, <1>3 DEF ReportsGoOn, WayGoesOn, OnTheWay, AgentPlaces
  <2>4. ResultGoesOn(i)
    BY <1>2, <1>7, <1>8 DEF ResultGoesOn
  <2>. QED
    BY <1>2, <1>5, <2>1, <2>2, <2>3, <2>4 DEF CoreStage
<1>. QED
  BY <1>1, <1>2, <1>5, <1>6, <1>8, ChainsGoOn

\* One stage changes, and with it what is known of the workspace.
LEMMA OneStage ==
    ASSUME ChainsHold, StageTypeOK, UNCHANGED <<pipe, work, log, exec>>,
           handling' \in {handling, NoResult}, Noticed', NEW s \in Stages,
           \A i \in Stages : i # s => state'.stages[i] = state.stages[i],
           Begun(state'.stages[s]) => Begun(state.stages[s]) \/ Busy(s),
           IsCore(s) => StageGoesOn(s) /\ (BusyNext(s) => state'.stages[s].status = "running")
    PROVE  ChainsHold' /\ CoreStays
<1>1. \A i \in Stages : NoResult.stage # i
  BY PipelineFacts DEF StageTypeOK, NoResult
<1>2. \A t \in Stages : Begun(state'.stages[t]) => Begun(state.stages[t]) \/ Busy(t)
  OBVIOUS
<1>3. ASSUME NEW i \in Stages, IsCore(i)
      PROVE  /\ state'.stages[i] = state.stages[i] \/ StageGoesOn(i)
             /\ BusyNext(i) => state'.stages[i].status = "running"
  <2>1. CASE i = s
    BY <1>3, <2>1
  <2>2. CASE i # s
    BY <1>1, <1>3, <2>2 DEF ChainsHold, CoreStage, BusyNext, Busy
  <2>. QED
    BY <2>1, <2>2
<1>. QED
  BY <1>2, <1>3, StateChains

LEMMA StoreChains ==
    ASSUME StageInv, EngineInv, ChainsHold, Store, ~stray'
    PROVE  ChainsHold' /\ CoreStays
<1>1. StageTypeOK /\ state \in RunStates
  BY TypeFacts DEF StageInv
<1>. DEFINE s == handling.stage
<1>2. /\ handling # NoResult /\ handling' = NoResult
      /\ state' = [state EXCEPT !.stages[s] = handling.to, !.revs = handling.revs,
                                !.status = IF handling.asks THEN "needs_user" ELSE @]
      /\ ~Outdated(state'.stages, handling.revs)
      /\ UNCHANGED <<pipe, work, log, exec>>
  BY DEF Store
<1>3. s \in Stages /\ handling.to \in StageRecords
  BY <1>1, <1>2 DEF StageTypeOK, HandlingTypeOK
<1>4. /\ state'.stages[s] = handling.to /\ state'.revs = handling.revs
      /\ \A i \in Stages : i # s => state'.stages[i] = state.stages[i]
  BY <1>1, <1>2, <1>3 DEF RunStates
<1>5. Noticed'
  BY <1>2, <1>4, NoticedNext
<1>6. ASSUME IsCore(s)
      PROVE  StageGoesOn(s) /\ ~BusyNext(s)
  <2>1. CoreStage(s) /\ CoreResult(s)
    BY <1>3, <1>6 DEF ChainsHold
  <2>2. state.stages[s].status = "running"
    BY <2>1 DEF CoreStage, Busy
  <2>3. StageGoesOn(s)
    BY <1>4, <2>1, <2>2 DEF CoreResult, StageGoesOn, Met
  <2>4. ~BusyNext(s)
    <3>1. s # 0
      BY <1>1, <1>3, PipelineFacts DEF StageTypeOK
    <3>. QED
      BY <1>2, <3>1 DEF EngineInv, BusyNext, NoResult
  <2>. QED
    BY <2>3, <2>4
<1>7. Busy(s)
  BY DEF Busy
<1>. QED
  BY <1>1, <1>2, <1>3, <1>4, <1>5, <1>6, <1>7, OneStage

\* What a producer changes, no other stage of the core looks at any more.
LEMMA EditChains ==
    ASSUME StageInv, ChainsHold, NEW r \in Revisions, Edit(r), ~stray'
    PROVE  ChainsHold' /\ CoreStays
<1>1. StageTypeOK /\ work \in Revs
  BY TypeFacts DEF StageInv
<1>2. PICK p \in Stages : r \in Config(p).produces /\ IsActive(state.stages[p])
  BY DEF Edit, AtWork
<1>3. /\ \E v : work' = [work EXCEPT ![r] = v]
      /\ UNCHANGED <<pipe, state, log, exec, handling>>
  BY DEF Edit, engineVars
<1>4. \A q \in Revisions : q # r => work'[q] = work[q]
  BY <1>1, <1>3 DEF Revs
<1>5. /\ Stages' = Stages
      /\ \A s : Config(s)' = Config(s) /\ Chain(s)' = Chain(s)
  BY <1>3 DEF Stages, Config, Chain
<1>6. \A s : IsCore(s)' <=> IsCore(s)
  BY <1>5 DEF IsCore
<1>7. Noticed'
  <2>1. ASSUME NEW q \in Revisions, state.revs[q] # work'[q]
        PROVE  \E i \in ActiveStages(state.stages) : q \in Config(i).produces
    <3>1. CASE q = r
      <4>1. p \in ActiveStages(state.stages)
        BY <1>1, <1>2, TypeFacts DEF ActiveStages
      <4>. QED
        BY <1>2, <3>1, <4>1
    <3>2. CASE q # r
      BY <1>4, <2>1, <3>2 DEF ChainsHold, Noticed, Outdated
    <3>. QED
      BY <3>1, <3>2
  <2>. QED
    BY <1>3, <1>5, <2>1 DEF Noticed, Outdated, ActiveStages
<1>8. AllStand'
  BY <1>3, <1>5, <1>6 DEF ChainsHold, AllStand, Stands, Busy
<1>9. ASSUME NEW s \in Stages, IsCore(s)
      PROVE  CoreStage(s)' /\ CoreReports(s)' /\ CoreWay(s)' /\ CoreResult(s)'
  <2>1. CoreStage(s) /\ CoreReports(s) /\ CoreWay(s) /\ CoreResult(s)
    BY <1>9 DEF ChainsHold
  <2>2. r \in Config(s).produces \/ Met(state.stages[s])
    <3>1. s \in Chain(p)
      BY <1>2, <1>9 DEF IsCore
    <3>2. Stands(state.stages, p)
      BY <1>2 DEF ChainsHold, AllStand, Begun
    <3>. QED
      BY <1>2, <1>9, <3>1, <3>2 DEF Stands
  <2>4. ASSUME NEW revs \in BoundRevs, ~Met(state.stages[s]), UpToDate(s, revs)
        PROVE  \A q \in DOMAIN revs \ Config(s).produces : revs[q] = work'[q]
    BY <1>4, <2>2, <2>4 DEF UpToDate, BoundRevs
  <2>5. CoreStage(s)'
    <3>1. state.stages[s].bound \in BoundRevs
      BY <1>1, TypeFacts DEF StageRecords
    <3>2. InProgress(state.stages[s]) => ~Met(state.stages[s])
      BY DEF InProgress, IsActive, Met
    <3>. QED
      BY <1>3, <1>5, <2>1, <2>4, <3>1, <3>2 DEF CoreStage, UpToDate, Busy
  <2>6. CoreReports(s)'
    <3>1. \A id \in DOMAIN log : log[id].revs \in BoundRevs
      BY <1>1 DEF StageTypeOK, LogTypeOK, DispatchRecords
    <3>. QED
      BY <1>3, <1>5, <2>1, <2>4, <3>1 DEF CoreReports, UpToDate, IsInput
  <2>7. Busy(s) => ~Met(state.stages[s])
    BY <2>1 DEF CoreStage, Met
  <2>8. CoreWay(s)'
    <3>1. exec[s].revs \in BoundRevs
      BY <1>1, TypeFacts DEF Executions
    <3>2. OnTheWay(s) => Busy(s)
      BY DEF OnTheWay, AgentPlaces, Busy
    <3>. QED
      BY <1>3, <1>5, <2>1, <2>4, <2>7, <3>1, <3>2 DEF CoreWay, UpToDate, IsInput, OnTheWay
  <2>9. CoreResult(s)'
    <3>1. CASE handling.stage = s
      <4>1. handling # NoResult /\ Busy(s)
        <5>1. s # 0
          BY <1>1, PipelineFacts DEF StageTypeOK
        <5>. QED
          BY <3>1, <5>1 DEF NoResult, Busy
      <4>2. handling.to.bound \in BoundRevs
        BY <1>1, <4>1 DEF StageTypeOK, HandlingTypeOK, StageRecords
      <4>. QED
        BY <1>3, <1>5, <2>1, <2>4, <2>7, <4>1, <4>2 DEF CoreResult, UpToDate
    <3>2. CASE handling.stage # s
      BY <1>3, <3>2 DEF CoreResult
    <3>. QED
      BY <3>1, <3>2
  <2>. QED
    BY <2>5, <2>6, <2>8, <2>9
<1>10. CoreStays
  <2>1. ASSUME NEW s \in Stages, IsCore(s)
        PROVE  state.stages[s].status # "stale" /\ ~(state.stages[s].gen > state.stages[s].gen)
    <3>1. state.stages[s].gen \in Nat
      BY <1>1, TypeFacts DEF StageRecords
    <3>. QED
      BY <2>1, <3>1 DEF ChainsHold, CoreStage
  <2>. QED
    BY <1>3, <2>1 DEF CoreStays
<1>. QED
  BY <1>5, <1>6, <1>7, <1>8, <1>9, <1>10 DEF ChainsHold

\* A change that some stage at work accounts for leaves the core alone.
LEMMA DriftedCore ==
    ASSUME StageTypeOK, ChainsHold, NEW revs,
           \A r \in Revisions : state.revs[r] # revs[r] =>
               \E p \in ActiveStages(state.stages) : r \in Config(p).produces
    PROVE  LET drifted == Drifted(state.stages, state.revs, revs) IN
           /\ \A s \in Stages : IsCore(s) => drifted[s] = state.stages[s]
           /\ \A s \in Stages : \/ drifted[s] = state.stages[s]
                                \/ drifted[s].status = "stale"
<1>. DEFINE changed == {r \in Revisions : state.revs[r] # revs[r]}
            direct == {s \in Stages :
                         /\ IsActive(state.stages[s]) \/ state.stages[s].status = "succeeded"
                         /\ \E r \in DOMAIN state.stages[s].bound \cap changed :
                                /\ revs[r] # state.stages[s].bound[r]
                                /\ s \notin Protected(state.stages, r)}
            begun == {s \in Stages :
                        state.stages[s].status \in {"succeeded", "skipped", "failed", "blocked",
                                                    "waiting_report", "running"}}
            stale == direct \cup {s \in begun : Chain(s) \cap direct # {}}
            drifted == Drifted(state.stages, state.revs, revs)
<1>1. drifted = [s \in Stages |-> IF s \in stale
                                  THEN Outran(state.stages[s])
                                  ELSE state.stages[s]]
  BY DEF Drifted
<1>2. ASSUME NEW s \in Stages, IsCore(s)
      PROVE  s \notin direct
  <2>1. SUFFICES ASSUME NEW r \in changed PROVE s \in Protected(state.stages, r)
    OBVIOUS
  <2>2. PICK p \in ActiveStages(state.stages) : r \in Config(p).produces
    BY <2>1
  <2>3. p \in Stages
    BY <2>2, TypeFacts DEF ActiveStages
  <2>4. s \in Chain(p)
    BY <1>2, <2>2, <2>3 DEF IsCore
  <2>. QED
    BY <2>2, <2>4 DEF Protected
<1>3. ASSUME NEW s \in Stages, IsCore(s)
      PROVE  s \notin stale
  <2>1. \A u \in Chain(s) : u \notin direct
    BY <1>2, <1>3, CoreChain DEF StageTypeOK
  <2>. HIDE DEF direct
  <2>. QED
    BY <1>2, <1>3, <2>1
<1>. HIDE DEF stale
<1>4. \A s \in Stages : Outran(state.stages[s]).status = "stale"
  BY TypeFacts DEF StageRecords, Outran
<1>. HIDE DEF drifted
<1>5. \A s \in Stages : drifted[s] = state.stages[s] \/ drifted[s].status = "stale"
  BY <1>1, <1>4
<1>6. \A s \in Stages : IsCore(s) => drifted[s] = state.stages[s]
  BY <1>1, <1>3
<1>. QED
  BY <1>5, <1>6 DEF drifted

\* A stage of the core at work is refused no report of its own.
LEMMA ReportChains ==
    ASSUME StageInv, ChainsHold, AnyReport, ~stray'
    PROVE  ChainsHold' /\ CoreStays
<1>1. StageTypeOK /\ state \in RunStates
  BY TypeFacts DEF StageInv
<1>2. PICK id \in DOMAIN log : RefuseReport(id) \/ \E o \in StageAnswers : SubmitReport(id, o)
  BY DEF AnyReport
<1>3. id \in StageIds /\ id[1] \in Stages /\ log[id] \in DispatchRecords
  BY <1>1 DEF StageTypeOK, LogTypeOK
<1>. DEFINE s == id[1]
<1>4. ASSUME NEW entry, Record(id, entry), entry.revs = log[id].revs
      PROVE  /\ DOMAIN log' = DOMAIN log
             /\ \A i \in DOMAIN log : log'[i].revs = log[i].revs
  BY <1>2, <1>4 DEF Record
<1>5. CASE RefuseReport(id)
  <2>. DEFINE entry == [log[id] EXCEPT !.refused = TRUE]
  <2>1. Record(id, entry) /\ UNCHANGED <<pipe, state, work, exec, handling>>
    BY <1>5 DEF RefuseReport, engineVars
  <2>2. entry.revs = log[id].revs
    BY <1>3 DEF DispatchRecords
  <2>. HIDE DEF entry
  <2>. QED
    BY <1>1, <1>4, <2>1, <2>2, QuietChains
<1>6. CASE \E o \in StageAnswers : SubmitReport(id, o)
  <2>1. PICK o \in StageAnswers : SubmitReport(id, o)
    BY <1>6
  <2>. DEFINE entry == [log[id] EXCEPT !.outcome = o]
  <2>2. Record(id, entry) /\ UNCHANGED <<pipe, state, work, exec, handling>>
    BY <2>1 DEF SubmitReport, engineVars
  <2>3. entry.revs = log[id].revs
    BY <1>3 DEF DispatchRecords
  <2>. HIDE DEF entry
  <2>. QED
    BY <1>1, <1>4, <2>2, <2>3, QuietChains
<1>. QED
  BY <1>2, <1>5, <1>6

LEMMA RefusalChains ==
    ASSUME StageInv, ChainsHold, ApplyRefusal, ~stray'
    PROVE  ChainsHold' /\ CoreStays
<1>1. StageTypeOK /\ state \in RunStates
  BY TypeFacts DEF StageInv
<1>. DEFINE id == reporter.id
            s == id[1]
            ss == Outran(state.stages[s])
<1>2. /\ reporter # NoReport
      /\ state' = [state EXCEPT !.stages[s] = ss, !.revs = reporter.revs]
      /\ state.stages[s].id = id /\ IsActive(state.stages[s]) /\ ReportIsStale(id)
      /\ ~Outdated(state'.stages, reporter.revs)
      /\ UNCHANGED <<pipe, work, log, exec, handling>>
  BY DEF ApplyRefusal
<1>3. id \in StageIds /\ s \in Stages
  BY <1>1, <1>2 DEF StageTypeOK, ReporterTypeOK
<1>4. id \in DOMAIN log /\ Entry(id) = log[id]
  <2>1. CASE id \in DOMAIN log
    BY <2>1 DEF Entry
  <2>2. CASE id \notin DOMAIN log
    <3>1. Entry(id).revs = << >>
      BY <2>2 DEF Entry, NotSent
    <3>. QED
      BY <1>2, <3>1 DEF ReportIsStale
  <2>. QED
    BY <2>1, <2>2
<1>. HIDE DEF id
<1>5. ss.status = "stale"
  BY <1>1, <1>3, TypeFacts DEF StageRecords, Outran
<1>. HIDE DEF ss
<1>6. /\ state'.stages[s] = ss /\ state'.revs = reporter.revs
      /\ \A i \in Stages : i # s => state'.stages[i] = state.stages[i]
  BY <1>1, <1>2, <1>3 DEF RunStates
<1>7. ~IsCore(s)
  <2>1. SUFFICES ASSUME IsCore(s) PROVE FALSE
    OBVIOUS
  <2>2. CoreStage(s) /\ CoreReports(s)
    BY <1>3, <2>1 DEF ChainsHold
  <2>3. id[2] = state.stages[s].gen /\ ~Met(state.stages[s])
    <3>1. id # NoId
      BY <1>1, <1>3, PipelineFacts DEF StageTypeOK, NoId
    <3>. QED
      BY <1>2, <2>2, <3>1 DEF CoreStage, IsActive, Met
  <2>4. UpToDate(s, log[id].revs) /\ IsInput(s, log[id].revs)
    BY <1>4, <2>2, <2>3 DEF CoreReports
  <2>. QED
    BY <1>2, <1>4, <2>4 DEF UpToDate, IsInput, ReportIsStale
<1>8. Noticed'
  BY <1>2, <1>6, NoticedNext
<1>9. ~Begun(state'.stages[s])
  BY <1>5, <1>6 DEF Begun, IsActive, Met
<1>. QED
  BY <1>1, <1>2, <1>3, <1>6, <1>7, <1>8, <1>9, OneStage

LEMMA ApplyChains ==
    ASSUME StageInv, ChainsHold, ApplyReport, ~stray'
    PROVE  ChainsHold' /\ CoreStays
<1>1. StageTypeOK /\ state \in RunStates
  BY TypeFacts DEF StageInv
<1>. DEFINE s == reporter.id[1]
            drifted == Drifted(state.stages, state.revs, reporter.revs)
            bound == Bound(reporter.revs, Config(s).bind \cup Config(s).produces)
            done == Finished(drifted[s], s, reporter.outcome)
            ss == [done EXCEPT !.bound = bound]
            stages == [drifted EXCEPT ![s] = ss]
<1>2. /\ reporter # NoReport /\ reporter.outcome # "stale"
      /\ state' = [state EXCEPT !.stages = stages, !.revs = reporter.revs, !.status = "running"]
      /\ state.stages[s].status = "waiting_report"
      /\ ~Outdated(state'.stages, reporter.revs)
      /\ UNCHANGED <<pipe, work, log, exec, handling>>
  BY DEF ApplyReport, AwaitsReport
<1>3. s \in Stages /\ reporter.outcome \in StageOutcomes
  BY <1>1, <1>2 DEF StageTypeOK, ReporterTypeOK
<1>4. drifted \in [Stages -> StageRecords]
  BY <1>1, TypeFacts, DriftedTyped
<1>. HIDE DEF drifted, bound, s
<1>5. /\ ss.status \in {"succeeded", "blocked", "pending", "failed"}
      /\ ss.gen = drifted[s].gen /\ ss.id = drifted[s].id
  <2>1. /\ done.status \in {"succeeded", "blocked", "pending", "failed"}
        /\ done.gen = drifted[s].gen /\ done.id = drifted[s].id
    BY <1>3, <1>4, FinishedFacts
  <2>2. done \in StageRecords
    BY <1>3, <1>4, FinishedTyped
  <2>. HIDE DEF done
  <2>. QED
    BY <2>1, <2>2 DEF StageRecords
<1>. HIDE DEF ss
<1>6. /\ state'.stages[s] = ss /\ state'.revs = reporter.revs
      /\ \A i \in Stages : i # s => state'.stages[i] = drifted[i]
  BY <1>1, <1>2, <1>3, <1>4 DEF RunStates
<1>13. DOMAIN state'.stages = Stages
  BY <1>1, <1>2, <1>4 DEF RunStates
<1>7. \A i \in Stages : IsActive(drifted[i]) => drifted[i] = state.stages[i]
  <2>1. ASSUME NEW i \in Stages
        PROVE  drifted[i] \in {state.stages[i], Outran(state.stages[i])}
    BY DEF drifted, Drifted
  <2>2. \A i \in Stages : Outran(state.stages[i]).status = "stale"
    BY <1>1, TypeFacts DEF StageRecords, Outran
  <2>. QED
    BY <2>1, <2>2 DEF IsActive
<1>8. ASSUME NEW r \in Revisions, state.revs[r] # reporter.revs[r]
      PROVE  \E p \in ActiveStages(state.stages) : r \in Config(p).produces
  <2>1. CASE reporter.revs[r] = work[r]
    BY <1>8, <2>1 DEF ChainsHold, Noticed, Outdated
  <2>2. CASE reporter.revs[r] # work[r]
    <3>1. PICK p \in ActiveStages(state'.stages) : r \in Config(p).produces
      BY <1>2, <2>2 DEF Outdated
    <3>2. p \in Stages /\ IsActive(state'.stages[p])
      BY <1>13, <3>1 DEF ActiveStages
    <3>3. p # s
      BY <1>5, <1>6, <3>2 DEF IsActive
    <3>4. drifted[p] = state.stages[p]
      <4>1. IsActive(drifted[p])
        BY <1>6, <3>2, <3>3
      <4>. QED
        BY <1>7, <3>2, <4>1
    <3>. QED
      BY <1>1, <1>6, <3>1, <3>2, <3>3, <3>4, TypeFacts DEF ActiveStages
  <2>. QED
    BY <2>1, <2>2
<1>9. /\ \A i \in Stages : IsCore(i) => drifted[i] = state.stages[i]
      /\ \A i \in Stages : drifted[i] = state.stages[i] \/ drifted[i].status = "stale"
  BY <1>1, <1>8, DriftedCore DEF drifted
<1>10. Noticed'
  BY <1>2, <1>6, NoticedNext
<1>11. \A t \in Stages : Begun(state'.stages[t]) => Begun(state.stages[t]) \/ Busy(t)
  BY <1>2, <1>6, <1>9 DEF Begun, IsActive, Met
<1>12. ASSUME NEW i \in Stages, IsCore(i)
       PROVE  /\ state'.stages[i] = state.stages[i] \/ StageGoesOn(i)
              /\ BusyNext(i) => state'.stages[i].status = "running"
  <2>1. CoreStage(i) /\ drifted[i] = state.stages[i]
    BY <1>9, <1>12 DEF ChainsHold
  <2>2. CASE i = s
    <3>1. ~Busy(i) /\ ~BusyNext(i)
      BY <1>2, <2>1, <2>2 DEF CoreStage, Busy, BusyNext
    <3>2. StageGoesOn(i)
      BY <1>2, <1>5, <1>6, <2>1, <2>2 DEF StageGoesOn, CoreStage, InProgress, IsActive, Met
    <3>. QED
      BY <3>1, <3>2
  <2>3. CASE i # s
    BY <1>2, <1>6, <1>12, <2>1, <2>3 DEF CoreStage, Busy, BusyNext
  <2>. QED
    BY <2>2, <2>3
<1>. QED
  BY <1>1, <1>2, <1>10, <1>11, <1>12, StateChains, SMTT(60)

LEMMA ResolveChains ==
    ASSUME StageInv, ChainsHold, NEW s \in Stages, NEW outcome, ResolveHuman(s, outcome)
    PROVE  ChainsHold' /\ CoreStays
<1>1. StageTypeOK
  BY DEF StageInv
<1>2. UNCHANGED <<pipe, state, work, log, exec, handling>>
  BY DEF ResolveHuman, NotOperator
<1>. QED
  BY <1>1, <1>2, QuietChains

LEMMA RefusedAnswerChains ==
    ASSUME StageInv, ChainsHold, RefuseAnswer, ~stray'
    PROVE  ChainsHold' /\ CoreStays
<1>1. StageTypeOK /\ state \in RunStates
  BY TypeFacts DEF StageInv
<1>. DEFINE s == resolver.stage
            ss == Outran(state.stages[s])
<1>2. /\ resolver # NoAnswer
      /\ state' = [state EXCEPT !.stages[s] = ss, !.revs = resolver.revs]
      /\ state.stages[s].status = "waiting_human" /\ InputsDrifted(state.stages[s], s, work)
      /\ ~Outdated(state'.stages, resolver.revs)
      /\ UNCHANGED <<pipe, work, log, exec, handling>>
  BY DEF RefuseAnswer, NotOperator
<1>3. s \in Stages
  BY <1>1, <1>2 DEF StageTypeOK, ResolverTypeOK
<1>. HIDE DEF s
<1>4. ss.status = "stale"
  BY <1>1, <1>3, TypeFacts DEF StageRecords, Outran
<1>. HIDE DEF ss
<1>5. /\ state'.stages[s] = ss /\ state'.revs = resolver.revs
      /\ \A i \in Stages : i # s => state'.stages[i] = state.stages[i]
  BY <1>1, <1>2, <1>3 DEF RunStates
<1>6. ~IsCore(s)
  <2>1. SUFFICES ASSUME IsCore(s) PROVE FALSE
    OBVIOUS
  <2>2. UpToDate(s, state.stages[s].bound)
    BY <1>2, <1>3, <2>1 DEF ChainsHold, CoreStage, InProgress
  <2>. QED
    BY <1>2, <2>2 DEF UpToDate, InputsDrifted
<1>7. Noticed'
  BY <1>2, <1>5, NoticedNext
<1>8. ~Begun(state'.stages[s])
  BY <1>4, <1>5 DEF Begun, IsActive, Met
<1>. QED
  BY <1>1, <1>2, <1>3, <1>5, <1>6, <1>7, <1>8, OneStage

LEMMA AnswerChains ==
    ASSUME StageInv, ChainsHold, ApplyAnswer, ~stray'
    PROVE  ChainsHold' /\ CoreStays
<1>1. StageTypeOK /\ state \in RunStates
  BY TypeFacts DEF StageInv
<1>. DEFINE s == resolver.stage
            bound == Bound(resolver.revs, Config(s).bind \cup Config(s).produces)
            ss == [state.stages[s] EXCEPT !.bound = bound]
            done == Finished(ss, s, resolver.outcome)
<1>2. /\ resolver # NoAnswer /\ resolver.outcome # "stale"
      /\ UNCHANGED <<pipe, work, log, exec, handling>>
  BY DEF ApplyAnswer, NotOperator
<1>3. s \in Stages /\ resolver.revs \in Revs
  BY <1>1, <1>2 DEF StageTypeOK, ResolverTypeOK
<1>4. CASE state.stages[s].status # "waiting_human"
  <2>1. UNCHANGED state
    BY <1>4 DEF ApplyAnswer
  <2>. QED
    BY <1>1, <1>2, <2>1, QuietChains
<1>5. CASE state.stages[s].status = "waiting_human"
  <2>1. /\ state' = [state EXCEPT !.stages[s] = done, !.revs = resolver.revs,
                                  !.status = "running"]
        /\ ~Outdated(state'.stages, resolver.revs)
    BY <1>5 DEF ApplyAnswer
  <2>. HIDE DEF s
  <2>2. /\ done.status \in {"succeeded", "blocked", "pending", "failed"}
        /\ done.gen = state.stages[s].gen /\ done.id = state.stages[s].id
    <3>1. bound \in BoundRevs
      BY <1>1, <1>3, TypeFacts, RevsBound
    <3>. HIDE DEF bound
    <3>2. /\ ss \in StageRecords
          /\ ss.gen = state.stages[s].gen /\ ss.id = state.stages[s].id
      <4>1. state.stages[s] \in StageRecords
        BY <1>1, <1>3, TypeFacts
      <4>2. ss \in StageRecords
        BY <3>1, <4>1, Bind
      <4>. QED
        BY <4>1, <4>2 DEF StageRecords
    <3>. HIDE DEF ss
    <3>. QED
      BY <3>2, FinishedFacts
  <2>. HIDE DEF done
  <2>3. /\ state'.stages[s] = done /\ state'.revs = resolver.revs
        /\ \A i \in Stages : i # s => state'.stages[i] = state.stages[i]
    BY <1>1, <1>3, <2>1 DEF RunStates
  <2>4. Noticed'
    BY <1>2, <2>1, <2>3, NoticedNext
  <2>5. Begun(state.stages[s])
    BY <1>5 DEF Begun, s
  <2>6. ASSUME IsCore(s)
        PROVE  StageGoesOn(s) /\ ~BusyNext(s)
    <3>1. CoreStage(s)
      BY <1>3, <2>6 DEF ChainsHold
    <3>2. ~BusyNext(s)
      BY <1>2, <1>5, <3>1 DEF CoreStage, Busy, BusyNext, s
    <3>3. StageGoesOn(s)
      BY <1>5, <2>2, <2>3, <3>1 DEF StageGoesOn, CoreStage, InProgress, IsActive, Met, s
    <3>. QED
      BY <3>2, <3>3
  <2>. QED
    BY <1>1, <1>2, <1>3, <2>3, <2>4, <2>5, <2>6, OneStage
<1>. QED
  BY <1>4, <1>5

LEMMA ResumeChains ==
    ASSUME StageInv, ChainsHold, Resume
    PROVE  ChainsHold' /\ CoreStays
<1>1. StageTypeOK /\ state \in RunStates
  BY TypeFacts DEF StageInv
<1>. DEFINE again(ss) == [ss EXCEPT !.status = "pending", !.error = "none"]
            stages == [s \in Stages |-> IF /\ state.stages[s].status = "blocked"
                                           /\ state.stages[s].error = "prompt"
                                        THEN again(state.stages[s]) ELSE state.stages[s]]
<1>2. /\ state' = [state EXCEPT !.desired = "running", !.status = "running",
                                !.stages = stages]
      /\ UNCHANGED <<pipe, work, log, exec, handling>>
  BY DEF Resume, NotOperator
<1>3. \A ss \in StageRecords : /\ again(ss).status = "pending" /\ again(ss).gen = ss.gen
                               /\ again(ss).id = ss.id
  BY DEF StageRecords
<1>. HIDE DEF again
<1>4. \A s \in Stages : \/ stages[s] = state.stages[s]
                        \/ /\ state.stages[s].status = "blocked"
                           /\ stages[s].status = "pending"
                           /\ stages[s].gen = state.stages[s].gen
                           /\ stages[s].id = state.stages[s].id
  BY <1>1, <1>3, TypeFacts
<1>5. DOMAIN stages = Stages
  OBVIOUS
<1>. HIDE DEF stages
<1>6. state'.stages = stages /\ state'.revs = state.revs
  BY <1>1, <1>2 DEF RunStates
<1>7. Noticed'
  <2>1. ~Outdated(state.stages, state.revs)
    BY DEF ChainsHold, Noticed
  <2>2. ActiveStages(state.stages) \subseteq ActiveStages(stages)
    BY <1>1, <1>4, <1>5, TypeFacts DEF ActiveStages, IsActive
  <2>3. ~Outdated(stages, state.revs)
    BY <2>1, <2>2 DEF Outdated
  <2>. QED
    BY <1>2, <1>6, <2>3, NoticedNext
<1>8. \A t \in Stages : Begun(state'.stages[t]) => Begun(state.stages[t])
  BY <1>4, <1>6 DEF Begun, IsActive, Met
<1>9. ASSUME NEW s \in Stages, IsCore(s)
      PROVE  /\ state'.stages[s] = state.stages[s] \/ StageGoesOn(s)
             /\ BusyNext(s) => state'.stages[s].status = "running"
  <2>1. CoreStage(s)
    BY <1>9 DEF ChainsHold
  <2>2. BusyNext(s) => state.stages[s].status = "running"
    BY <1>2, <2>1 DEF CoreStage, BusyNext, Busy
  <2>. QED
    BY <1>4, <1>6, <2>1, <2>2 DEF StageGoesOn, CoreStage, InProgress, IsActive, Met
<1>. QED
  BY <1>1, <1>2, <1>7, <1>8, <1>9, StateChains

\* What starts over takes with it all that stands on it.
LEMMA RetryChains ==
    ASSUME StageInv, EngineInv, ChainsHold, NEW s \in Stages, Retry(s), ~stray'
    PROVE  ChainsHold' /\ CoreStays
<1>1. StageTypeOK /\ state \in RunStates /\ pipe \in DOMAIN Pipelines
  BY TypeFacts DEF StageInv
<1>. DEFINE renewed(ss) == [Renewed(ss) EXCEPT !.error = "none"]
            stages == [i \in Stages |-> IF s \in Chain(i) THEN renewed(state.stages[i])
                                        ELSE state.stages[i]]
<1>2. /\ state' = [state EXCEPT !.stages = stages, !.status = "running"]
      /\ ActiveStages(state.stages) = {} /\ pc # "execute" /\ ops' = ops + 1
      /\ UNCHANGED <<pipe, work, log, exec, handling>>
  BY DEF Retry, Operator, NotOperator
<1>3. \A ss \in StageRecords : /\ renewed(ss).status = "pending"
                               /\ renewed(ss).gen = ss.gen + 1 /\ renewed(ss).id = NoId
  BY DEF StageRecords, Renewed
<1>. HIDE DEF renewed
<1>4. \A i \in Stages :
          /\ s \notin Chain(i) => stages[i] = state.stages[i]
          /\ s \in Chain(i) => /\ stages[i].status = "pending" /\ stages[i].id = NoId
                               /\ stages[i].gen = state.stages[i].gen + 1
  BY <1>1, <1>3, TypeFacts
<1>. HIDE DEF stages
<1>5. state'.stages = stages /\ state'.revs = state.revs
  BY <1>1, <1>2 DEF RunStates
<1>6. /\ Stages' = Stages
      /\ \A i : Config(i)' = Config(i) /\ Chain(i)' = Chain(i)
  BY <1>2 DEF Stages, Config, Chain
<1>7. \A i : IsCore(i)' <=> IsCore(i)
  BY <1>6 DEF IsCore
<1>8. \A i \in Stages : ~Busy(i)' /\ exec[i].at = "none" /\ handling.stage # i
  <2>1. \A i \in Stages : i # 0
    BY <1>1, PipelineFacts
  <2>. QED
    BY <1>2, <2>1 DEF EngineInv, Busy, NoResult
<1>9. Noticed'
  <2>1. \A r \in Revisions : state.revs[r] = work[r]
    BY <1>2 DEF ChainsHold, Noticed, Outdated
  <2>. QED
    BY <1>2, <1>5, <2>1 DEF Noticed, Outdated
<1>10. AllStand'
  <2>1. SUFFICES ASSUME NEW t \in Stages, Begun(stages[t]), NEW u \in Chain(t), IsCore(u),
                        u # t
                 PROVE  Met(stages[u])
    BY <1>5, <1>6, <1>7, <1>8 DEF AllStand, Stands
  <2>2. s \notin Chain(t)
    BY <1>4, <2>1 DEF Begun, IsActive, Met
  <2>3. u \in Stages /\ s \notin Chain(u)
    BY <1>1, <2>1, <2>2, ChainFacts
  <2>4. Met(state.stages[u])
    BY <1>4, <2>1, <2>2 DEF ChainsHold, AllStand, Stands
  <2>. QED
    BY <1>4, <2>3, <2>4
<1>11. ASSUME NEW i \in Stages, IsCore(i)
       PROVE  CoreStage(i)' /\ CoreReports(i)' /\ CoreWay(i)' /\ CoreResult(i)'
  <2>1. CoreStage(i) /\ CoreReports(i)
    BY <1>11 DEF ChainsHold
  <2>2. state.stages[i].gen \in Nat
    BY <1>1, TypeFacts DEF StageRecords
  <2>3. CoreStage(i)'
    BY <1>2, <1>4, <1>5, <1>6, <1>8, <2>1
       DEF CoreStage, InProgress, IsActive, UpToDate
  <2>4. CoreReports(i)'
    <3>1. CASE s \notin Chain(i)
      BY <1>2, <1>4, <1>5, <1>6, <2>1, <3>1 DEF CoreReports, UpToDate, IsInput
    <3>2. CASE s \in Chain(i)
      <4>1. \A id \in DOMAIN log : id[2] \in Nat
        BY <1>1 DEF StageTypeOK, LogTypeOK, StageIds
      <4>2. stages[i].gen = state.stages[i].gen + 1
        BY <1>4, <3>2
      <4>. QED
        BY <1>2, <1>5, <1>6, <2>1, <2>2, <4>1, <4>2 DEF CoreReports, IsInput
    <3>. QED
      BY <3>1, <3>2
  <2>5. CoreWay(i)' /\ CoreResult(i)'
    BY <1>2, <1>8 DEF CoreWay, CoreResult, OnTheWay, AgentPlaces
  <2>. QED
    BY <2>3, <2>4, <2>5
<1>12. CoreStays
  <2>1. ops' # ops
    BY <1>2 DEF EngineInv
  <2>2. \A i \in Stages : IsCore(i) => state'.stages[i].status # "stale"
    BY <1>11 DEF CoreStage
  <2>. QED
    BY <2>1, <2>2 DEF CoreStays
<1>. QED
  BY <1>6, <1>7, <1>9, <1>10, <1>11, <1>12 DEF ChainsHold

(***************************************************************************)
(* A tick: the pass starts only what stands on what is done.               *)
(***************************************************************************)
Passed(a, base, s) ==
    LET ss == a.stages[s] IN
    /\ ss.gen = base[s].gen /\ ss.id = base[s].id
    /\ ss.status = "stale" => base[s].status = "stale"
    /\ Met(base[s]) => Met(ss)
    /\ InProgress(ss) => \/ InProgress(base[s]) /\ ss.bound = base[s].bound
                         \/ ss.bound = Bound(a.revs, Config(s).bind)
    /\ s \in a.chosen => ss.status = "runnable"
PassOK(a, base, revs) ==
    /\ a.revs = revs /\ \A s \in Stages : Passed(a, base, s)
    /\ \A t \in Stages : Begun(a.stages[t]) \/ t \in a.chosen => Stands(a.stages, t)

LEMMA PassGoesOn ==
    ASSUME pipe \in DOMAIN Pipelines, NEW a, NEW b, NEW base, NEW revs,
           PassOK(a, base, revs), b.revs = a.revs,
           \A i \in Stages :
               LET ss == b.stages[i]
                   old == a.stages[i]
               IN  /\ ss.gen = old.gen /\ ss.id = old.id
                   /\ ss.status = "stale" => old.status = "stale"
                   /\ Met(old) => Met(ss)
                   /\ InProgress(ss) => \/ InProgress(old) /\ ss.bound = old.bound
                                        \/ ss.bound = Bound(a.revs, Config(i).bind)
                   /\ i \in b.chosen => ss.status = "runnable",
           \A t \in Stages : Begun(b.stages[t]) \/ t \in b.chosen =>
               Begun(a.stages[t]) \/ t \in a.chosen \/ Stands(a.stages, t)
    PROVE  PassOK(b, base, revs)
<1>1. ASSUME NEW s \in Stages PROVE Passed(b, base, s)
  <2>1. Passed(a, base, s)
    BY DEF PassOK
  <2>. QED
    BY <2>1 DEF Passed
<1>2. ASSUME NEW t \in Stages, Begun(b.stages[t]) \/ t \in b.chosen
      PROVE  Stands(b.stages, t)
  <2>1. Stands(a.stages, t)
    BY <1>2 DEF PassOK
  <2>2. \A u \in Chain(t) : u \in Stages
    BY ChainFacts
  <2>. QED
    BY <2>1, <2>2 DEF Stands
<1>. QED
  BY <1>1, <1>2 DEF PassOK

\* A stage whose needs are met stands on what is done.
LEMMA NoneUnmet ==
    ASSUME pipe \in DOMAIN Pipelines, NEW s \in Stages, NEW stages, FirstUnmet(stages, s) = 0
    PROVE  \A n \in NeedsOf(Pipelines[pipe], s) : Met(stages[n])
<1>. DEFINE needs == Config(s).needs
            unmet == {k \in DOMAIN needs : ~Met(stages[needs[k]])}
<1>1. needs \in Seq(Stages)
  <2>1. ValidPipeline(Pipelines[pipe])
    BY PipelinesAreValid
  <2>. QED
    BY <2>1 DEF ValidPipeline, ValidStage, Stages, Config
<1>2. NeedsOf(Pipelines[pipe], s) = {needs[k] : k \in DOMAIN needs}
  BY DEF NeedsOf, Config
<1>3. ASSUME unmet # {} PROVE FALSE
  <2>. DEFINE k == CHOOSE k \in unmet : \A j \in unmet : k <= j
  <2>1. FirstUnmet(stages, s) = needs[k]
    BY <1>3 DEF FirstUnmet
  <2>2. k \in unmet
    <3>1. unmet \subseteq Nat
      BY <1>1
    <3>. HIDE DEF unmet
    <3>2. PICK j \in unmet : \A i \in unmet : j <= i
      BY <1>3, <3>1, MinIn
    <3>. QED
      BY <3>2
  <2>. HIDE DEF k
  <2>3. needs[k] \in Stages
    BY <1>1, <2>2
  <2>4. needs[k] # 0
    BY <2>3, PipelineFacts
  <2>. QED
    BY <2>1, <2>4
<1>. QED
  BY <1>2, <1>3

LEMMA MetNeedsStand ==
    ASSUME pipe \in DOMAIN Pipelines, NEW s \in Stages, NEW stages,
           FirstUnmet(stages, s) = 0,
           \A t \in Stages : Begun(stages[t]) => Stands(stages, t)
    PROVE  Stands(stages, s)
<1>1. \A n \in NeedsOf(Pipelines[pipe], s) : n \in Stages /\ Met(stages[n]) /\ Stands(stages, n)
  BY NoneUnmet, ChainFacts DEF Begun
<1>2. ASSUME NEW u \in Chain(s), IsCore(u), u # s
      PROVE  Met(stages[u])
  <2>1. PICK n \in NeedsOf(Pipelines[pipe], s) : u \in Chain(n)
    BY <1>2, ChainFacts
  <2>. QED
    BY <1>1, <1>2, <2>1 DEF Stands
<1>. QED
  BY <1>2 DEF Stands

LEMMA SkipPass ==
    ASSUME pipe \in DOMAIN Pipelines, NEW a, PlanOK(a), NEW s \in Stages, s \notin a.chosen,
           NEW base, NEW revs, PassOK(a, base, revs),
           a.stages[s].status \in {"pending", "runnable"}, NEW cause \in StageErrors,
           cause = "dependency" \/ Stands(a.stages, s)
    PROVE  LET b == [a EXCEPT !.stages[s] = Skip(a.stages[s], cause)] IN
           PassOK(b, base, revs) /\ b.chosen = a.chosen
<1>. DEFINE b == [a EXCEPT !.stages[s] = Skip(a.stages[s], cause)]
<1>1. a \in Plans /\ a.stages \in [Stages -> StageRecords] /\ a.stages[s] \in StageRecords
  BY DEF PlanOK, Plans
<1>2. /\ Skip(a.stages[s], cause).status = "skipped" /\ Skip(a.stages[s], cause).error = cause
      /\ Skip(a.stages[s], cause).gen = a.stages[s].gen
      /\ Skip(a.stages[s], cause).id = a.stages[s].id
  BY <1>1 DEF Skip, StageRecords
<1>3. /\ b.revs = a.revs /\ b.chosen = a.chosen
      /\ b.stages[s] = Skip(a.stages[s], cause)
      /\ \A i \in Stages : i # s => b.stages[i] = a.stages[i]
  BY <1>1 DEF Plans
<1>. HIDE DEF b
<1>4. ~Met(a.stages[s])
  BY DEF Met
<1>5. ~InProgress(b.stages[s]) /\ (Begun(b.stages[s]) => cause # "dependency")
  BY <1>2, <1>3 DEF InProgress, Begun, IsActive, Met
<1>6. \A i \in Stages :
          /\ b.stages[i].gen = a.stages[i].gen /\ b.stages[i].id = a.stages[i].id
          /\ b.stages[i].status = "stale" => a.stages[i].status = "stale"
          /\ Met(a.stages[i]) => Met(b.stages[i])
          /\ InProgress(b.stages[i]) => InProgress(a.stages[i])
                                        /\ b.stages[i].bound = a.stages[i].bound
          /\ i \in b.chosen => b.stages[i].status = "runnable"
  BY <1>2, <1>3, <1>4, <1>5 DEF PassOK, Passed
<1>7. PassOK(b, base, revs)
  BY <1>3, <1>5, <1>6, PassGoesOn
<1>. QED
  BY <1>3, <1>7 DEF b

LEMMA AskHumanPass ==
    ASSUME pipe \in DOMAIN Pipelines, NEW a, PlanOK(a), NEW s \in Stages, s \notin a.chosen,
           NEW base, NEW revs, PassOK(a, base, revs),
           a.stages[s].status \in {"pending", "runnable"}, Stands(a.stages, s)
    PROVE  PassOK(AskHuman(a, s), base, revs) /\ AskHuman(a, s).chosen = {}
<1>. DEFINE asked(ss) == [ss EXCEPT !.status = "waiting_human", !.attempt = @ + 1,
                                    !.bound = Bound(a.revs, Config(s).bind)]
            back(ss) == [ss EXCEPT !.status = "pending"]
            stages == [i \in Stages |-> CASE i = s -> asked(a.stages[i])
                                          [] i \in a.chosen -> back(a.stages[i])
                                          [] OTHER -> a.stages[i]]
            b == AskHuman(a, s)
<1>1. a \in Plans /\ a.stages \in [Stages -> StageRecords]
  BY DEF PlanOK, Plans
<1>2. \A ss \in StageRecords :
          /\ asked(ss).status = "waiting_human" /\ asked(ss).gen = ss.gen
          /\ asked(ss).id = ss.id /\ asked(ss).bound = Bound(a.revs, Config(s).bind)
          /\ back(ss).status = "pending" /\ back(ss).gen = ss.gen /\ back(ss).id = ss.id
  BY DEF StageRecords
<1>3. b = [a EXCEPT !.stages = stages, !.status = "needs_user", !.chosen = {}, !.human = TRUE]
  BY DEF AskHuman
<1>. HIDE DEF asked, back, b
<1>4. /\ stages[s] = asked(a.stages[s])
      /\ \A i \in Stages : i # s => \/ stages[i] = a.stages[i]
                                    \/ i \in a.chosen /\ stages[i] = back(a.stages[i])
  <2>1. stages[s] = asked(a.stages[s])
    OBVIOUS
  <2>2. ASSUME NEW i \in Stages, i # s
        PROVE  stages[i] = IF i \in a.chosen THEN back(a.stages[i]) ELSE a.stages[i]
    BY <2>2
  <2>. QED
    BY <2>1, <2>2
<1>. HIDE DEF stages
<1>5. b.revs = a.revs /\ b.chosen = {} /\ b.stages = stages
  BY <1>1, <1>3 DEF Plans
<1>6. ASSUME NEW i \in Stages
      PROVE  LET ss == b.stages[i]
                 old == a.stages[i]
             IN  /\ ss.gen = old.gen /\ ss.id = old.id
                 /\ ss.status = "stale" => old.status = "stale"
                 /\ Met(old) => Met(ss)
                 /\ InProgress(ss) => \/ InProgress(old) /\ ss.bound = old.bound
                                      \/ ss.bound = Bound(a.revs, Config(i).bind)
                 /\ Begun(ss) => Begun(old) \/ i = s
  <2>1. a.stages[i] \in StageRecords
    BY <1>1
  <2>2. CASE i = s
    BY <1>2, <1>4, <1>5, <2>1, <2>2 DEF Met, InProgress, IsActive
  <2>3. CASE i # s /\ stages[i] = a.stages[i]
    BY <1>5, <2>3
  <2>4. CASE i \in a.chosen /\ i # s /\ stages[i] = back(a.stages[i])
    <3>1. a.stages[i].status = "runnable"
      BY <2>4 DEF PassOK, Passed
    <3>. QED
      BY <1>2, <1>5, <2>1, <2>4, <3>1 DEF Met, InProgress, IsActive, Begun
  <2>. QED
    BY <1>4, <2>2, <2>3, <2>4
<1>7. PassOK(b, base, revs)
  <2>1. \A t \in Stages : Begun(b.stages[t]) \/ t \in b.chosen =>
            Begun(a.stages[t]) \/ t \in a.chosen \/ Stands(a.stages, t)
    BY <1>5, <1>6
  <2>. QED
    BY <1>5, <1>6, <2>1, PassGoesOn
<1>. QED
  BY <1>5, <1>7 DEF b

LEMMA ChoosePass ==
    ASSUME pipe \in DOMAIN Pipelines, NEW a, PlanOK(a), NEW s \in Stages,
           NEW base, NEW revs, PassOK(a, base, revs),
           a.stages[s].status \in {"pending", "runnable"}, Stands(a.stages, s)
    PROVE  /\ PassOK(Choose(a, s), base, revs)
           /\ Choose(a, s).chosen \subseteq a.chosen \cup {s}
<1>. DEFINE ss == [a.stages[s] EXCEPT !.status = "runnable"]
            b == Choose(a, s)
<1>1. a \in Plans /\ a.stages \in [Stages -> StageRecords] /\ a.stages[s] \in StageRecords
  BY DEF PlanOK, Plans
<1>2. ss.status = "runnable" /\ ss.gen = a.stages[s].gen /\ ss.id = a.stages[s].id
  BY <1>1 DEF StageRecords
<1>3. /\ b.revs = a.revs /\ b.chosen \subseteq a.chosen \cup {s}
      /\ b.stages[s] = ss /\ \A i \in Stages : i # s => b.stages[i] = a.stages[i]
  <2>1. CASE a.room > 0 /\ Config(s).actor \notin a.busy
    <3>1. b = [a EXCEPT !.stages[s].status = "runnable", !.chosen = @ \cup {s},
                        !.room = @ - 1, !.busy = @ \cup ({Config(s).actor} \ {"none"})]
      BY <2>1 DEF Choose
    <3>. HIDE DEF b
    <3>. QED
      BY <1>1, <3>1 DEF Plans
  <2>2. CASE ~(a.room > 0 /\ Config(s).actor \notin a.busy)
    <3>1. b = [a EXCEPT !.stages[s].status = "runnable"]
      BY <2>2 DEF Choose
    <3>. HIDE DEF b
    <3>. QED
      BY <1>1, <3>1 DEF Plans
  <2>. QED
    BY <2>1, <2>2
<1>. HIDE DEF ss, b
<1>4. ~Met(a.stages[s]) /\ ~InProgress(b.stages[s]) /\ ~Begun(b.stages[s])
  BY <1>2, <1>3 DEF Met, InProgress, IsActive, Begun
<1>5. \A i \in Stages :
          /\ b.stages[i].gen = a.stages[i].gen /\ b.stages[i].id = a.stages[i].id
          /\ b.stages[i].status = "stale" => a.stages[i].status = "stale"
          /\ Met(a.stages[i]) => Met(b.stages[i])
          /\ InProgress(b.stages[i]) => InProgress(a.stages[i])
                                        /\ b.stages[i].bound = a.stages[i].bound
          /\ i \in b.chosen => b.stages[i].status = "runnable"
  BY <1>2, <1>3, <1>4 DEF PassOK, Passed
<1>6. PassOK(b, base, revs)
  <2>1. \A t \in Stages : Begun(b.stages[t]) \/ t \in b.chosen =>
            Begun(a.stages[t]) \/ t \in a.chosen \/ Stands(a.stages, t)
    BY <1>3, <1>4
  <2>. QED
    BY <1>3, <1>5, <2>1, PassGoesOn
<1>. QED
  BY <1>3, <1>6 DEF b

LEMMA ConsiderPass ==
    ASSUME pipe \in DOMAIN Pipelines, NEW resting, NEW a, PlanOK(a), NEW s \in Stages,
           s \notin a.chosen, NEW base, NEW revs, PassOK(a, base, revs)
    PROVE  /\ PassOK(Consider(a, s, resting), base, revs)
           /\ Consider(a, s, resting).chosen \subseteq a.chosen \cup {s}
<1>. DEFINE unmet == FirstUnmet(a.stages, s)
            considered == a.stages[s].status \in {"pending", "runnable"}
<1>1. \/ Consider(a, s, resting) = a
      \/ considered /\ Consider(a, s, resting) =
                           [a EXCEPT !.stages[s] = Skip(a.stages[s], "dependency")]
      \/ /\ considered /\ unmet = 0
         /\ \/ Consider(a, s, resting) =
                   [a EXCEPT !.stages[s] = Skip(a.stages[s], a.stages[s].error)]
            \/ Consider(a, s, resting) = AskHuman(a, s)
            \/ Consider(a, s, resting) = Choose(a, s)
  BY DEF Consider
<1>2. "dependency" \in StageErrors /\ a.stages[s].error \in StageErrors
  BY DEF PlanOK, Plans, StageErrors, StageRecords
<1>3. unmet = 0 => Stands(a.stages, s)
  BY MetNeedsStand DEF PassOK
<1>. HIDE DEF unmet
<1>4. CASE Consider(a, s, resting) = a
  BY <1>4
<1>5. CASE /\ considered
           /\ Consider(a, s, resting) =
                  [a EXCEPT !.stages[s] = Skip(a.stages[s], "dependency")]
  BY <1>2, <1>5, SkipPass
<1>6. CASE /\ considered /\ unmet = 0
           /\ Consider(a, s, resting) =
                  [a EXCEPT !.stages[s] = Skip(a.stages[s], a.stages[s].error)]
  BY <1>2, <1>3, <1>6, SkipPass
<1>7. CASE considered /\ unmet = 0 /\ Consider(a, s, resting) = AskHuman(a, s)
  BY <1>3, <1>7, AskHumanPass
<1>8. CASE considered /\ unmet = 0 /\ Consider(a, s, resting) = Choose(a, s)
  BY <1>3, <1>8, ChoosePass
<1>. QED
  BY <1>1, <1>4, <1>5, <1>6, <1>7, <1>8

LEMMA ScheduledPass ==
    ASSUME pipe \in DOMAIN Pipelines, NEW resting, NEW st,
           st.stages \in [Stages -> StageRecords],
           st.revs \in Revs, st.status \in RunStatuses,
           \A t \in Stages : Begun(st.stages[t]) => Stands(st.stages, t)
    PROVE  PassOK(Scheduled(st, resting), st.stages, st.revs)
<1>. DEFINE n == Cardinality(Stages)
            pass == CHOOSE plans : PlansUpTo(st, resting, plans, n)
<1>1. Scheduled(st, resting) = pass[n]
  BY DEF Scheduled, PlansUpTo, FirstPlan
<1>2. n \in Nat /\ Stages = 1..n
  BY PipelineFacts
<1>3. PlansUpTo(st, resting, pass, n)
  BY <1>2, PlansExist
<1>. HIDE DEF pass, n
<1>4. /\ pass[0] = FirstPlan(st)
      /\ \A s \in 1..n : pass[s] = Consider(pass[s - 1], s, resting)
  BY <1>2, <1>3 DEF PlansUpTo
<1>. DEFINE OK(k) == /\ PlanOK(pass[k]) /\ PassOK(pass[k], st.stages, st.revs)
                     /\ pass[k].chosen \subseteq 1..k
            Bad == {k \in 0..n : ~OK(k)}
<1>5. ASSUME Bad # {} PROVE FALSE
  <2>. DEFINE k == Min(Bad)
  <2>1. k \in Bad /\ \A j \in Bad : k =< j
    <3>1. Bad \subseteq Nat
      BY <1>2
    <3>. HIDE DEF Bad
    <3>. QED
      BY <1>5, <3>1, MinIn
  <2>. HIDE DEF k
  <2>2. k # 0
    <3>1. PlanOK(FirstPlan(st))
      BY FirstPlanOK
    <3>2. /\ FirstPlan(st).stages = st.stages /\ FirstPlan(st).revs = st.revs
          /\ FirstPlan(st).chosen = {}
      BY DEF FirstPlan
    <3>3. PassOK(FirstPlan(st), st.stages, st.revs)
      BY <3>2 DEF PassOK, Passed
    <3>4. OK(0)
      BY <1>4, <3>1, <3>2, <3>3
    <3>. QED
      BY <2>1, <3>4
  <2>3. k \in 1..n /\ k - 1 \in 0..n /\ k - 1 \notin Bad
    BY <1>2, <2>1, <2>2
  <2>4. OK(k - 1)
    BY <2>3
  <2>5. k \in Stages /\ k \notin pass[k - 1].chosen
    BY <1>2, <2>3, <2>4
  <2>6. PlanOK(Consider(pass[k - 1], k, resting))
    BY <2>4, <2>5, ConsiderKeeps
  <2>7. /\ PassOK(Consider(pass[k - 1], k, resting), st.stages, st.revs)
        /\ Consider(pass[k - 1], k, resting).chosen \subseteq pass[k - 1].chosen \cup {k}
    BY <2>4, <2>5, ConsiderPass
  <2>8. Consider(pass[k - 1], k, resting).chosen \subseteq 1..k
    BY <2>3, <2>4, <2>7
  <2>. QED
    BY <1>4, <2>1, <2>3, <2>6, <2>7, <2>8
<1>6. OK(n)
  BY <1>2, <1>5
<1>. QED
  BY <1>1, <1>6

LEMMA TickChains ==
    ASSUME StageInv, EngineInv, ChainsHold, NEW late, NEW resting, TickRuns(late, resting)
    PROVE  ChainsHold' /\ CoreStays
<1>. DEFINE before == Drifted(state.stages, state.revs, work)
            drifted == Advanced(before)
            timed == [s \in Stages |-> IF s \in late THEN Finished(drifted[s], s, "timeout")
                                                     ELSE drifted[s]]
            status == IF state.status \in {"paused", "stopped"} THEN "running"
                      ELSE state.status
            st == [state EXCEPT !.stages = timed, !.status = status, !.revs = work]
            plan == Scheduled(st, resting)
            stages == [s \in Stages |-> IF s \in plan.chosen THEN Started(plan, s)
                                        ELSE plan.stages[s]]
            after == [state EXCEPT !.status = plan.status, !.revs = work, !.stages = stages]
<1>1. /\ StageTypeOK /\ state \in RunStates /\ work \in Revs /\ pipe \in DOMAIN Pipelines
      /\ state.stages \in [Stages -> StageRecords]
  BY TypeFacts DEF StageInv
<1>2. /\ before \in [Stages -> StageRecords] /\ drifted \in [Stages -> StageRecords]
  BY <1>1, DriftedTyped
<1>3. timed \in [Stages -> StageRecords]
  <2>1. "timeout" \in StageOutcomes
    BY DEF StageOutcomes
  <2>. HIDE DEF drifted
  <2>2. \A s \in Stages : Finished(drifted[s], s, "timeout") \in StageRecords
    BY <1>2, <2>1, FinishedTyped
  <2>. QED
    BY <1>2, <2>2
<1>4. status \in RunStatuses
  BY <1>1 DEF RunStates, RunStatuses
<1>5. /\ state' = after /\ late \subseteq MayBeLate
      /\ exec' = [s \in Stages |-> IF s \in plan.chosen THEN FirstStep(after, s) ELSE Idle]
      /\ UNCHANGED <<pipe, log, work, handling>> /\ pc = "tick"
  BY ZenonT(60) DEF TickRuns, Ticked
<1>6. MayBeLate = {s \in Stages : drifted[s].status = "waiting_report"}
  BY ZenonT(60) DEF MayBeLate
<1>. HIDE DEF before, drifted, timed, status
<1>7. /\ st.stages = timed /\ st.revs = work /\ st.status \in RunStatuses
      /\ st.stages \in [Stages -> StageRecords] /\ st.revs \in Revs
  BY <1>1, <1>3, <1>4 DEF RunStates
<1>. HIDE DEF st
\* Up to the pass, the core stays as it is, but for what is late.
<1>8. ASSUME NEW s \in Stages
      PROVE  /\ IsCore(s) => drifted[s] = state.stages[s]
             /\ \/ drifted[s] = state.stages[s]
                \/ drifted[s].status = "pending" /\ drifted[s].error = before[s].error
  <2>1. /\ IsCore(s) => before[s] = state.stages[s]
        /\ before[s] = state.stages[s] \/ before[s].status = "stale"
    <3>1. \A r \in Revisions : state.revs[r] # work[r] =>
              \E p \in ActiveStages(state.stages) : r \in Config(p).produces
      BY DEF ChainsHold, Noticed, Outdated
    <3>. QED
      BY <1>1, <3>1, DriftedCore DEF before
  <2>2. drifted[s] = IF before[s].status = "stale" THEN Renewed(before[s]) ELSE before[s]
    BY DEF drifted, Advanced
  <2>3. /\ Renewed(before[s]).status = "pending"
        /\ Renewed(before[s]).error = before[s].error
    BY <1>2 DEF Renewed, StageRecords
  <2>4. IsCore(s) => state.stages[s].status # "stale"
    BY DEF ChainsHold, CoreStage
  <2>. QED
    BY <2>1, <2>2, <2>3, <2>4
<1>9. ASSUME NEW s \in Stages
      PROVE  \/ timed[s] = drifted[s] /\ s \notin late
             \/ /\ drifted[s].status = "waiting_report"
                /\ timed[s].status \in {"succeeded", "blocked", "pending", "failed"}
                /\ timed[s].gen = drifted[s].gen /\ timed[s].id = drifted[s].id
  <2>1. CASE s \notin late
    BY <2>1 DEF timed
  <2>2. CASE s \in late
    <3>1. timed[s] = Finished(drifted[s], s, "timeout")
      BY <2>2 DEF timed
    <3>2. /\ timed[s].status \in {"succeeded", "blocked", "pending", "failed"}
          /\ timed[s].gen = drifted[s].gen /\ timed[s].id = drifted[s].id
      BY <1>2, <3>1, FinishedFacts
    <3>. QED
      BY <1>5, <1>6, <2>2, <3>2
  <2>. QED
    BY <2>1, <2>2
<1>10. \A t \in Stages : Begun(timed[t]) => Begun(state.stages[t])
  BY <1>8, <1>9 DEF Begun, IsActive, Met
<1>11. ASSUME NEW s \in Stages, IsCore(s)
       PROVE  /\ timed[s].status # "stale" /\ timed[s].gen = state.stages[s].gen
              /\ timed[s].id = state.stages[s].id
              /\ Met(state.stages[s]) => Met(timed[s])
              /\ InProgress(timed[s]) => timed[s] = state.stages[s]
  <2>1. drifted[s] = state.stages[s] /\ state.stages[s].status # "stale"
    BY <1>8, <1>11 DEF ChainsHold, CoreStage
  <2>. QED
    BY <1>9, <2>1 DEF Met, InProgress, IsActive
<1>12. ASSUME NEW t \in Stages, Begun(timed[t])
       PROVE  Stands(timed, t)
  <2>1. Stands(state.stages, t)
    BY <1>10, <1>12 DEF ChainsHold, AllStand
  <2>2. \A u \in Chain(t) : u \in Stages
    BY <1>1, ChainFacts
  <2>. QED
    BY <1>11, <2>1, <2>2 DEF Stands
\* The pass and what it starts.
<1>13. /\ PlanOK(plan) /\ PassOK(plan, timed, work)
  BY <1>1, <1>7, <1>12, ScheduledOK, ScheduledPass
<1>. HIDE DEF plan
<1>14. /\ plan.stages \in [Stages -> StageRecords] /\ plan.chosen \subseteq Stages
       /\ plan.revs = work
  BY <1>13 DEF PlanOK, Plans, PassOK
<1>15. ASSUME NEW s \in plan.chosen
       PROVE  LET new == Started(plan, s) IN
              /\ s \in Stages /\ new.status = "running"
              /\ new.gen = plan.stages[s].gen
              /\ new.bound = Bound(work, Config(s).bind)
              /\ Config(s).type = "agent" => new.id[2] = plan.stages[s].gen
              /\ Config(s).type # "agent" => new.id = plan.stages[s].id
  <2>1. s \in Stages /\ plan.stages[s] \in StageRecords
    BY <1>14
  <2>. DEFINE ss == plan.stages[s]
              id == IF Config(s).type = "agent" THEN <<s, ss.gen, ss.attempt + 1>> ELSE ss.id
              new == Started(plan, s)
  <2>2. new = [ss EXCEPT !.status = "running", !.attempt = @ + 1, !.error = "none",
                         !.outcome = "none", !.bound = Bound(work, Config(s).bind), !.id = id]
    BY <1>14 DEF Started
  <2>3. /\ Config(s).type = "agent" => id[2] = ss.gen
        /\ Config(s).type # "agent" => id = ss.id
    OBVIOUS
  <2>. HIDE DEF id, new, ss
  <2>4. /\ new.status = "running" /\ new.gen = ss.gen /\ new.id = id
        /\ new.bound = Bound(work, Config(s).bind)
    BY <2>1, <2>2 DEF ss, StageRecords
  <2>. QED
    BY <2>1, <2>3, <2>4 DEF new, ss
<1>16. /\ state'.stages = stages /\ state'.revs = work
  BY <1>1, <1>5 DEF RunStates
<1>17. \A s \in Stages : stages[s] = IF s \in plan.chosen THEN Started(plan, s)
                                     ELSE plan.stages[s]
  OBVIOUS
<1>. HIDE DEF stages, after
<1>18. Noticed'
  BY <1>5, <1>16, NoticedNext
<1>19. \A s \in Stages : s # 0 /\ (BusyNext(s) => s \in plan.chosen)
  <2>1. \A s \in Stages : s # 0
    BY <1>1, PipelineFacts
  <2>. QED
    BY <1>5, <2>1 DEF EngineInv, BusyNext, Idle, NoResult
<1>20. ASSUME NEW t \in Stages, Begun(state'.stages[t]) \/ BusyNext(t)
       PROVE  Stands(state'.stages, t)
  <2>1. Begun(plan.stages[t]) \/ t \in plan.chosen
    BY <1>16, <1>17, <1>19, <1>20
  <2>2. Stands(plan.stages, t)
    BY <1>13, <2>1 DEF PassOK
  <2>3. ASSUME NEW u \in Chain(t), Met(plan.stages[u])
        PROVE  Met(state'.stages[u])
    <3>1. u \in Stages
      BY <1>1, ChainFacts
    <3>2. u \notin plan.chosen
      BY <1>13, <2>3, <3>1 DEF PassOK, Passed, Met
    <3>. QED
      BY <1>16, <1>17, <2>3, <3>1, <3>2
  <2>. QED
    BY <2>2, <2>3 DEF Stands
<1>21. ASSUME NEW s \in Stages, IsCore(s)
       PROVE  /\ StageGoesOn(s) /\ ReportsGoOn(s) /\ WayGoesOn(s) /\ ResultGoesOn(s)
              /\ BusyNext(s) => state'.stages[s].status = "running"
  <2>1. CoreStage(s) /\ Passed(plan, timed, s)
    BY <1>13, <1>21 DEF ChainsHold, PassOK
  <2>2. UpToDate(s, Bound(work, Config(s).bind))
    BY DEF UpToDate, Bound
  <2>3. CASE s \in plan.chosen
    <3>1. plan.stages[s].status = "runnable" /\ ~Met(state.stages[s])
      BY <1>11, <1>21, <2>1, <2>3 DEF Passed, Met
    <3>2. state'.stages[s] = Started(plan, s)
      BY <1>16, <1>17, <2>3
    <3>3. StageGoesOn(s)
      BY <1>11, <1>15, <1>21, <2>1, <2>2, <2>3, <3>1, <3>2
         DEF StageGoesOn, CoreStage, Passed
    <3>4. WayGoesOn(s)
      <4>1. /\ exec'[s].at = "check" => Config(s).type = "agent"
            /\ exec'[s].at \notin {"typing", "typed"}
            /\ exec'[s].id = state'.stages[s].id
            /\ exec'[s].revs = Bound(state'.stages[s].bound, Inputs(s))
        <5>1. exec'[s] = FirstStep(after, s) /\ after.stages[s] = state'.stages[s]
          BY <1>5, <2>3
        <5>. QED
          BY <5>1 DEF FirstStep
      <4>2. exec'[s].at \in AgentPlaces => exec'[s].id[2] = state.stages[s].gen
        BY <1>11, <1>15, <1>21, <2>1, <2>3, <3>2, <4>1 DEF AgentPlaces, Passed
      <4>3. IsInput(s, exec'[s].revs) /\ UpToDate(s, exec'[s].revs)
        <5>1. exec'[s].revs = Bound(Bound(work, Config(s).bind), Inputs(s))
          BY <1>15, <2>3, <3>2, <4>1
        <5>. QED
          BY <5>1 DEF Bound, Inputs, IsInput, UpToDate
      <4>. QED
        BY <4>2, <4>3 DEF WayGoesOn
    <3>. QED
      BY <1>5, <1>15, <2>3, <3>2, <3>3, <3>4 DEF ReportsGoOn, ResultGoesOn
  <2>4. CASE s \notin plan.chosen
    <3>1. state'.stages[s] = plan.stages[s] /\ exec'[s] = Idle
      BY <1>5, <1>16, <1>17, <2>4
    <3>2. StageGoesOn(s)
      BY <1>11, <1>14, <1>21, <2>1, <2>2, <3>1 DEF StageGoesOn, CoreStage, Passed
    <3>3. WayGoesOn(s)
      BY <3>1 DEF WayGoesOn, Idle, AgentPlaces
    <3>. QED
      BY <1>5, <1>19, <2>4, <3>2, <3>3 DEF ReportsGoOn, ResultGoesOn
  <2>. QED
    BY <2>3, <2>4
<1>. QED
  BY <1>1, <1>5, <1>18, <1>20, <1>21, ChainsGoOn

-----------------------------------------------------------------------------
ChainInv == EngineInv /\ (stray \/ ChainsHold)

LEMMA EngineStays ==
    ASSUME StageInv, EngineInv, [StageNext]_stageVars
    PROVE  EngineInv'
<1>1. /\ ops' \in {ops, ops + 1}
      /\ \/ UNCHANGED <<exec, handling, pipe>> /\ (pc' = "execute" <=> pc = "execute")
         \/ ExecStep \/ Store \/ (\E late, resting : TickRuns(late, resting))
         \/ RunnerEnds /\ pipe' = pipe
  <2>1. CASE UNCHANGED stageVars
    BY <2>1 DEF stageVars, engineVars, bounds
  <2>2. CASE RunnerStep
    <3>1. CASE TickStopped \/ FinishTick \/ CleanupActors
      BY <3>1 DEF TickStopped, FinishTick, CleanupActors, bounds
    <3>2. CASE Store \/ (\E late, resting : TickRuns(late, resting))
      BY <3>2, SMTT(60) DEF Store, TickRuns, bounds
    <3>3. CASE ExecStep
      BY <3>3 DEF ExecStep, Command, CheckActor, PasteInto, Sent, NotExec, Handle, bounds
    <3>. QED
      BY <2>2, <3>1, <3>2, <3>3 DEF RunnerStep
  <2>3. CASE Start \/ TickPaused \/ Kill \/ Interrupt
    BY <2>3 DEF Start, TickPaused, Kill, Interrupt, RunnerEnds, engineVars, bounds
  <2>4. CASE (\E r \in Revisions : Edit(r)) \/ (\E a \in Actors : AgentEnds(a)) \/ ReporterKilled
    BY <2>4 DEF Edit, AgentEnds, ReporterKilled, engineVars, bounds
  <2>5. CASE AnyReport \/ ApplyRefusal \/ ApplyReport
    BY <2>5 DEF AnyReport, RefuseReport, SubmitReport, ApplyRefusal, ApplyReport, Raced,
                NoRace, engineVars, bounds
  <2>6. CASE AnyOperator
    BY <2>6 DEF AnyOperator, Operator, NotOperator, Raced, NoRace, Retry, ResolveHuman,
                RefuseAnswer, ApplyAnswer, Pause, Resume, Stop
  <2>. QED
    BY <2>1, <2>2, <2>3, <2>4, <2>5, <2>6 DEF StageNext
<1>2. /\ StageTypeOK /\ pipe \in DOMAIN Pipelines /\ exec \in [Stages -> Executions]
      /\ ops' \in Nat
  BY <1>1, TypeFacts DEF StageInv, EngineInv
<1>3. CASE UNCHANGED <<exec, handling, pipe>> /\ (pc' = "execute" <=> pc = "execute")
  BY <1>2, <1>3 DEF EngineInv, Stages
<1>4. CASE ExecStep
  <2>1. PICK s \in Stages : Command(s) \/ CheckActor(s) \/ PasteInto(s) \/ Sent(s) \/ Handle(s)
    BY <1>4 DEF ExecStep
  <2>2. CASE Handle(s)
    <3>1. /\ pc = "execute" /\ pc' = pc /\ pipe' = pipe
          /\ handling'.stage = s /\ exec' = [exec EXCEPT ![s] = Idle]
      BY <2>2 DEF Handle
    <3>. QED
      BY <1>2, <3>1 DEF EngineInv, Idle
  <2>3. CASE Command(s) \/ CheckActor(s) \/ PasteInto(s) \/ Sent(s)
    <3>1. /\ pc = "execute" /\ exec[s].at # "none" /\ NotExec
          /\ \E at : Becomes(s, at)
      BY <2>3 DEF Command, CheckActor, PasteInto, Sent, Executing
    <3>2. pc' = pc /\ UNCHANGED handling
      BY <3>1 DEF NotExec
    <3>3. \A i : i # s => exec'[i] = exec[i]
      BY <3>1 DEF Becomes
    <3>. QED
      BY <1>2, <3>1, <3>2, <3>3 DEF EngineInv
  <2>. QED
    BY <2>1, <2>2, <2>3
<1>5. CASE Store
  <2>1. /\ handling # NoResult /\ handling' = NoResult /\ UNCHANGED <<exec, pipe>>
        /\ pc' = IF \A s \in Stages : exec[s] = Idle THEN "finish" ELSE pc
    BY <1>5 DEF Store
  <2>2. pc = "execute"
    BY <2>1 DEF EngineInv
  <2>. QED
    BY <1>2, <2>1, <2>2 DEF EngineInv, Idle, Stages
<1>6. CASE \E late, resting : TickRuns(late, resting)
  <2>1. PICK late, resting : TickRuns(late, resting)
    BY <1>6
  <2>. DEFINE t == Ticked(late, resting)
  <2>2. /\ pc = "tick" /\ UNCHANGED <<handling, pipe>>
        /\ exec' = [s \in Stages |-> IF s \in t.chosen THEN FirstStep(t.state, s) ELSE Idle]
        /\ pc' = IF t.chosen = {} THEN "finish" ELSE "execute"
    BY <2>1 DEF TickRuns
  <2>. HIDE DEF t
  <2>3. handling' = NoResult
    BY <2>2 DEF EngineInv
  <2>4. pc' # "execute" => \A s \in Stages : exec'[s].at = "none"
    BY <2>2 DEF Idle
  <2>. QED
    BY <1>2, <2>2, <2>3, <2>4 DEF EngineInv, Stages
<1>7. CASE RunnerEnds /\ pipe' = pipe
  BY <1>2, <1>7 DEF EngineInv, RunnerEnds, Idle, Stages
<1>. QED
  BY <1>1, <1>3, <1>4, <1>5, <1>6, <1>7

LEMMA StrayStays ==
    ASSUME [StageNext]_stageVars, stray
    PROVE  stray'
<1>1. CASE UNCHANGED stageVars
  BY <1>1 DEF stageVars
<1>2. CASE RunnerStep
  <2>1. CASE \/ TickStopped \/ FinishTick \/ CleanupActors \/ Store
             \/ \E late, resting : TickRuns(late, resting)
    BY <2>1 DEF TickStopped, FinishTick, CleanupActors, Store, TickRuns, bounds
  <2>2. CASE ExecStep
    BY <2>2 DEF ExecStep, Command, CheckActor, PasteInto, Sent, NotExec, Handle, bounds
  <2>. QED
    BY <1>2, <2>1, <2>2 DEF RunnerStep
<1>3. CASE Start \/ TickPaused \/ Kill \/ Interrupt
  BY <1>3 DEF Start, TickPaused, Kill, Interrupt, bounds
<1>4. CASE (\E r \in Revisions : Edit(r)) \/ (\E a \in Actors : AgentEnds(a)) \/ ReporterKilled
  BY <1>4 DEF Edit, AgentEnds, ReporterKilled, bounds
<1>5. CASE AnyReport \/ ApplyRefusal \/ ApplyReport
  BY <1>5 DEF AnyReport, RefuseReport, SubmitReport, ApplyRefusal, ApplyReport, bounds
<1>6. CASE AnyOperator
  BY <1>6 DEF AnyOperator, Retry, ResolveHuman, RefuseAnswer, ApplyAnswer, Pause, Resume, Stop
<1>. QED
  BY <1>1, <1>2, <1>3, <1>4, <1>5, <1>6 DEF StageNext

LEMMA ChainsStart == StageInit => ChainInv
<1>1. SUFFICES ASSUME StageInit PROVE ChainInv
  OBVIOUS
<1>2. /\ pipe \in DOMAIN Pipelines /\ state.revs = work
      /\ state.stages = [s \in Stages |-> NewStage]
      /\ DOMAIN log = {} /\ exec = [s \in Stages |-> Idle] /\ handling = NoResult
      /\ ops = 0
  BY <1>1 DEF StageInit
<1>3. \A s \in Stages : exec[s].at = "none" /\ ~Busy(s)
  <2>1. \A s \in Stages : s # 0
    BY <1>2, PipelineFacts
  <2>. QED
    BY <1>2, <2>1 DEF Idle, Busy, NoResult
<1>4. \A s \in Stages : /\ state.stages[s].status = "pending" /\ state.stages[s].id = NoId
  BY <1>2 DEF NewStage
<1>5. Noticed
  BY <1>2 DEF Noticed, Outdated
<1>6. AllStand
  BY <1>3, <1>4 DEF AllStand, Begun, IsActive, Met
<1>7. ASSUME NEW s \in Stages
      PROVE  CoreStage(s) /\ CoreReports(s) /\ CoreWay(s) /\ CoreResult(s)
  BY <1>2, <1>3, <1>4
     DEF CoreStage, CoreReports, CoreWay, CoreResult, InProgress, IsActive, OnTheWay,
         AgentPlaces, Busy
<1>8. EngineInv
  BY <1>2, <1>3 DEF EngineInv
<1>. QED
  BY <1>5, <1>6, <1>7, <1>8 DEF ChainInv, ChainsHold

LEMMA ChainsStep ==
    ASSUME StageInv, EngineInv, ChainsHold, [StageNext]_stageVars, ~stray'
    PROVE  ChainsHold' /\ CoreStays
<1>1. CASE RunnerStep
  <2>1. CASE ExecStep
    BY <2>1, ExecChains, HandleChains DEF ExecStep
  <2>. QED
    BY <1>1, <2>1, EngineChains, TickChains, StoreChains DEF RunnerStep
<1>2. CASE AnyOperator
  BY <1>2, ResolveChains, RefusedAnswerChains, AnswerChains, RetryChains, ResumeChains,
     EngineChains DEF AnyOperator
<1>. QED
  BY <1>1, <1>2, StartChains, EngineChains, EditChains, ReportChains, RefusalChains,
     ApplyChains DEF StageNext

\* For any workflows, actors, faults and commands: as long as nothing came out of turn,
\* the stages that every producer stands on neither go stale nor start over unasked
\* (engine.go:402-480, 779-822).
THEOREM ChainsKept == StageSpec => ProducerKeepsItsChain
<1>1. StageInv /\ ChainInv /\ [StageNext]_stageVars => ChainInv'
  BY EngineStays, StrayStays, ChainsStep DEF ChainInv
<1>2. StageSpec => []ChainInv
  BY <1>1, ChainsStart, StageInvariant, PTL DEF StageSpec
<1>3. StageInv /\ ChainInv /\ [StageNext]_stageVars =>
          [\A s \in Stages :
              (/\ \/ state'.stages[s].status = "stale"
                  \/ state'.stages[s].gen > state.stages[s].gen /\ ops' = ops
               /\ \A p \in Stages : Config(p).produces # {} => s \in Chain(p))
              => stray']_stageVars
  BY StrayStays, ChainsStep DEF ChainInv, CoreStays, IsCore
<1>. QED
  BY <1>2, <1>3, StageInvariant, PTL DEF StageSpec, ProducerKeepsItsChain
=============================================================================
