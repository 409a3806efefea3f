--------------------------- MODULE WorkflowConfig ---------------------------
(***************************************************************************)
(* A workflow configuration as internal/workflow accepts it (config.go):   *)
(* stages in the order of the file, each named by its position, and what   *)
(* Validate asks of them after the defaults were filled in.                *)
(*                                                                         *)
(* A condition is a set of alternatives, each a set of literals about a    *)
(* stage's status or outcome or about a revision it is bound to; the tests *)
(* of evidence and of variables are left out.                              *)
(***************************************************************************)
EXTENDS Integers, Sequences, FiniteSets

CONSTANTS
    Pipelines,      \* the configurations to run, numbered
    Actors,         \* the agents that type for a stage, by their mutex key
    Revisions       \* names of the watched parts of the workspace

StageTypes == {"agent", "command", "gate", "human"}
Dispositions == {"success", "retry", "blocked", "failed"}
Statuses == {"pending", "runnable", "running", "waiting_report", "waiting_human",
             "succeeded", "failed", "blocked", "stale", "skipped"}

Always == {{}}      \* no condition at all

NeedsOf(p, s) == {p.stages[s].needs[k] : k \in DOMAIN p.stages[s].needs}

\* What s needs, directly or not: what every set holds that has the needs of s and,
\* with a stage, its needs.
Upstream(p, s) ==
    {n \in DOMAIN p.stages :
        \A S \in SUBSET DOMAIN p.stages :
            NeedsOf(p, s) \subseteq S /\ (\A m \in S : NeedsOf(p, m) \subseteq S) => n \in S}

ValidCondition(p, c) ==
    \A alternative \in c : \A l \in alternative :
        /\ l.stage \in DOMAIN p.stages
        /\ \/ l.of = "status" /\ l.value \in Statuses
           \/ l.of = "outcome"
           \/ l.of = "bound" /\ l.value \in Revisions

\* The fields that each type of stage must have, and those it must not.
ValidType(s) ==
    \/ s.type = "agent" /\ s.actor \in Actors /\ s.outcomes # << >> /\ s.gate = Always
    \/ s.type = "command" /\ s.actor = "none" /\ s.gate = Always
    \/ s.type = "gate" /\ s.actor = "none" /\ s.outcomes = << >> /\ s.gate # Always
    \/ s.type = "human" /\ s.actor = "none" /\ s.outcomes # << >> /\ s.gate = Always

ValidStage(p, s) ==
    /\ s.type \in StageTypes /\ ValidType(s)
    /\ s.needs \in Seq(DOMAIN p.stages)
    /\ s.bind \subseteq Revisions /\ s.produces \subseteq Revisions
    /\ s.attempts \in Nat \ {0}
    /\ \A o \in DOMAIN s.outcomes : s.outcomes[o] \in Dispositions
    /\ ValidCondition(p, s.when) /\ ValidCondition(p, s.gate)

ValidPipeline(p) ==
    /\ p.parallel \in Nat \ {0}
    /\ Len(p.stages) \in Nat \ {0} /\ DOMAIN p.stages = 1..Len(p.stages)
    /\ \A s \in DOMAIN p.stages : ValidStage(p, p.stages[s])
    /\ \A s \in DOMAIN p.stages : s \notin Upstream(p, s)     \* detectCycle

ASSUME PipelinesAreValid == \A p \in DOMAIN Pipelines : ValidPipeline(Pipelines[p])

\* A stage with everything it stands on; evaluated once for each pipeline.
Chains == [p \in DOMAIN Pipelines |->
              [s \in DOMAIN Pipelines[p].stages |-> {s} \cup Upstream(Pipelines[p], s)]]
=============================================================================
