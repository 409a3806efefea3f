----------------------------- MODULE MCWorkflow -----------------------------
(* Workflows for the stage runner, each small and with one difficulty.     *)
EXTENDS WorkflowStages

Stage(type, needs) ==
    [type |-> type, needs |-> needs, actor |-> "none", outcomes |-> << >>,
     bind |-> {}, produces |-> {}, when |-> Always, gate |-> Always, attempts |-> 1]
Agent(actor, needs) ==
    [Stage("agent", needs) EXCEPT !.actor = actor,
         !.outcomes = [o \in {"success", "failed"} |-> o]]
Outcome(s, o) == {{[of |-> "outcome", stage |-> s, value |-> o, holds |-> TRUE]}}

\* Two stages of one agent.
SharedActor ==
    [parallel |-> 2,
     stages |-> <<[Agent("a", << >>) EXCEPT !.attempts = 2], Agent("a", << >>)>>]
\* Both the first stages look at what the second one writes, beside a third.
Producer ==
    [parallel |-> 2,
     stages |-> <<[Stage("command", << >>) EXCEPT !.bind = {"r"}],
                  [Agent("a", <<1>>) EXCEPT !.bind = {"r"}, !.produces = {"r"},
                                            !.attempts = 2],
                  Stage("command", <<1>>)>>]
\* A human decides; a gate looks at the decision.
Decision ==
    [parallel |-> 1,
     stages |-> <<Agent("b", << >>),
                  [Stage("human", <<1>>) EXCEPT !.bind = {"r"}, !.outcomes =
                       [o \in {"success", "changes"} |-> "success"]],
                  [Stage("gate", <<2>>) EXCEPT !.gate = Outcome(2, "success")]>>]
\* A revision that is made only when the first stage asks for changes.
Revised ==
    [parallel |-> 1,
     stages |-> <<[Stage("command", << >>) EXCEPT !.bind = {"r"},
                       !.outcomes = [o \in {"failed"} |-> "success"]],
                  [Stage("command", <<1>>) EXCEPT !.when = Outcome(1, "failed")],
                  Stage("command", <<2>>)>>]
\* Anyone may change what an agent looks at.
Overtaken ==
    [parallel |-> 1, stages |-> <<[Agent("a", << >>) EXCEPT !.bind = {"r"}]>>]
Workflows == <<SharedActor, Producer, Decision, Overtaken>>
Skips == <<Revised>>

\* Bound: one thing goes wrong or is asked for, two where a human decides.
FewTroubles ==
    /\ ops + faults <= IF pipe = 3 THEN 2 ELSE 1
    /\ pipe \in {2, 4} => ops = 0
=============================================================================
