------------------------------- MODULE MCLive -------------------------------
(* The commands of a thread and, in behaviours of its own, the runner of a *)
(* workflow: the two share no state.                                       *)
EXTENDS MCAskReply, MCWorkflow

VARIABLE part

LiveInit ==
    /\ part \in {"ask", "workflow"}
    /\ Init
    /\ StageInit /\ (part # "workflow" => pipe = 1)
LiveNext ==
    /\ UNCHANGED part
    /\ \/ part = "ask" /\ Next /\ UNCHANGED stageVars
       \/ part = "workflow" /\ StageNext /\ UNCHANGED vars
LiveSafeSpec == LiveInit /\ [][LiveNext]_<<vars, stageVars, part>>
LiveSpec ==
    /\ LiveSafeSpec
    /\ Fairness /\ (part = "workflow" => StageFairness)

\* Where the workflow runs, its runner comes to an end or to its user (engine.go).
WorkflowSettles == part = "workflow" => RunnerSettles
=============================================================================
