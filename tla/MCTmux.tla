------------------------------- MODULE MCTmux -------------------------------
(* What types into panes and keeps track of sessions, each in behaviours of *)
(* its own: they share no state.  Of the dispatches there are two           *)
(* undisturbed, or one with a human and a screen that loses input: the      *)
(* model of a pane is explored for each, not for both at once.              *)
EXTENDS Dispatch, SessionHistory, SessionSnapshots, HumanActivity, TLC

Option(clear, queue, trust, restart, leased) ==
    [clear |-> clear, queue |-> queue, trust |-> trust, restart |-> restart,
     leased |-> leased]

\* Reuse an agent or launch one; queue into a busy one; replace one.
MCOptionSets ==
    {Option(TRUE, FALSE, TRUE, FALSE, FALSE), Option(FALSE, TRUE, FALSE, FALSE, FALSE),
     Option(TRUE, FALSE, TRUE, TRUE, TRUE)}

VARIABLE part

allVars == <<dispatchVars, histVars, snapVars, actVars>>

Init ==
    /\ part \in {"dispatch", "history", "snapshots", "activity"}
    /\ DispatchInit
    /\ part # "dispatch" =>
        /\ prog = "nosession" /\ ~lease
        /\ \A d \in Commands : opt[d] = Option(FALSE, TRUE, FALSE, FALSE, FALSE)
    /\ HistoryInit /\ (part # "history" => live = {})
    /\ SnapshotsInit /\ (part # "snapshots" => Live = {})
    /\ ActivityInit

Next ==
    /\ UNCHANGED part
    /\ \/ part = "dispatch" /\ DispatchNext /\ UNCHANGED <<histVars, snapVars, actVars>>
       \/ part = "history" /\ HistoryNext /\ UNCHANGED <<dispatchVars, snapVars, actVars>>
       \/ part = "snapshots" /\ SnapshotsNext /\ UNCHANGED <<dispatchVars, histVars, actVars>>
       \/ part = "activity" /\ ActivityNext /\ UNCHANGED <<dispatchVars, histVars, snapVars>>
Spec == Init /\ [][Next]_<<allVars, part>>

Begun == {d \in Commands : ~At(d, {"probe"})}
OneTrouble == Cardinality(Begun) > 1 => human + lost = 0
Same == Permutations(Commands) \cup Permutations(Hosts)
=============================================================================
