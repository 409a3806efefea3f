------------------------------- MODULE MCLoop -------------------------------
(* The runner of a loop and, in behaviours of their own, the commands that *)
(* start loops, the calendar and the inspection of a pane: they share no   *)
(* state.                                                                  *)
EXTENDS LoopRunner, LoopStart, LoopCalendar, PaneStates

\* An action every time unit; a flow of two steps every other one, in an idle
\* pane, with a delay after each step.
MCItems == <<
    [steps |-> 1, flow |-> FALSE, every |-> 1, maxRuns |-> 0, delay |-> 0,
     onlyIdle |-> FALSE, postDelay |-> FALSE],
    [steps |-> 2, flow |-> TRUE, every |-> 2, maxRuns |-> 0, delay |-> 1,
     onlyIdle |-> TRUE, postDelay |-> TRUE] >>

\* The questions: of either agent, with and without digits; one that Claude or
\* Codex asks under every heading the detectors know.
Hint == Plain("hint")
MCMenus == {
    <<Plain("directory"), Plain("allowthis"), Option(1, "yes", NoCursor),
      Option(2, "yes", "claude"), Hint>>,
    <<Plain("command"), Option(1, "yes", "claude"), Option(2, "no", NoCursor)>>,
    <<Plain("text"), Option(1, "a", "codex"), Plain("text"), Option(2, "b", NoCursor),
      Plain("text"), Hint>>,
    <<Plain("workspace"), Plain("createdortrust"), Row("no exit", "claude"),
      Row("yes trust", NoCursor), Hint>>,
    <<Plain("default"), Row("yes default", "claude"), Row("no keep", NoCursor), Hint>>,
    <<Plain("waiting"), Plain("text"), Line("input", 0, "empty", "codex")>>}
\* What may stand in a transcript, some of it left by what was asked before.
MCOld == {Plain("text"), Plain("running"), Option(1, "a", NoCursor), Plain("proceed"),
          Plain("directory"), Line("limit", 1, "limit", NoCursor),
          Line("codexlimit", 0, "exact", NoCursor)}

VARIABLE part

allVars == <<loopVars, startVars, calVars, inspectVars>>
In(p) == part = p /\ UNCHANGED part

Init ==
    /\ part \in {"runner", "start", "calendar", "inspect"}
    /\ LoopInit /\ StartInit
    /\ IF part = "calendar" THEN CalInit
       ELSE calNow = 0 /\ calDays = {0} /\ calWindows = <<[start |-> 0, end |-> DayLength]>>
    /\ InspectInit
    /\ part # "inspect" =>
        /\ agent = "codex" /\ wrapper = "direct" /\ mode = "shell"
        /\ printed = <<>> /\ ~inspection.batch
Next ==
    \/ In("runner") /\ LoopNext /\ UNCHANGED <<startVars, calVars, inspectVars>>
    \/ In("start") /\ StartNext /\ UNCHANGED <<loopVars, calVars, inspectVars>>
    \/ In("calendar") /\ CalNext /\ UNCHANGED <<loopVars, startVars, inspectVars>>
    \/ In("inspect") /\ InspectNext /\ UNCHANGED <<loopVars, startVars, calVars>>
Fairness == WF_allVars(In("runner") /\ LoopStep /\ UNCHANGED <<startVars, calVars, inspectVars>>)
Spec == Init /\ [][Next]_<<allVars, part>> /\ Fairness
=============================================================================
