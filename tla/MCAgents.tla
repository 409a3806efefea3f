------------------------------ MODULE MCAgents ------------------------------
(* The agent_dev stage of a workflow and, in behaviours of their own, what   *)
(* surrounds the panes that agents are in: a wait for their usage limit, the *)
(* agent that runs below a shell, the commands that its hooks report, when   *)
(* its screen last changed, the screen in a browser and what is typed there, *)
(* the list of panes, pushed notifications, and the rules that answer an     *)
(* agent's questions.  They share no state.                                  *)
EXTENDS MCAgentDev, QuotaWait, PaneRuntime, ShellHooks, PaneActivity, PanePatches,
        PaneInput, PaneRows, PushSubscriptions, WatchRules

\* The shell that a wrapper is, an agent, and another.
MCKindOf == [p \in Pids |-> CASE p = 1 -> "unknown" [] p = 2 -> "claude" [] OTHER -> "codex"]

\* Names of up to so many pieces: letters, what looks like a number, like an id.
Names(pieces, most) == SeqOf(pieces, most) \ {<< >>}
MCSessionNames == Names({"w", "7", "$1"}, 3)
MCWindowNames == Names({"w", "7", "%1"}, 2)
MCCommandNames == Names({"w", "7", "/p"}, 2)
MCPaths == {<<"/p">>, <<"/p", "7">>, <<"">>, <<"/p", "/p">>}

\* Rules that never allow the same question, and rules that do.
WatchRule(paths, patterns, cooldown, maxRuns) ==
    [paths |-> paths, patterns |-> patterns, cooldown |-> cooldown, maxRuns |-> maxRuns]
MCRuleSets ==
    {<<WatchRule({<<"a">>}, {}, 3, 0), WatchRule({}, {<<"b", "*">>}, 3, 1)>>,
     <<WatchRule({<<"a">>}, {}, 3, 0), WatchRule({<<"a", "d">>}, {}, 3, 0)>>}
\* Inside, outside by "..", in two places, by a pattern, and with "no" selected.
Question(paths, selected) == [paths |-> paths, selected |-> selected]
MCQuestions ==
    {Question({<<"a", "d">>}, "yes"), Question({<<"a", "..", "c">>}, "yes"),
     Question({<<"a">>, <<"b", "d">>}, "yes"), Question({<<"b", "d">>}, "yes"),
     Question({<<"a">>}, "no")}

VARIABLE part

allVars == <<vars, quotaVars, runtimeVars, hookVars, activityVars, patchVars, inputVars,
             rowVars, subVars, watchVars>>
In(p) == part = p /\ UNCHANGED part

\* What is not the part that runs begins in one way only.
AgentsInit ==
    /\ part \in {"dev", "quota", "runtime", "hooks", "memory", "patches", "input", "rows",
                 "push", "watch"}
    /\ Init /\ RuntimeInit /\ HooksInit /\ MemoryInit /\ InputInit /\ PushInit
    /\ QuotaInit /\ (part # "quota" => provider = "claude")
    /\ PatchesInit /\ (part # "patches" => relayed = Viewers)
    /\ WatchInit /\ (part # "watch" => ruleSet = CHOOSE s \in MCRuleSets : TRUE)
    /\ IF part = "rows" THEN RowsInit ELSE shown = << >> /\ read = Unread
AgentsNext ==
    \/ In("dev") /\ Next
       /\ UNCHANGED <<quotaVars, runtimeVars, hookVars, activityVars, patchVars, inputVars,
                      rowVars, subVars, watchVars>>
    \/ In("quota") /\ QuotaNext
       /\ UNCHANGED <<vars, runtimeVars, hookVars, activityVars, patchVars, inputVars,
                      rowVars, subVars, watchVars>>
    \/ In("runtime") /\ RuntimeNext
       /\ UNCHANGED <<vars, quotaVars, hookVars, activityVars, patchVars, inputVars,
                      rowVars, subVars, watchVars>>
    \/ In("hooks") /\ HooksNext
       /\ UNCHANGED <<vars, quotaVars, runtimeVars, activityVars, patchVars, inputVars,
                      rowVars, subVars, watchVars>>
    \/ In("memory") /\ MemoryNext
       /\ UNCHANGED <<vars, quotaVars, runtimeVars, hookVars, patchVars, inputVars,
                      rowVars, subVars, watchVars>>
    \/ In("patches") /\ PatchesNext
       /\ UNCHANGED <<vars, quotaVars, runtimeVars, hookVars, activityVars, inputVars,
                      rowVars, subVars, watchVars>>
    \/ In("input") /\ InputNext
       /\ UNCHANGED <<vars, quotaVars, runtimeVars, hookVars, activityVars, patchVars,
                      rowVars, subVars, watchVars>>
    \/ In("rows") /\ ReadRow
       /\ UNCHANGED <<vars, quotaVars, runtimeVars, hookVars, activityVars, patchVars,
                      inputVars, subVars, watchVars>>
    \/ In("push") /\ PushNext
       /\ UNCHANGED <<vars, quotaVars, runtimeVars, hookVars, activityVars, patchVars,
                      inputVars, rowVars, watchVars>>
    \/ In("watch") /\ WatchNext
       /\ UNCHANGED <<vars, quotaVars, runtimeVars, hookVars, activityVars, patchVars,
                      inputVars, rowVars, subVars>>
AgentsSpec == AgentsInit /\ [][AgentsNext]_<<allVars, part>>
=============================================================================
