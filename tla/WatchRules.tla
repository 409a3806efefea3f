----------------------------- MODULE WatchRules -----------------------------
(* The watcher of a pane that answers, with Enter, the questions of an agent *)
(* whether it may use directories: those that a rule allows.  It looks once  *)
(* in a while, goes through its rules with what it saw, and leaves alone for *)
(* a time what it has answered; the agent takes its time to read the key.    *)
EXTENDS Integers, Sequences, FiniteSetsExt, SequencesExt

CONSTANTS
    RuleSets,       \* sequences of rules: paths and patterns, cooldown, most runs (0: any)
    Questions,      \* what the agent asks for: a set of paths, an option selected
    ReadsWithin,    \* how long the agent takes to read a key, and
    LookTakes,      \* the watcher from a look to its last key
    MaxAsked,       \* bound on its questions
    MaxHands,       \* bound on what a human answers
    LastWatched     \* bound on the clock

ASSUME WatchAssumption ==
    /\ {ReadsWithin, LookTakes, MaxAsked, MaxHands, LastWatched} \subseteq Nat
    /\ RuleSets \subseteq Seq([paths : SUBSET Seq(STRING), patterns : SUBSET Seq(STRING),
                              cooldown : Nat, maxRuns : Nat])
    /\ \A rules \in RuleSets :
        /\ rules # << >>
        /\ \A i \in DOMAIN rules : rules[i].cooldown > ReadsWithin + LookTakes

VARIABLES
    ruleSet,        \* the rules in force
    asked,          \* the questions so far
    unanswered,           \* whether the last of them is unanswered
    keys,           \* when the keys not read yet were pressed
    watch,          \* the watcher: its step, when and what it saw, the rule it is at
    lastAccepted,   \* per rule, when it accepted which question
    runs,           \* per rule, how often
    accepted,       \* the questions that a key of the watcher answered
    hands, watchTime
watchVars ==
    <<ruleSet, asked, unanswered, keys, watch, lastAccepted, runs, accepted, hands, watchTime>>

NotLooking == [at |-> 0, seen |-> 0, rule |-> 0]
Asks(i) == asked[i]

----------------------------------------------------------------------------
(* What a rule allows.  A path is its components.                            *)

\* filepath.Clean of an absolute path.
Clean(path) ==
    FoldLeft(LAMBDA done, c : CASE c = "." -> done
                                [] c = ".." -> IF done = << >> THEN done ELSE Front(done)
                                [] OTHER -> Append(done, c), << >>, path)
Matches(pattern, path) ==
    /\ Len(pattern) = Len(path)
    /\ \A i \in DOMAIN path : pattern[i] \in {"*", path[i]}
PathAllowed(path, rule) ==
    \/ \E allowed \in rule.paths : IsPrefix(Clean(allowed), Clean(path))
    \/ \E pattern \in rule.patterns : Matches(Clean(pattern), Clean(path))
\* evaluateDirectoryAccess: an option that accepts, and paths that are all allowed.
Allows(rule, question) ==
    /\ question.selected = "yes" /\ question.paths # {}
    /\ \A path \in question.paths : PathAllowed(path, rule)

----------------------------------------------------------------------------
(* The agent, and whoever else answers it.                                   *)

Ask(q) ==
    /\ ~unanswered /\ Len(asked) < MaxAsked
    /\ asked' = Append(asked, q) /\ unanswered' = TRUE
    /\ UNCHANGED <<ruleSet, keys, watch, lastAccepted, runs, accepted, hands, watchTime>>
ReadKey ==
    /\ keys # << >> /\ keys' = Tail(keys)
    /\ accepted' = IF unanswered /\ Asks(Len(asked)).selected = "yes"
                   THEN accepted \cup {Len(asked)} ELSE accepted
    /\ unanswered' = FALSE
    /\ UNCHANGED <<ruleSet, asked, watch, lastAccepted, runs, hands, watchTime>>
AnswerByHand ==
    /\ unanswered /\ hands < MaxHands /\ hands' = hands + 1 /\ unanswered' = FALSE
    /\ UNCHANGED <<ruleSet, asked, keys, watch, lastAccepted, runs, accepted, watchTime>>
WatchTimePasses ==
    /\ watchTime < LastWatched
    /\ \A i \in DOMAIN keys : watchTime - keys[i] < ReadsWithin
    /\ watch # NotLooking => watchTime - watch.at < LookTakes
    /\ watchTime' = watchTime + 1
    /\ UNCHANGED <<ruleSet, asked, unanswered, keys, watch, lastAccepted, runs, accepted, hands>>

----------------------------------------------------------------------------
(* The watcher.                                                              *)

\* It looks; with no question on the screen it waits for its next look.
LookForQuestion ==
    /\ watch = NotLooking
    /\ watch' = IF unanswered THEN [at |-> watchTime, seen |-> Len(asked), rule |-> 1] ELSE watch
    /\ UNCHANGED <<ruleSet, asked, unanswered, keys, lastAccepted, runs, accepted, hands, watchTime>>
\* A question is known by what it asks for, not by when.
Accepts(i) == {t \in lastAccepted[i] : t.question = Asks(watch.seen)}
\* The mutant: only what another rule has answered is left alone.
RanForOthers(i) ==
    \E k \in DOMAIN ruleSet \ {i} : \E t \in Accepts(k) : watch.at - t.at < ruleSet[i].cooldown
RanRecently(i) == \E t \in Accepts(i) : watch.at - t.at < ruleSet[i].cooldown
MaybeRunRule ==
    LET i == watch.rule
        rule == ruleSet[i]
        presses == /\ rule.maxRuns = 0 \/ runs[i] < rule.maxRuns
                   /\ Allows(rule, Asks(watch.seen)) /\ ~RanRecently(i)
    IN /\ watch # NotLooking
       /\ IF presses
          THEN /\ keys' = Append(keys, watchTime)
               /\ lastAccepted' = [lastAccepted EXCEPT ![i] =
                      (@ \ Accepts(i)) \cup {[question |-> Asks(watch.seen), at |-> watch.at]}]
               /\ runs' = [runs EXCEPT ![i] = @ + 1]
          ELSE UNCHANGED <<keys, lastAccepted, runs>>
       /\ watch' = IF i = Len(ruleSet) THEN NotLooking ELSE [watch EXCEPT !.rule = i + 1]
       /\ UNCHANGED <<ruleSet, asked, unanswered, accepted, hands, watchTime>>

----------------------------------------------------------------------------
WatchInit ==
    /\ ruleSet \in RuleSets
    /\ asked = << >> /\ unanswered = FALSE /\ keys = << >> /\ watch = NotLooking
    /\ lastAccepted = [i \in DOMAIN ruleSet |-> {}] /\ runs = [i \in DOMAIN ruleSet |-> 0]
    /\ accepted = {} /\ hands = 0 /\ watchTime = 0

WatchNext ==
    \/ \E q \in Questions : Ask(q)
    \/ ReadKey \/ AnswerByHand \/ WatchTimePasses \/ LookForQuestion \/ MaybeRunRule

WatchSpec == WatchInit /\ [][WatchNext]_watchVars

\* Rules that never allow the same question.
Apart ==
    \A i, k \in DOMAIN ruleSet : \A q \in Questions :
        Allows(ruleSet[i], q) /\ Allows(ruleSet[k], q) => i = k

\* The watcher accepts nothing that no rule allows, and no rule accepts more than it may,
\* while nobody else answers and no two rules allow the same: a question that stays on the
\* screen after its key gets no second one, which the next question would take
\* (watch/runner.go:85-168).
AcceptedIsAllowed ==
    accepted # {} /\ hands = 0 /\ Apart =>
        /\ \A n \in accepted : \E i \in DOMAIN ruleSet : Allows(ruleSet[i], Asks(n))
        /\ \A i \in DOMAIN ruleSet : ruleSet[i].maxRuns # 0 =>
            Cardinality({n \in accepted : Allows(ruleSet[i], Asks(n))}) <= ruleSet[i].maxRuns
=============================================================================
