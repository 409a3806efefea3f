----------------------------- MODULE OneOutcome -----------------------------
(***************************************************************************)
(* What `tmact cred request` promises to the commands that ask: a request  *)
(* is decided at most once, its value is written before it counts as       *)
(* submitted, and nobody is told of a submission or a refusal that is not  *)
(* the outcome of the request he waited for.                               *)
(***************************************************************************)
CONSTANTS Asks, Askers       \* requests and commands

VARIABLES
    outcome,          \* [Asks -> "open", "submitted", "declined" or "expired"]
    written,          \* the requests whose value was written
    asker,            \* [Asks -> the command that made it], or "nobody"
    waitsFor,         \* [Askers -> the request], or "none"
    told              \* [Askers -> what it was told], or "none"

outcomeVars == <<outcome, written, asker, waitsFor, told>>

OutcomeInit ==
    /\ outcome = [i \in Asks |-> "open"] /\ written = {}
    /\ asker = [i \in Asks |-> "nobody"]
    /\ waitsFor = [c \in Askers |-> "none"] /\ told = [c \in Askers |-> "none"]

Waits(c, i) == waitsFor[c] = "none" /\ waitsFor' = [waitsFor EXCEPT ![c] = i]

Make(c, i) ==
    /\ asker[i] = "nobody" /\ asker' = [asker EXCEPT ![i] = c] /\ Waits(c, i)
    /\ UNCHANGED <<outcome, written, told>>

Join(c, i) ==
    /\ asker[i] # "nobody" /\ outcome[i] = "open" /\ Waits(c, i)
    /\ UNCHANGED <<outcome, written, asker, told>>

Write(i) ==
    /\ outcome[i] = "open" /\ written' = written \cup {i}
    /\ UNCHANGED <<outcome, asker, waitsFor, told>>

Decide(i, o) ==
    /\ outcome[i] = "open" /\ outcome' = [outcome EXCEPT ![i] = o]
    /\ o = "submitted" <=> i \in written
    /\ UNCHANGED <<written, asker, waitsFor, told>>

Tell(c, answer) ==
    /\ told[c] = "none" /\ told' = [told EXCEPT ![c] = answer]
    /\ answer \in {"submitted", "declined"} => answer = outcome[waitsFor[c]]
    /\ answer = "expired" =>
        asker[waitsFor[c]] # c \/ outcome[waitsFor[c]] = "expired"
    /\ UNCHANGED <<outcome, written, asker, waitsFor>>

OutcomeNext ==
    \/ \E i \in Asks : Write(i) \/ \E o \in {"submitted", "declined", "expired"} : Decide(i, o)
    \/ \E c \in Askers, i \in Asks : Make(c, i) \/ Join(c, i)
    \/ \E c \in Askers, a \in {"stored", "submitted", "declined", "expired", "lost"} : Tell(c, a)

OutcomeSpec == OutcomeInit /\ [][OutcomeNext]_outcomeVars
=============================================================================
