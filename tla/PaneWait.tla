------------------------------ MODULE PaneWait ------------------------------
(***************************************************************************)
(* `wait` (internal/panewait): samples of one pane until a state has held  *)
(* for a while, a blocker has, the pane is gone or the time is up.  The    *)
(* clock moves by the sleep between two samples; between them the pane may *)
(* show anything, scroll, or be replaced by another pane.                  *)
(***************************************************************************)
EXTENDS Integers, Sequences

CONSTANTS
    WaitOptions,      \* the options a wait may be given
    PollEvery,        \* options.PollInterval
    WaitTimeout,      \* options.Timeout
    MaxOutput         \* bound: changes of the transcript

PaneStates == {"input-ready", "working", "needs-human", "unknown", "gone"}

ASSUME PaneWaitAssumption ==
    /\ WaitOptions \subseteq [until : PaneStates \ {"unknown"}, settle : Nat,
                        humanSettle : Nat \ {0}, transition : BOOLEAN]
    /\ PollEvery \in Nat \ {0} /\ WaitTimeout \in Nat \ {0} /\ MaxOutput \in Nat

VARIABLES
    paneShows, transcript,   \* the pane
    wait,                    \* the options
    clock,                   \* time since the wait began
    prev,                    \* the last sample that was no blocker, or "none"
    since, blocked,          \* conditionSince, blockerSince; -1 for inactive
    transition,              \* report.TransitionObserved
    reason, met,             \* the report: Reason, "none" until then, ConditionMet
    samples                  \* the samples taken

waitVars == <<paneShows, transcript, wait, clock, prev, since, blocked, transition,
              reason, met, samples>>

WaitInit ==
    /\ paneShows \in PaneStates /\ transcript = 0 /\ wait \in WaitOptions /\ clock = 0
    /\ prev = "none" /\ since = -1 /\ blocked = -1 /\ transition = FALSE
    /\ reason = "none" /\ met = FALSE /\ samples = <<>>

Smaller(a, b) == IF a <= b THEN a ELSE b

\* The pane between two samples: a gone pane may come back as another one, but
\* the wait looks for the id it resolved first.
PaneChanges ==
    /\ reason = "none" /\ paneShows # "gone" /\ paneShows' \in PaneStates
    /\ transcript' \in {transcript, transcript + 1} /\ transcript' <= MaxOutput
    /\ UNCHANGED <<wait, clock, prev, since, blocked, transition, reason, met, samples>>

\* What waitNext sleeps: up to the deadline or the end of the window begun at s.
Delay(s, window) ==
    Smaller(Smaller(PollEvery, WaitTimeout - clock),
            IF window > 0 THEN window - (clock - s) ELSE PollEvery)
Sleeps(s, window) ==
    clock' = clock + Delay(s, window) /\ UNCHANGED <<reason, met>>

\* The window begun at s has passed.
Held(s, window) == clock - s >= window

Reports(r, condition) == reason' = r /\ met' = condition /\ UNCHANGED clock

Sample == Append(samples, [at |-> clock, shows |-> paneShows, text |-> transcript])
Scrolled == samples # <<>> /\ samples[Len(samples)].text # transcript

\* A pane that is gone, replaced, or closed between its lookup and its capture.
PaneGone ==
    /\ reason = "none" /\ clock < WaitTimeout /\ paneShows = "gone"
    /\ \E resolved \in {samples # <<>>, TRUE} :
        /\ Reports("pane_gone", wait.until = "gone" /\ (~wait.transition \/ resolved))
        /\ transition' = (transition \/ resolved)
    /\ UNCHANGED <<paneShows, transcript, wait, prev, since, blocked, samples>>

OutOfTimeUnlessBlocked == clock >= WaitTimeout /\ blocked = -1
OutOfTime == clock >= WaitTimeout
TimesOut ==
    /\ reason = "none" /\ OutOfTime /\ Reports("timeout", FALSE)
    /\ UNCHANGED <<paneShows, transcript, wait, prev, since, blocked, transition, samples>>

\* A blocker must persist before it ends the wait or counts as a transition,
\* and it interrupts the settling of any other state.
Blocked ==
    /\ reason = "none" /\ clock < WaitTimeout /\ paneShows = "needs-human"
    /\ samples' = Sample /\ since' = -1
    /\ LET begun == IF blocked = -1 THEN clock ELSE blocked
           held == Held(begun, wait.humanSettle)
           changes == transition \/ (held /\ prev \notin {"none", "needs-human"})
       IN  /\ blocked' = begun /\ transition' = changes
           /\ IF held THEN Reports("needs_human", wait.until = "needs-human"
                                                  /\ (~wait.transition \/ changes))
                      ELSE Sleeps(begun, wait.humanSettle)
    /\ UNCHANGED <<paneShows, transcript, wait, prev>>

\* Output that still moves is activity, whatever the state line says.
Moved == (prev # "none" /\ prev # paneShows) \/ (Scrolled /\ paneShows = "input-ready")
StillHoldsByState == since # -1
StillHolds == since # -1 /\ ~(Scrolled /\ paneShows = "input-ready")
Matches == paneShows = wait.until /\ (~wait.transition \/ transition')

Observes ==
    /\ reason = "none" /\ clock < WaitTimeout /\ paneShows \notin {"needs-human", "gone"}
    /\ samples' = Sample /\ blocked' = -1 /\ prev' = paneShows
    /\ transition' = (transition \/ Moved)
    /\ since' = (IF ~Matches THEN -1 ELSE IF StillHolds THEN since ELSE clock)
    /\ IF Matches /\ Held(since', wait.settle)
       THEN Reports("condition_met", TRUE)
       ELSE Sleeps(since', IF since' = -1 THEN 0 ELSE wait.settle)
    /\ UNCHANGED <<paneShows, transcript, wait>>

WaitStep == PaneGone \/ TimesOut \/ Blocked \/ Observes
WaitNext == PaneChanges \/ WaitStep
WaitSpec == WaitInit /\ [][WaitNext]_waitVars

(***************************************************************************)
(* Properties.                                                             *)
(***************************************************************************)
\* The samples of the window of length w that ends with the last sample.
Window(w) == {i \in DOMAIN samples : samples[i].at >= clock - w}
HeldFor(state, w) ==
    /\ \E i \in Window(w) : samples[i].at = clock - w
    /\ \A i \in Window(w) : samples[i].shows = state

\* A wait that reports its condition saw it in every sample of the settle
\* window, the first one a whole window ago, and an input-ready pane printed
\* nothing meanwhile; with require-transition something changed before.  One
\* that reports a blocker saw it for the whole confirmation window.
ReportsWhatHeld ==
    /\ reason = "condition_met" =>
        /\ HeldFor(wait.until, wait.settle)
        /\ wait.until = "input-ready" =>
            \A i, j \in Window(wait.settle) : samples[i].text = samples[j].text
        /\ wait.transition => \E i, j \in DOMAIN samples :
            samples[i].shows # samples[j].shows \/ samples[i].text # samples[j].text
    /\ reason = "needs_human" => HeldFor("needs-human", wait.humanSettle)

\* Every wait ends: no sequence of states, however it flickers, makes it sleep
\* for nothing or past its deadline.
PaneWaitEnds == <>(reason # "none")
=============================================================================
