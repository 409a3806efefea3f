----------------------------- MODULE PaneInput -----------------------------
(* What browsers type into a pane: inputs of a socket one after another, by  *)
(* the server itself or, for a pane of a peer, in a request for each that    *)
(* the hub waits for but not forever.  An input that is submitted is typed   *)
(* and then entered; a command is run in the window "command", which is made *)
(* for the first and used for the next ones while its shell is idle.         *)
EXTENDS Integers, Sequences

CONSTANTS
    Browsers,
    Hubbed,         \* those that see the pane through a hub
    Kinds,          \* the inputs they send
    MaxInputs,      \* bound on the inputs of each
    MaxFailures     \* bound on what fails or is given up

ASSUME InputAssumption ==
    /\ Hubbed \subseteq Browsers
    /\ Kinds \subseteq {"send", "run", "key", "other"}
    /\ {MaxInputs, MaxFailures} \subseteq Nat

VARIABLES
    sent,           \* inputs each browser's socket has delivered
    jobs,           \* inputs under way: the step, the window, whether given up
    windows,        \* "target" is 1, the windows for commands are the others:
                    \* whether a program runs, what is typed, what was entered
    excused,        \* inputs that were given up, failed or met another's
    failures
inputVars == <<sent, jobs, windows, excused, failures>>

Target == 1
NewWindow == [busy |-> FALSE, typed |-> << >>, entered |-> << >>]
InputFails == failures < MaxFailures /\ failures' = failures + 1

\* Where an input of a kind begins.
FirstStep(kind) ==
    CASE kind = "send" -> "type" [] kind = "run" -> "look"
      [] kind = "key" -> "enter" [] OTHER -> "done"

----------------------------------------------------------------------------
(* A socket, or the request that a hub makes of each input.                  *)

\* The mutant: the hub reads on while the peer is at an input.
ReadsOn(b) == b \in Hubbed \/ \A j \in jobs : j.input.from # b \/ j.late
ReaderFree(b) == \A j \in jobs : j.input.from # b \/ j.late

ReadInput(b) ==
    /\ ReaderFree(b) /\ sent[b] < MaxInputs
    /\ sent' = [sent EXCEPT ![b] = @ + 1]
    /\ \E kind \in Kinds :
        jobs' = jobs \cup {[input |-> [from |-> b, n |-> sent'[b], kind |-> kind],
                            step |-> IF b \in Hubbed THEN "posted" ELSE FirstStep(kind),
                            window |-> Target, late |-> FALSE]}
    /\ UNCHANGED <<windows, excused, failures>>
PeerReceives(j) ==
    /\ j.step = "posted"
    /\ jobs' = (jobs \ {j}) \cup {[j EXCEPT !.step = FirstStep(j.input.kind)]}
    /\ UNCHANGED <<sent, windows, excused, failures>>
\* The peer cannot be reached: the browser is told, and the next input is read.
PostFails(j) ==
    /\ j.step = "posted" /\ InputFails
    /\ jobs' = jobs \ {j}
    /\ UNCHANGED <<sent, windows, excused>>
\* The hub waits no longer, or the browser has connected anew: what is under way
\* goes on, next to what the browser sends now.
GivesUp(j) ==
    /\ ~j.late /\ InputFails
    /\ jobs' = (jobs \ {j}) \cup {[j EXCEPT !.late = TRUE]}
    /\ excused' = excused \cup {j.input}
    /\ UNCHANGED <<sent, windows>>

----------------------------------------------------------------------------
(* An input is applied.                                                      *)

\* Those of others at the same place, which nothing keeps apart.
Others(j) ==
    {k \in jobs \ {j} :
        /\ k.step # "posted" /\ (k.input.kind = "run") = (j.input.kind = "run")
        /\ k.input.from # j.input.from \/ k.late \/ j.late}
Meets(j) ==
    IF Others(j) = {} THEN {} ELSE {k.input : k \in Others(j) \cup {j}}
Goes(j, step, window) ==
    jobs' = (jobs \ {j}) \cup {[j EXCEPT !.step = step, !.window = window]}
Ends(j) == jobs' = jobs \ {j}

\* The newest window for commands; a new one if there was none.
LookForWindow(j) ==
    /\ j.step = "look"
    /\ IF Len(windows) > 1 THEN Goes(j, "check", Len(windows)) ELSE Goes(j, "create", Target)
    /\ excused' = excused \cup Meets(j)
    /\ UNCHANGED <<sent, windows, failures>>
CreateWindow(j) ==
    /\ j.step = "create"
    /\ windows' = Append(windows, NewWindow) /\ Goes(j, "type", Len(windows'))
    /\ excused' = excused \cup Meets(j)
    /\ UNCHANGED <<sent, failures>>
CheckShell(j) ==
    /\ j.step = "check"
    /\ IF windows[j.window].busy THEN Ends(j) ELSE Goes(j, "type", j.window)
    /\ excused' = excused \cup Meets(j)
    /\ UNCHANGED <<sent, windows, failures>>
Type(j) ==
    /\ j.step = "type"
    /\ windows' = [windows EXCEPT ![j.window].typed = Append(@, j.input)]
    /\ Goes(j, "enter", j.window)
    /\ excused' = excused \cup Meets(j)
    /\ UNCHANGED <<sent, failures>>
Enter(j) ==
    LET w == windows[j.window]
    IN /\ j.step = "enter"
       /\ windows' = [windows EXCEPT ![j.window] =
              [busy |-> @.busy \/ (w.typed # << >> /\ j.window # Target), typed |-> << >>,
               entered |-> IF w.typed = << >> THEN @.entered
                           ELSE Append(@.entered, [inputs |-> w.typed, busy |-> w.busy])]]
       /\ Ends(j)
       /\ excused' = excused \cup Meets(j)
       /\ UNCHANGED <<sent, failures>>
\* Keys that enter nothing, a window forked or closed, an input that is refused.
ApplyOther(j) == j.step = "done" /\ Ends(j) /\ UNCHANGED <<sent, windows, excused, failures>>
\* tmux fails, or the server dies: what was typed stays.
ApplyFails(j) ==
    /\ j.step # "posted" /\ InputFails
    /\ Ends(j)
    /\ excused' = excused \cup {j.input}
    /\ UNCHANGED <<sent, windows>>
CommandEnds(w) ==
    /\ windows[w].busy
    /\ windows' = [windows EXCEPT ![w].busy = FALSE]
    /\ UNCHANGED <<sent, jobs, excused, failures>>

----------------------------------------------------------------------------
InputInit ==
    /\ sent = [b \in Browsers |-> 0]
    /\ jobs = {} /\ windows = <<NewWindow>> /\ excused = {} /\ failures = 0

InputNext ==
    \/ \E b \in Browsers : ReadInput(b)
    \/ \E j \in jobs :
        \/ PeerReceives(j) \/ PostFails(j) \/ GivesUp(j)
        \/ LookForWindow(j) \/ CreateWindow(j) \/ CheckShell(j)
        \/ Type(j) \/ Enter(j) \/ ApplyOther(j) \/ ApplyFails(j)
    \/ \E w \in DOMAIN windows : CommandEnds(w)

InputSpec == InputInit /\ [][InputNext]_inputVars

\* An input is entered once, alone and after those its browser sent before; a command
\* goes to an idle shell: unless one that is entered with it, or it, was given up,
\* failed, or met the input of another (pane_ws.go:128-146, pane_http_diff.go:225-250,
\* client.go:425-480).
EnteredWhole(line) ==
    \/ Len(line.inputs) = 1 /\ ~line.busy
    \/ \E k \in DOMAIN line.inputs : line.inputs[k] \in excused
InputArrivesWhole ==
    \A w \in DOMAIN windows : \A i \in DOMAIN windows[w].entered :
        /\ EnteredWhole(windows[w].entered[i])
        /\ \A v \in DOMAIN windows : \A h \in DOMAIN windows[v].entered :
               \A k \in DOMAIN windows[w].entered[i].inputs,
                  l \in DOMAIN windows[v].entered[h].inputs :
                   LET this == windows[w].entered[i].inputs[k]
                       that == windows[v].entered[h].inputs[l]
                   IN  this.from = that.from /\ {this, that} \cap excused = {} =>
                           /\ v # w => this.n # that.n
                           /\ v = w /\ (h < i \/ (h = i /\ l < k)) => that.n < this.n
=============================================================================
