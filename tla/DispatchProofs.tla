--------------------------- MODULE DispatchProofs ---------------------------
(***************************************************************************)
(* `dispatch-work` interrupts nothing and submits its prompt as reported,  *)
(* for any number of commands, of lost keys and of things the human does,  *)
(* where the run bounds all three.                                         *)
(*                                                                         *)
(* The steps are first sorted into looks, texts and keys, and moves that   *)
(* leave the pane alone, and each action of a command is given the places  *)
(* it may lead to.  Two invariants follow.  HazardInv says when a command  *)
(* may type at all: it never stands at a place where it types after it saw *)
(* a question, and the turn it looked at first is over at every place      *)
(* where it may type /clear, /exit or Enter on what it finds; an idle look *)
(* before that only counts once it was repeated (FreeInv).  PromptInv      *)
(* says, place by place, where the prompt of a command that nobody         *)
(* disturbs is: not typed, in the input line, lost, or submitted.          *)
(***************************************************************************)
EXTENDS Dispatch, FiniteSetTheorems, SequenceTheorems, TLAPS

(***************************************************************************)
(* The progress of a command and the tokens.                               *)
(***************************************************************************)
Early == {"probe", "probing", "look"}
\* A command that has typed nothing of its prompt.
Before == {"create", "accept", "trusting", "relook", "ready", "settle", "launch",
           "launchenter", "launched", "clear", "clearenter", "exitlook", "exit",
           "exitinput", "exitenter", "shell", "paste", "qlook", "qpaste"}
Typing == {"enter", "confirm", "qpasted", "qenter", "queued"}
Queueing == {"qlook", "qpaste", "qpasted", "qenter", "queued"}
Places == Early \cup Before \cup Typing \cup {"done"}

Tokens == Commands \cup {"clear", "exit", "launch", "draft"}
Progs == {"nosession", "shell", "agent", "other"}
Views == {"ready", "working", "asking", "trust", "booting"}
Nexts == {"none", "clear", "paste", "exitlook", "relook"}
Progress == [at : Places, looks : Nat, trusted : BOOLEAN, next : Nexts,
             old : Progs \cup {"none"}, result : {"none", "ok", "failed"}]

\* Where a wait leads, and that only a command that is over has a result.
GoodProgress(c) ==
    /\ c \in Progress
    /\ c.at = "settle" => c.next \in {"clear", "paste", "exitlook"}
    /\ c.at \in {"accept", "trusting", "ready"} => c.next \in {"clear", "paste", "relook"}
    /\ c.at = "settle" /\ c.next # "exitlook" => c.old = "agent"
    /\ c.result = "ok" => c.at = "done"

LEMMA GotoFacts ==
    ASSUME NEW c \in Progress, NEW to \in Places
    PROVE  /\ Goto(c, to) \in Progress
           /\ Goto(c, to).at = to /\ Goto(c, to).looks = 0
           /\ Goto(c, to).next = c.next /\ Goto(c, to).result = c.result /\ Goto(c, to).old = c.old
<1>1. Goto(c, to) \in Progress
    BY DEF Progress, Goto
<1>2. Goto(c, to).at = to /\ Goto(c, to).looks = 0
    BY DEF Progress, Goto
<1>3. Goto(c, to).next = c.next /\ Goto(c, to).result = c.result /\ Goto(c, to).old = c.old
    BY DEF Progress, Goto
<1> QED BY <1>1, <1>2, <1>3

LEMMA AgainFacts ==
    ASSUME NEW c \in Progress, NEW to \in Places
    PROVE  /\ Again(c, to) \in Progress
           /\ Again(c, to).at = to /\ Again(c, to).looks = c.looks + 1
           /\ Again(c, to).next = c.next /\ Again(c, to).result = c.result /\ Again(c, to).old = c.old
<1>0. c.looks \in Nat /\ c.looks + 1 \in Nat
    BY DEF Progress
<1>1. Again(c, to) \in Progress
    BY <1>0 DEF Progress, Again
<1>2. Again(c, to).at = to /\ Again(c, to).looks = c.looks + 1
    BY DEF Progress, Again
<1>3. Again(c, to).next = c.next /\ Again(c, to).result = c.result /\ Again(c, to).old = c.old
    BY DEF Progress, Again
<1> QED BY <1>1, <1>2, <1>3

LEMMA WaitFacts ==
    ASSUME NEW c \in Progress, NEW to \in Places, NEW n \in Nexts
    PROVE  /\ WaitAt(c, to, n) \in Progress
           /\ WaitAt(c, to, n).at = to /\ WaitAt(c, to, n).looks = 0
           /\ WaitAt(c, to, n).next = n /\ WaitAt(c, to, n).result = c.result /\ WaitAt(c, to, n).old = c.old
<1>1. WaitAt(c, to, n) \in Progress
    BY DEF Progress, WaitAt
<1>2. WaitAt(c, to, n).at = to /\ WaitAt(c, to, n).looks = 0
    BY DEF Progress, WaitAt
<1>3. WaitAt(c, to, n).next = n /\ WaitAt(c, to, n).result = c.result /\ WaitAt(c, to, n).old = c.old
    BY DEF Progress, WaitAt
<1> QED BY <1>1, <1>2, <1>3

LEMMA EndFacts ==
    ASSUME NEW c \in Progress, NEW r \in {"ok", "failed"}
    PROVE  End(c, r) \in Progress /\ End(c, r).at = "done" /\ End(c, r).result = r
<1>0. "done" \in Places
    BY DEF Places
<1>1. End(c, r) \in Progress
    BY <1>0 DEF Progress, End
<1>2. End(c, r).at = "done"
    BY DEF Progress, End
<1>3. End(c, r).result = r
    BY DEF Progress, End
<1> QED BY <1>1, <1>2, <1>3

LEMMA FailFacts ==
    ASSUME NEW c \in Progress
    PROVE  Fail(c) \in Progress /\ Fail(c).at = "done" /\ Fail(c).result = "failed"
BY EndFacts DEF Fail

\* What an act does to a command's record.
LEMMA ActFacts ==
    ASSUME NEW c \in Progress, NEW to \in Places
    PROVE  /\ [c EXCEPT !.at = to] \in Progress
           /\ [c EXCEPT !.at = to].at = to
           /\ [c EXCEPT !.at = to].next = c.next /\ [c EXCEPT !.at = to].result = c.result
           /\ [c EXCEPT !.at = to].old = c.old
<1>1. [c EXCEPT !.at = to] \in Progress
    BY DEF Progress
<1>2. [c EXCEPT !.at = to].at = to
    BY DEF Progress
<1>3. /\ [c EXCEPT !.at = to].next = c.next /\ [c EXCEPT !.at = to].result = c.result
      /\ [c EXCEPT !.at = to].old = c.old
    BY DEF Progress
<1> QED BY <1>1, <1>2, <1>3

LEMMA OldFacts ==
    ASSUME NEW c \in Progress, NEW p \in Progs
    PROVE  /\ [c EXCEPT !.old = p] \in Progress
           /\ [c EXCEPT !.old = p].at = c.at /\ [c EXCEPT !.old = p].looks = c.looks
           /\ [c EXCEPT !.old = p].next = c.next /\ [c EXCEPT !.old = p].result = c.result
           /\ [c EXCEPT !.old = p].old = p
<1>1. [c EXCEPT !.old = p] \in Progress
    BY DEF Progress
<1>2. [c EXCEPT !.old = p].at = c.at /\ [c EXCEPT !.old = p].looks = c.looks
    BY DEF Progress
<1>3. [c EXCEPT !.old = p].next = c.next /\ [c EXCEPT !.old = p].result = c.result
    BY DEF Progress
<1>4. [c EXCEPT !.old = p].old = p
    BY DEF Progress
<1> QED BY <1>1, <1>2, <1>3, <1>4

LEMMA TrustedFacts ==
    ASSUME NEW c \in Progress
    PROVE  /\ [c EXCEPT !.trusted = TRUE] \in Progress
           /\ [c EXCEPT !.trusted = TRUE].at = c.at /\ [c EXCEPT !.trusted = TRUE].looks = c.looks
           /\ [c EXCEPT !.trusted = TRUE].next = c.next
           /\ [c EXCEPT !.trusted = TRUE].result = c.result
<1>1. [c EXCEPT !.trusted = TRUE] \in Progress
    BY DEF Progress
<1>2. [c EXCEPT !.trusted = TRUE].at = c.at /\ [c EXCEPT !.trusted = TRUE].looks = c.looks
    BY DEF Progress
<1>3. [c EXCEPT !.trusted = TRUE].next = c.next /\ [c EXCEPT !.trusted = TRUE].result = c.result
    BY DEF Progress
<1> QED BY <1>1, <1>2, <1>3

(***************************************************************************)
(* The arms of what a look decides.                                        *)
(***************************************************************************)
LEMMA ExistingCases ==
    ASSUME NEW d \in Commands, NEW c
    PROVE  \/ prog = "nosession" /\ Existing(d, c) = Goto(c, "create")
           \/ TrustAsked(d) /\ Existing(d, c) = WaitAt(c, "accept", "relook")
           \/ TrustAsked(d) /\ Existing(d, c) = WaitAt(c, "accept", Reuse(d))
           \/ InputReady /\ Existing(d, c) = WaitAt(c, "settle", "exitlook")
           \/ /\ InputReady /\ prog = "agent"
              /\ Existing(d, c) = WaitAt(c, "settle", Reuse(d))
           \/ /\ (PaneWorking \/ InputReady) /\ opt[d].queue
              /\ Existing(d, c) = Goto(c, "qlook")
           \/ prog = "shell" /\ Existing(d, c) = Goto(c, "launch")
           \/ Existing(d, c) = Fail(c)
<1>1. CASE Restarts(d) /\ prog # "nosession"
  <2>1. Existing(d, c) = IF TrustAsked(d) /\ prog = "agent"
                        THEN WaitAt(c, "accept", "relook") ELSE Restart(c)
    <3>1. prog # "nosession" /\ prog # "shell" /\ Restarts(d)
        BY <1>1 DEF Restarts, Agents
    <3> QED BY <3>1, Zenon DEF Existing
  <2> QED BY <2>1 DEF Restart, SettleThen
<1>2. CASE ~Restarts(d) /\ prog = "agent"
  <2> DEFINE inner == CASE PaneWorking /\ ~opt[d].queue -> Fail(c)
             [] TrustAsked(d) -> WaitAt(c, "accept", Reuse(d))
             [] opt[d].queue /\ (PaneWorking \/ InputReady) -> Goto(c, "qlook")
             [] InputReady /\ ~opt[d].queue -> SettleThen(c, Reuse(d))
             [] OTHER -> Fail(c)
  <2>1. Existing(d, c) = inner
    <3>1. prog # "nosession" /\ prog # "shell" /\ prog = "agent" /\ ~Restarts(d)
        BY <1>2
    <3> QED BY <3>1, Zenon DEF Existing
  <2>2. \/ inner = Fail(c)
        \/ TrustAsked(d) /\ inner = WaitAt(c, "accept", Reuse(d))
        \/ opt[d].queue /\ (PaneWorking \/ InputReady) /\ inner = Goto(c, "qlook")
        \/ InputReady /\ inner = SettleThen(c, Reuse(d))
    <3>1. CASE PaneWorking /\ ~opt[d].queue
      <4>1. ~TrustAsked(d) /\ ~InputReady
          BY <3>1 DEF PaneWorking, TrustAsked, InputReady
      <4> QED BY <3>1, <4>1, Zenon
    <3>2. CASE TrustAsked(d)
      <4>1. ~PaneWorking /\ ~InputReady
          BY <3>2 DEF PaneWorking, TrustAsked, InputReady
      <4> QED BY <3>2, <4>1, Zenon
    <3>3. CASE ~TrustAsked(d) /\ opt[d].queue /\ (PaneWorking \/ InputReady)
        BY <3>3, Zenon
    <3>4. CASE ~TrustAsked(d) /\ ~PaneWorking /\ InputReady /\ ~opt[d].queue
        BY <3>4, Zenon
    <3>5. CASE /\ ~(PaneWorking /\ ~opt[d].queue) /\ ~TrustAsked(d)
               /\ ~(opt[d].queue /\ (PaneWorking \/ InputReady))
               /\ ~(InputReady /\ ~opt[d].queue)
      <4>1. inner = Fail(c)
          BY <3>5, Zenon
      <4> QED BY <4>1
    <3> HIDE DEF inner
    <3> QED BY <3>1, <3>2, <3>3, <3>4, <3>5
  <2> HIDE DEF inner
  <2> QED BY <1>2, <2>1, <2>2 DEF SettleThen
<1>3. CASE prog = "nosession"
  <2>1. ~Restarts(d) /\ prog # "agent" /\ prog # "shell"
      BY <1>3 DEF Restarts, Agents
  <2> QED BY <1>3, <2>1, Zenon DEF Existing
<1>4. CASE prog = "shell"
  <2>1. ~Restarts(d) /\ prog # "agent" /\ prog # "nosession"
      BY <1>4 DEF Restarts, Agents
  <2> QED BY <1>4, <2>1, Zenon DEF Existing
<1>5. CASE ~Restarts(d) /\ prog # "agent" /\ prog # "nosession" /\ prog # "shell"
    BY <1>5, Zenon DEF Existing
<1> QED BY <1>1, <1>2, <1>3, <1>4, <1>5

LEMMA ReadyCases ==
    ASSUME NEW d \in Commands, NEW c
    PROVE  \/ ReadyLook(d, c) = Fail(c)
           \/ TrustAsked(d) /\ c.trusted /\ ReadyLook(d, c) = c
           \/ TrustAsked(d) /\ ReadyLook(d, c) = WaitAt(c, "accept", c.next)
           \/ /\ prog = "agent" /\ InputReady /\ c.looks >= ReadySettle
              /\ ReadyLook(d, c) = Goto(c, c.next)
           \/ /\ prog = "agent" /\ InputReady /\ ~(c.looks >= ReadySettle)
              /\ ReadyLook(d, c) = Again(c, "ready")
           \/ ~Asking /\ ReadyLook(d, c) = Goto(c, "ready")
<1>1. CASE prog = "nosession"
  <2>1. ~Asking /\ prog # "agent"
      BY <1>1 DEF Asking, Agents
  <2>2. ReadyLook(d, c) = Fail(c)
      BY <1>1, <2>1, Zenon DEF ReadyLook
  <2> QED BY <2>2
<1>2. CASE Asking
  <2>1. prog # "nosession" /\ ~InputReady
      BY <1>2 DEF Asking, Agents, InputReady
  <2>2. ReadyLook(d, c) = IF ~TrustAsked(d) THEN Fail(c)
                   ELSE IF c.trusted THEN c
                   ELSE IF prog = "agent" THEN WaitAt(c, "accept", c.next) ELSE Fail(c)
      BY <1>2, <2>1, Zenon DEF ReadyLook
  <2> QED BY <2>2, Zenon
<1>3. CASE prog # "nosession" /\ ~Asking /\ prog = "agent" /\ InputReady
  <2>1. ReadyLook(d, c) = IF c.looks >= ReadySettle THEN Goto(c, c.next) ELSE Again(c, "ready")
      BY <1>3, Zenon DEF ReadyLook
  <2> QED BY <1>3, <2>1, Zenon
<1>4. CASE prog # "nosession" /\ ~Asking /\ ~(prog = "agent" /\ InputReady)
  <2>1. ReadyLook(d, c) = Goto(c, "ready")
      BY <1>4, Zenon DEF ReadyLook
  <2> QED BY <1>4, <2>1
<1> QED BY <1>1, <1>2, <1>3, <1>4

LEMMA ConfirmCases ==
    ASSUME NEW d \in Commands, NEW c
    PROVE  \/ Confirm(d, c) = Fail(c)
           \/ Submitted(d) /\ Confirm(d, c) = End(c, "ok")
           \/ /\ prog # "nosession" /\ ~Submitted(d) /\ InBox(d)
              /\ Confirm(d, c) = Again(c, "enter")
           \/ /\ prog # "nosession" /\ ~Submitted(d) /\ ~InBox(d)
              /\ ~(prog \in Agents /\ ~Asking /\ ~PaneWorking /\ Draft /\ ~InBox(d))
              /\ Confirm(d, c) = Again(c, "paste")
BY Zenon DEF Confirm, ForeignDraft

LEMMA PastedCases ==
    ASSUME NEW c
    PROVE  \/ Pasted(c) = Fail(c)
           \/ ~Asking /\ Draft /\ Pasted(c) = Goto(c, "qenter")
           \/ /\ ~Asking /\ ~Draft /\ prog # "nosession"
              /\ Pasted(c) = Again(c, "qpaste")
<1>1. CASE Asking \/ prog = "nosession"
    BY <1>1, Zenon DEF Pasted
<1>2. CASE ~Asking /\ prog # "nosession" /\ Draft
    BY <1>2, Zenon DEF Pasted
<1>3. CASE ~Asking /\ prog # "nosession" /\ ~Draft
  <2>1. Pasted(c) = IF c.looks >= SubmitRetries THEN Fail(c) ELSE Again(c, "qpaste")
      BY <1>3, Zenon DEF Pasted
  <2> QED BY <1>3, <2>1
<1> QED BY <1>1, <1>2, <1>3

LEMMA QueuedCases ==
    ASSUME NEW c
    PROVE  \/ Queued(c) = Fail(c)
           \/ ~DraftSeen /\ prog # "nosession" /\ Queued(c) = End(c, "ok")
           \/ ~Asking /\ Draft /\ prog # "nosession" /\ Queued(c) = Again(c, "qenter")
<1>1. \/ Queued(c) = Fail(c)
      \/ ~DraftSeen /\ prog # "nosession" /\ Queued(c) = End(c, "ok")
      \/ /\ prog # "nosession" /\ ~(~DraftSeen /\ prog # "nosession")
         /\ Queued(c) = IF Asking \/ c.looks >= SubmitRetries THEN Fail(c)
                                                              ELSE Again(c, "qenter")
    BY Zenon DEF Queued
<1> QED BY <1>1 DEF DraftSeen

LEMMA ProbeCases ==
    ASSUME NEW d \in Commands, Probe(d)
    PROVE  \/ cmd' = [cmd EXCEPT ![d] = Fail(cmd[d])]
           \/ cmd' = [cmd EXCEPT ![d] = Goto(cmd[d], "look")]
           \/ cmd' = [cmd EXCEPT ![d] = Goto(cmd[d], "probing")]
<1> DEFINE c == CASE Probing # {} -> Fail(cmd[d])
                  [] lease /\ Probing = {} ->
                       IF opt[d].leased THEN Goto(cmd[d], "look") ELSE Fail(cmd[d])
                  [] OTHER -> Goto(cmd[d], "probing")
<1>1. c = Fail(cmd[d]) \/ c = Goto(cmd[d], "look") \/ c = Goto(cmd[d], "probing")
    BY Zenon
<1>2. cmd' = [cmd EXCEPT ![d] = c]
    BY Zenon DEF Probe, Moves
<1> HIDE DEF c
<1> QED BY <1>1, <1>2

CmdTypeOK == cmd \in [Commands -> Progress] /\ \A d \in Commands : GoodProgress(cmd[d])
Takes(d, c) == GoodProgress(c) /\ Moves(d, c)
Gone(c) == c.at = "done" /\ c.result = "failed"

LEMMA TakesFacts ==
    ASSUME CmdTypeOK, NEW d \in Commands, NEW c, Takes(d, c)
    PROVE  /\ CmdTypeOK' /\ cmd'[d] = c
           /\ \A e \in Commands \ {d} : cmd'[e] = cmd[e]
<1>1. c \in Progress /\ cmd' = [cmd EXCEPT ![d] = c]
    BY DEF Takes, GoodProgress, Moves
<1>2. cmd' \in [Commands -> Progress] /\ cmd'[d] = c
      /\ \A e \in Commands \ {d} : cmd'[e] = cmd[e]
    BY <1>1 DEF CmdTypeOK
<1>3. \A e \in Commands : GoodProgress(cmd'[e])
  <2> SUFFICES ASSUME NEW e \in Commands PROVE GoodProgress(cmd'[e])
      OBVIOUS
  <2>1. CASE e = d
      BY <1>2, <2>1, Zenon DEF Takes
  <2>2. CASE e # d
    <3>1. cmd'[e] = cmd[e]
        BY <1>2, <2>2
    <3> QED BY <3>1, Zenon DEF CmdTypeOK
  <2> QED BY <2>1, <2>2
<1> QED BY <1>2, <1>3 DEF CmdTypeOK

LEMMA FailGood ==
    ASSUME NEW c \in Progress
    PROVE  GoodProgress(Fail(c)) /\ Gone(Fail(c))
<1>1. Fail(c) \in Progress /\ Fail(c).at = "done" /\ Fail(c).result = "failed"
    BY FailFacts
<1> QED BY <1>1 DEF GoodProgress, Gone

LEMMA EndGood ==
    ASSUME NEW c \in Progress
    PROVE  /\ GoodProgress(End(c, "ok"))
           /\ End(c, "ok").at = "done" /\ End(c, "ok").result = "ok"
<1>1. End(c, "ok") \in Progress /\ End(c, "ok").at = "done" /\ End(c, "ok").result = "ok"
    BY EndFacts
<1> QED BY <1>1 DEF GoodProgress

\* A place that no wait leads from.
Plain == Places \ {"settle", "accept", "trusting", "ready", "done"}

LEMMA GotoGood ==
    ASSUME NEW c, GoodProgress(c), c.at # "done", NEW to \in Plain
    PROVE  /\ GoodProgress(Goto(c, to)) /\ Goto(c, to).at = to
           /\ Goto(c, to).result # "ok"
<1>1. c \in Progress /\ c.result # "ok" /\ to \in Places
    BY DEF GoodProgress, Plain
<1>2. Goto(c, to) \in Progress /\ Goto(c, to).at = to /\ Goto(c, to).result = c.result
    BY <1>1, GotoFacts
<1> QED BY <1>1, <1>2 DEF GoodProgress, Plain

LEMMA AgainGood ==
    ASSUME NEW c, GoodProgress(c), c.at # "done", NEW to \in Plain
    PROVE  /\ GoodProgress(Again(c, to)) /\ Again(c, to).at = to
           /\ Again(c, to).result # "ok"
<1>1. c \in Progress /\ c.result # "ok" /\ to \in Places
    BY DEF GoodProgress, Plain
<1>2. Again(c, to) \in Progress /\ Again(c, to).at = to /\ Again(c, to).result = c.result
    BY <1>1, AgainFacts
<1> QED BY <1>1, <1>2 DEF GoodProgress, Plain

LEMMA WaitGood ==
    ASSUME NEW c, GoodProgress(c), c.at # "done", NEW to \in {"accept", "ready"},
           NEW n \in {"clear", "paste", "relook"}
    PROVE  /\ GoodProgress(WaitAt(c, to, n)) /\ WaitAt(c, to, n).at = to
           /\ WaitAt(c, to, n).looks = 0
<1>1. c \in Progress /\ c.result # "ok" /\ to \in Places /\ n \in Nexts
    BY DEF GoodProgress, Places, Before, Nexts
<1>2. /\ WaitAt(c, to, n) \in Progress /\ WaitAt(c, to, n).at = to
      /\ WaitAt(c, to, n).result = c.result /\ WaitAt(c, to, n).next = n
      /\ WaitAt(c, to, n).looks = 0
    BY <1>1, WaitFacts
<1> QED BY <1>1, <1>2 DEF GoodProgress

LEMMA ActGood ==
    ASSUME NEW c, GoodProgress(c), c.at # "done",
           NEW to \in Places \ {"settle", "accept", "ready", "done"},
           to = "trusting" => c.at = "accept"
    PROVE  /\ GoodProgress([c EXCEPT !.at = to]) /\ [c EXCEPT !.at = to].at = to
<1>1. c \in Progress /\ c.result # "ok" /\ to \in Places
    BY DEF GoodProgress
<1>2. /\ [c EXCEPT !.at = to] \in Progress
      /\ [c EXCEPT !.at = to].at = to
      /\ [c EXCEPT !.at = to].next = c.next /\ [c EXCEPT !.at = to].result = c.result
    BY <1>1, ActFacts
<1> DEFINE a == [c EXCEPT !.at = to]
<1> HIDE DEF a
<1>3. /\ a \in Progress /\ a.at = to /\ a.next = c.next /\ a.result = c.result
    BY <1>2 DEF a
<1>4. GoodProgress(a)
    BY <1>1, <1>3 DEF GoodProgress
<1> QED BY <1>3, <1>4 DEF a

(***************************************************************************)
(* Where each action of a command leads.                                   *)
(***************************************************************************)
LEMMA ProbeMoves ==
    ASSUME CmdTypeOK, NEW d \in Commands, Probe(d) \/ ProbeEnds(d)
    PROVE  \E c : Takes(d, c) /\ (c.at \in {"probing", "look"} \/ Gone(c))
<1>1. cmd[d] \in Progress /\ GoodProgress(cmd[d]) /\ cmd[d].at # "done"
    BY DEF CmdTypeOK, Probe, ProbeEnds, At
<1>2. "probing" \in Plain /\ "look" \in Plain
    BY DEF Plain, Places, Early
<1>3. \/ Moves(d, Fail(cmd[d])) \/ Moves(d, Goto(cmd[d], "look"))
      \/ Moves(d, Goto(cmd[d], "probing"))
    BY ProbeCases DEF ProbeEnds, Moves
<1>4. CASE Moves(d, Fail(cmd[d]))
    BY <1>1, <1>4, FailGood DEF Takes
<1>5. CASE Moves(d, Goto(cmd[d], "look"))
  <2>1. Takes(d, Goto(cmd[d], "look")) /\ Goto(cmd[d], "look").at = "look"
      BY <1>1, <1>2, <1>5, GotoGood DEF Takes
  <2> QED BY <2>1
<1>6. CASE Moves(d, Goto(cmd[d], "probing"))
  <2>1. Takes(d, Goto(cmd[d], "probing")) /\ Goto(cmd[d], "probing").at = "probing"
      BY <1>1, <1>2, <1>6, GotoGood DEF Takes
  <2> QED BY <2>1
<1> QED BY <1>3, <1>4, <1>5, <1>6

LEMMA FirstLookMoves ==
    ASSUME CmdTypeOK, prog \in Progs, NEW d \in Commands, FirstLook(d)
    PROVE  \E c : Takes(d, c) /\
              \/ prog = "nosession" /\ c.at = "create"
              \/ TrustAsked(d) /\ c.at = "accept"
              \/ InputReady /\ c.at = "settle"
              \/ (PaneWorking \/ InputReady) /\ opt[d].queue /\ c.at = "qlook"
              \/ prog = "shell" /\ c.at = "launch"
              \/ Gone(c)
<1> DEFINE b == Existing(d, cmd[d])
           c == [b EXCEPT !.old = prog]
<1>1. cmd[d] \in Progress /\ GoodProgress(cmd[d]) /\ cmd[d].at = "look" /\ cmd[d].result # "ok"
    BY DEF CmdTypeOK, FirstLook, At, GoodProgress
<1>2. Moves(d, c)
    BY DEF FirstLook
<1>3. /\ b \in Progress /\ (b.result = "ok" => b.at = "done")
      /\ \/ prog = "nosession" /\ b.at = "create"
         \/ TrustAsked(d) /\ b.at = "accept" /\ b.next \in {"clear", "paste", "relook"}
         \/ InputReady /\ b.at = "settle" /\ b.next = "exitlook"
         \/ InputReady /\ prog = "agent" /\ b.at = "settle" /\ b.next \in {"clear", "paste"}
         \/ (PaneWorking \/ InputReady) /\ opt[d].queue /\ b.at = "qlook"
         \/ prog = "shell" /\ b.at = "launch"
         \/ Gone(b)
  <2>1. Reuse(d) \in {"clear", "paste"}
      BY DEF Reuse
  <2>2. {"accept", "settle", "create", "qlook", "launch"} \subseteq Places
      BY DEF Places, Before
  <2>3. {"clear", "paste", "relook", "exitlook"} \subseteq Nexts
      BY DEF Nexts
  <2>4. CASE prog = "nosession" /\ b = Goto(cmd[d], "create")
    <3>1. "create" \in Places BY <2>2
    <3> QED BY <1>1, <2>4, <3>1, GotoFacts
  <2>5. CASE TrustAsked(d) /\ b = WaitAt(cmd[d], "accept", "relook")
    <3>1. "accept" \in Places /\ "relook" \in Nexts BY <2>2, <2>3
    <3> QED BY <1>1, <2>5, <3>1, WaitFacts
  <2>6. CASE TrustAsked(d) /\ b = WaitAt(cmd[d], "accept", Reuse(d))
    <3>1. "accept" \in Places /\ Reuse(d) \in Nexts BY <2>1, <2>2, <2>3
    <3> QED BY <1>1, <2>1, <2>6, <3>1, WaitFacts
  <2>7. CASE InputReady /\ b = WaitAt(cmd[d], "settle", "exitlook")
    <3>1. "settle" \in Places /\ "exitlook" \in Nexts BY <2>2, <2>3
    <3> QED BY <1>1, <2>7, <3>1, WaitFacts
  <2>8. CASE InputReady /\ prog = "agent" /\ b = WaitAt(cmd[d], "settle", Reuse(d))
    <3>1. "settle" \in Places /\ Reuse(d) \in Nexts BY <2>1, <2>2, <2>3
    <3> QED BY <1>1, <2>1, <2>8, <3>1, WaitFacts
  <2>9. CASE /\ PaneWorking \/ InputReady
             /\ opt[d].queue /\ b = Goto(cmd[d], "qlook")
    <3>1. "qlook" \in Places BY <2>2
    <3>2. b \in Progress /\ b.at = "qlook" /\ b.result = cmd[d].result
        BY <1>1, <2>9, <3>1, GotoFacts
    <3> QED BY <1>1, <2>9, <3>2
  <2>10. CASE prog = "shell" /\ b = Goto(cmd[d], "launch")
    <3>1. "launch" \in Places BY <2>2
    <3> QED BY <1>1, <2>10, <3>1, GotoFacts
  <2>11. CASE b = Fail(cmd[d])
    <3>1. b \in Progress /\ Gone(b)
        BY <1>1, <2>11, FailFacts DEF Gone
    <3> QED BY <3>1 DEF Gone
  <2> HIDE DEF b
  <2>12. \/ prog = "nosession" /\ b = Goto(cmd[d], "create")
         \/ TrustAsked(d) /\ b = WaitAt(cmd[d], "accept", "relook")
         \/ TrustAsked(d) /\ b = WaitAt(cmd[d], "accept", Reuse(d))
         \/ InputReady /\ b = WaitAt(cmd[d], "settle", "exitlook")
         \/ InputReady /\ prog = "agent" /\ b = WaitAt(cmd[d], "settle", Reuse(d))
         \/ /\ (PaneWorking \/ InputReady) /\ opt[d].queue
            /\ b = Goto(cmd[d], "qlook")
         \/ prog = "shell" /\ b = Goto(cmd[d], "launch")
         \/ b = Fail(cmd[d])
      BY ExistingCases, Zenon DEF b
  <2> QED BY <2>12, <2>4, <2>5, <2>6, <2>7, <2>8, <2>9, <2>10, <2>11
<1>4. /\ c \in Progress /\ c.at = b.at /\ c.next = b.next /\ c.result = b.result
      /\ c.old = prog
  <2> HIDE DEF b
  <2> QED BY <1>3, OldFacts
<1> HIDE DEF b, c
<1>5. GoodProgress(c)
    BY <1>3, <1>4 DEF GoodProgress, Gone
<1>6. Takes(d, c)
    BY <1>2, <1>5 DEF Takes
<1> QED BY <1>3, <1>4, <1>6 DEF Gone

LEMMA RelookMoves ==
    ASSUME CmdTypeOK, NEW d \in Commands, Relook(d)
    PROVE  \E c : Takes(d, c) /\ ((InputReady /\ c.at = "settle") \/ Gone(c))
<1> DEFINE c == WaitAt(cmd[d], "settle", "exitlook")
<1>1. cmd[d] \in Progress /\ cmd[d].result # "ok"
    BY DEF CmdTypeOK, Relook, At, GoodProgress
<1>2. CASE InputReady /\ Moves(d, c)
  <2>1. "settle" \in Places /\ "exitlook" \in Nexts
      BY DEF Places, Before, Nexts
  <2>2. /\ c \in Progress /\ c.at = "settle" /\ c.next = "exitlook"
        /\ c.result = cmd[d].result
      BY <1>1, <2>1, WaitFacts
  <2> HIDE DEF c
  <2>3. GoodProgress(c)
      BY <1>1, <2>2 DEF GoodProgress
  <2> QED BY <1>2, <2>2, <2>3 DEF Takes
<1>3. CASE Moves(d, Fail(cmd[d]))
    BY <1>1, <1>3, FailGood DEF Takes
<1>4. (InputReady /\ Moves(d, c)) \/ Moves(d, Fail(cmd[d]))
    BY DEF Relook, Restart, SettleThen
<1> QED BY <1>2, <1>3, <1>4

LEMMA SettleMoves ==
    ASSUME CmdTypeOK, NEW d \in Commands, Settle(d)
    PROVE  \E c : Takes(d, c) /\
              \/ InputReady /\ c.at = "settle"
              \/ InputReady /\ c.at = "exitlook"
              \/ InputReady /\ prog = "agent" /\ c.at \in {"clear", "paste"}
              \/ Gone(c)
<1>1. /\ cmd[d] \in Progress /\ GoodProgress(cmd[d]) /\ cmd[d].at = "settle"
      /\ cmd[d].next \in {"clear", "paste", "exitlook"} /\ cmd[d].result # "ok"
      /\ cmd[d].next # "exitlook" => cmd[d].old = "agent"
    BY DEF CmdTypeOK, Settle, At, GoodProgress
<1>2. CASE prog = cmd[d].old /\ InputReady /\ Moves(d, Goto(cmd[d], cmd[d].next))
  <2>1. cmd[d].next \in Plain
      BY <1>1 DEF Plain, Places, Before
  <2>2. /\ GoodProgress(Goto(cmd[d], cmd[d].next))
        /\ Goto(cmd[d], cmd[d].next).at = cmd[d].next
      BY <1>1, <2>1, GotoGood
  <2>3. Takes(d, Goto(cmd[d], cmd[d].next))
      BY <1>2, <2>2 DEF Takes
  <2> QED BY <1>1, <1>2, <2>2, <2>3
<1>3. CASE InputReady /\ Moves(d, Again(cmd[d], cmd[d].at))
  <2> DEFINE c == Again(cmd[d], "settle")
  <2>1. "settle" \in Places
      BY DEF Places, Before
  <2>2. /\ c \in Progress /\ c.at = "settle" /\ c.next = cmd[d].next
        /\ c.result = cmd[d].result /\ c.old = cmd[d].old
      BY <1>1, <2>1, AgainFacts
  <2>3. Moves(d, c)
      BY <1>1, <1>3
  <2> HIDE DEF c
  <2>4. GoodProgress(c)
      BY <1>1, <2>2 DEF GoodProgress
  <2> QED BY <1>3, <2>2, <2>3, <2>4 DEF Takes
<1>4. CASE Moves(d, Fail(cmd[d]))
    BY <1>1, <1>4, FailGood DEF Takes
<1>5. \/ prog = cmd[d].old /\ InputReady /\ Moves(d, Goto(cmd[d], cmd[d].next))
      \/ InputReady /\ Moves(d, Again(cmd[d], cmd[d].at))
      \/ Moves(d, Fail(cmd[d]))
    BY DEF Settle, Settled
<1> QED BY <1>2, <1>3, <1>4, <1>5

LEMMA WaitReadyMoves ==
    ASSUME CmdTypeOK, NEW d \in Commands, WaitReady(d)
    PROVE  \E c : Takes(d, c) /\
              \/ TrustAsked(d) /\ c = cmd[d]
              \/ TrustAsked(d) /\ c.at = "accept"
              \/ /\ InputReady /\ prog = "agent" /\ cmd[d].looks >= ReadySettle
                 /\ c.at \in {"clear", "paste", "relook"}
              \/ InputReady /\ c.at = "ready"
              \/ ~Asking /\ c.at = "ready" /\ c.looks = 0
              \/ Gone(c)
<1>1. /\ cmd[d] \in Progress /\ GoodProgress(cmd[d]) /\ cmd[d].at = "ready"
      /\ cmd[d].next \in {"clear", "paste", "relook"} /\ cmd[d].result # "ok"
    BY DEF CmdTypeOK, WaitReady, At, GoodProgress
<1>0. "ready" \in Places
    BY DEF Places, Before
<1>2. CASE TrustAsked(d) /\ Moves(d, cmd[d])
    BY <1>1, <1>2 DEF Takes
<1>3. CASE TrustAsked(d) /\ Moves(d, WaitAt(cmd[d], "accept", cmd[d].next))
  <2>1. /\ GoodProgress(WaitAt(cmd[d], "accept", cmd[d].next))
        /\ WaitAt(cmd[d], "accept", cmd[d].next).at = "accept"
      BY <1>1, WaitGood
  <2>2. Takes(d, WaitAt(cmd[d], "accept", cmd[d].next))
      BY <1>3, <2>1 DEF Takes
  <2> QED BY <1>3, <2>1, <2>2
<1>4. CASE /\ prog = "agent" /\ InputReady /\ cmd[d].looks >= ReadySettle
           /\ Moves(d, Goto(cmd[d], cmd[d].next))
  <2>1. cmd[d].next \in Plain
      BY <1>1 DEF Plain, Places, Before
  <2>2. /\ GoodProgress(Goto(cmd[d], cmd[d].next))
        /\ Goto(cmd[d], cmd[d].next).at = cmd[d].next
      BY <1>1, <2>1, GotoGood
  <2>3. Takes(d, Goto(cmd[d], cmd[d].next))
      BY <1>4, <2>2 DEF Takes
  <2> QED BY <1>1, <1>4, <2>2, <2>3
<1>5. CASE InputReady /\ Moves(d, Again(cmd[d], "ready"))
  <2> DEFINE c == Again(cmd[d], "ready")
  <2>1. /\ c \in Progress /\ c.at = "ready" /\ c.next = cmd[d].next
        /\ c.result = cmd[d].result
      BY <1>0, <1>1, AgainFacts
  <2>2. Moves(d, c)
      BY <1>5
  <2> HIDE DEF c
  <2>3. GoodProgress(c)
      BY <1>1, <2>1 DEF GoodProgress
  <2> QED BY <1>5, <2>1, <2>2, <2>3 DEF Takes
<1>6. CASE ~Asking /\ Moves(d, Goto(cmd[d], "ready"))
  <2> DEFINE c == Goto(cmd[d], "ready")
  <2>1. /\ c \in Progress /\ c.at = "ready" /\ c.next = cmd[d].next
        /\ c.result = cmd[d].result /\ c.looks = 0
      BY <1>0, <1>1, GotoFacts
  <2>2. Moves(d, c)
      BY <1>6
  <2> HIDE DEF c
  <2>3. GoodProgress(c)
      BY <1>1, <2>1 DEF GoodProgress
  <2> QED BY <1>6, <2>1, <2>2, <2>3 DEF Takes
<1>7. CASE Moves(d, Fail(cmd[d]))
    BY <1>1, <1>7, FailGood DEF Takes
<1>8. Moves(d, ReadyLook(d, cmd[d]))
    BY DEF WaitReady
<1> QED BY <1>2, <1>3, <1>4, <1>5, <1>6, <1>7, <1>8, ReadyCases

LEMMA ConfirmMoves ==
    ASSUME CmdTypeOK, NEW d \in Commands, ConfirmPrompt(d)
    PROVE  \E c : Takes(d, c) /\
              \/ Submitted(d) /\ c.at = "done"
              \/ prog # "nosession" /\ ~Submitted(d) /\ InBox(d) /\ c.at = "enter"
              \/ /\ prog # "nosession" /\ ~Submitted(d) /\ ~InBox(d) /\ ~ForeignDraft(d)
                 /\ c.at = "paste"
              \/ Gone(c)
<1>1. /\ cmd[d] \in Progress /\ GoodProgress(cmd[d]) /\ cmd[d].at = "confirm"
      /\ cmd[d].at # "done"
    BY DEF CmdTypeOK, ConfirmPrompt, At, GoodProgress
<1>2. CASE Moves(d, Fail(cmd[d]))
    BY <1>1, <1>2, FailGood DEF Takes
<1>3. CASE Submitted(d) /\ Moves(d, End(cmd[d], "ok"))
    BY <1>1, <1>3, EndGood DEF Takes
<1>4. CASE /\ prog # "nosession" /\ ~Submitted(d) /\ InBox(d)
           /\ Moves(d, Again(cmd[d], "enter"))
  <2>1. "enter" \in Plain
      BY DEF Plain, Places, Typing
  <2>2. GoodProgress(Again(cmd[d], "enter")) /\ Again(cmd[d], "enter").at = "enter"
      BY <1>1, <2>1, AgainGood
  <2> QED BY <1>4, <2>2 DEF Takes
<1>5. CASE /\ prog # "nosession" /\ ~Submitted(d) /\ ~InBox(d) /\ ~ForeignDraft(d)
           /\ Moves(d, Again(cmd[d], "paste"))
  <2>1. "paste" \in Plain
      BY DEF Plain, Places, Before
  <2>2. GoodProgress(Again(cmd[d], "paste")) /\ Again(cmd[d], "paste").at = "paste"
      BY <1>1, <2>1, AgainGood
  <2> QED BY <1>5, <2>2 DEF Takes
<1>6. Moves(d, Confirm(d, cmd[d]))
    BY DEF ConfirmPrompt
<1> QED BY <1>2, <1>3, <1>4, <1>5, <1>6, ConfirmCases DEF ForeignDraft

LEMMA QueueLookMoves ==
    ASSUME CmdTypeOK, NEW d \in Commands, QueueLook(d)
    PROVE  \E c : Takes(d, c) /\
              ((~DraftSeen /\ prog # "nosession" /\ c.at = "qpaste") \/ Gone(c))
<1>1. /\ cmd[d] \in Progress /\ GoodProgress(cmd[d]) /\ cmd[d].at = "qlook"
      /\ cmd[d].at # "done"
    BY DEF CmdTypeOK, QueueLook, At, GoodProgress
<1>2. CASE Moves(d, Fail(cmd[d]))
    BY <1>1, <1>2, FailGood DEF Takes
<1>3. CASE ~DraftSeen /\ prog # "nosession" /\ Moves(d, Goto(cmd[d], "qpaste"))
  <2>1. "qpaste" \in Plain
      BY DEF Plain, Places, Before
  <2>2. GoodProgress(Goto(cmd[d], "qpaste")) /\ Goto(cmd[d], "qpaste").at = "qpaste"
      BY <1>1, <2>1, GotoGood
  <2> QED BY <1>3, <2>2 DEF Takes
<1> QED BY <1>2, <1>3 DEF QueueLook

LEMMA ConfirmPastedMoves ==
    ASSUME CmdTypeOK, NEW d \in Commands, ConfirmPasted(d)
    PROVE  \E c : Takes(d, c) /\
              \/ ~Asking /\ Draft /\ c.at = "qenter"
              \/ ~Asking /\ ~Draft /\ prog # "nosession" /\ c.at = "qpaste"
              \/ Gone(c)
<1>1. /\ cmd[d] \in Progress /\ GoodProgress(cmd[d]) /\ cmd[d].at = "qpasted"
      /\ cmd[d].at # "done"
    BY DEF CmdTypeOK, ConfirmPasted, At, GoodProgress
<1>2. CASE Moves(d, Fail(cmd[d]))
    BY <1>1, <1>2, FailGood DEF Takes
<1>3. CASE ~Asking /\ Draft /\ Moves(d, Goto(cmd[d], "qenter"))
  <2>1. "qenter" \in Plain
      BY DEF Plain, Places, Typing
  <2>2. GoodProgress(Goto(cmd[d], "qenter")) /\ Goto(cmd[d], "qenter").at = "qenter"
      BY <1>1, <2>1, GotoGood
  <2> QED BY <1>3, <2>2 DEF Takes
<1>4. CASE /\ ~Asking /\ ~Draft /\ prog # "nosession"
           /\ Moves(d, Again(cmd[d], "qpaste"))
  <2>1. "qpaste" \in Plain
      BY DEF Plain, Places, Before
  <2>2. GoodProgress(Again(cmd[d], "qpaste")) /\ Again(cmd[d], "qpaste").at = "qpaste"
      BY <1>1, <2>1, AgainGood
  <2> QED BY <1>4, <2>2 DEF Takes
<1>5. Moves(d, Pasted(cmd[d]))
    BY DEF ConfirmPasted
<1> QED BY <1>2, <1>3, <1>4, <1>5, PastedCases

LEMMA ConfirmQueuedMoves ==
    ASSUME CmdTypeOK, NEW d \in Commands, ConfirmQueued(d)
    PROVE  \E c : Takes(d, c) /\
              \/ ~DraftSeen /\ prog # "nosession" /\ c.at = "done"
              \/ ~Asking /\ Draft /\ prog # "nosession" /\ c.at = "qenter"
              \/ Gone(c)
<1>1. /\ cmd[d] \in Progress /\ GoodProgress(cmd[d]) /\ cmd[d].at = "queued"
      /\ cmd[d].at # "done"
    BY DEF CmdTypeOK, ConfirmQueued, At, GoodProgress
<1>2. CASE Moves(d, Fail(cmd[d]))
    BY <1>1, <1>2, FailGood DEF Takes
<1>3. CASE ~DraftSeen /\ prog # "nosession" /\ Moves(d, End(cmd[d], "ok"))
    BY <1>1, <1>3, EndGood DEF Takes
<1>4. CASE /\ ~Asking /\ Draft /\ prog # "nosession"
           /\ Moves(d, Again(cmd[d], "qenter"))
  <2>1. "qenter" \in Plain
      BY DEF Plain, Places, Typing
  <2>2. GoodProgress(Again(cmd[d], "qenter")) /\ Again(cmd[d], "qenter").at = "qenter"
      BY <1>1, <2>1, AgainGood
  <2> QED BY <1>4, <2>2 DEF Takes
<1>5. Moves(d, Queued(cmd[d]))
    BY DEF ConfirmQueued
<1> QED BY <1>2, <1>3, <1>4, <1>5, QueuedCases

LEMMA ExitMoves ==
    ASSUME CmdTypeOK, NEW d \in Commands, ExitLook(d) \/ ExitInput(d) \/ ShellLook(d)
    PROVE  \E c : Takes(d, c) /\
              \/ cmd[d].at = "exitlook" /\ InputReady /\ c.at = "exit"
              \/ cmd[d].at = "exitinput" /\ ~Asking /\ c.at \in {"exitenter", "exitinput"}
              \/ cmd[d].at = "shell" /\ prog = "shell" /\ c.at = "launch"
              \/ cmd[d].at = "shell" /\ ~Asking /\ c.at = "shell"
              \/ Gone(c)
<1>1. /\ cmd[d] \in Progress /\ GoodProgress(cmd[d])
      /\ cmd[d].at \in {"exitlook", "exitinput", "shell"} /\ cmd[d].at # "done"
    BY DEF CmdTypeOK, ExitLook, ExitInput, ShellLook, At, GoodProgress
<1>2. CASE Moves(d, Fail(cmd[d]))
    BY <1>1, <1>2, FailGood DEF Takes
<1>3. CASE cmd[d].at = "exitlook" /\ InputReady /\ Moves(d, Goto(cmd[d], "exit"))
  <2>1. "exit" \in Plain
      BY DEF Plain, Places, Before
  <2>2. GoodProgress(Goto(cmd[d], "exit")) /\ Goto(cmd[d], "exit").at = "exit"
      BY <1>1, <2>1, GotoGood
  <2> QED BY <1>3, <2>2 DEF Takes
<1>4. CASE cmd[d].at = "exitinput" /\ ~Asking /\ Moves(d, Goto(cmd[d], "exitenter"))
  <2>1. "exitenter" \in Plain
      BY DEF Plain, Places, Before
  <2>2. GoodProgress(Goto(cmd[d], "exitenter")) /\ Goto(cmd[d], "exitenter").at = "exitenter"
      BY <1>1, <2>1, GotoGood
  <2> QED BY <1>4, <2>2 DEF Takes
<1>5. CASE cmd[d].at = "shell" /\ prog = "shell" /\ Moves(d, Goto(cmd[d], "launch"))
  <2>1. "launch" \in Plain
      BY DEF Plain, Places, Before
  <2>2. GoodProgress(Goto(cmd[d], "launch")) /\ Goto(cmd[d], "launch").at = "launch"
      BY <1>1, <2>1, GotoGood
  <2> QED BY <1>5, <2>2 DEF Takes
<1>6. CASE cmd[d].at \in {"exitinput", "shell"} /\ ~Asking /\ Moves(d, cmd[d])
    BY <1>1, <1>6 DEF Takes
<1>7. \/ Moves(d, Fail(cmd[d]))
      \/ cmd[d].at = "exitlook" /\ InputReady /\ Moves(d, Goto(cmd[d], "exit"))
      \/ cmd[d].at = "exitinput" /\ ~Asking /\ Moves(d, Goto(cmd[d], "exitenter"))
      \/ cmd[d].at = "shell" /\ prog = "shell" /\ Moves(d, Goto(cmd[d], "launch"))
      \/ cmd[d].at \in {"exitinput", "shell"} /\ ~Asking /\ Moves(d, cmd[d])
  <2>1. CASE ExitLook(d)
      BY <2>1 DEF ExitLook, At
  <2>2. CASE ExitInput(d)
      BY <2>2, Zenon DEF ExitInput, At
  <2>3. CASE ShellLook(d)
      BY <2>3, Zenon DEF ShellLook, At
  <2> QED BY <2>1, <2>2, <2>3
<1> QED BY <1>2, <1>3, <1>4, <1>5, <1>6, <1>7

(***************************************************************************)
(* The kinds of steps.                                                     *)
(***************************************************************************)
Looking(d) ==
    \/ FirstLook(d) \/ Relook(d) \/ Settle(d) \/ WaitReady(d) \/ ConfirmPrompt(d)
    \/ QueueLook(d) \/ ConfirmPasted(d) \/ ConfirmQueued(d)
    \/ ExitLook(d) \/ ExitInput(d) \/ ShellLook(d)
Moving(d) == Probe(d) \/ ProbeEnds(d) \/ AcceptedTrust(d) \/ WaitTimesOut(d) \/ Launched(d)

\* The texts and keys: from where to where.
ActsAt == {<<"accept", "Enter", "trusting">>, <<"clear", "clear", "clearenter">>,
           <<"clearenter", "Enter", "paste">>, <<"launch", "launch", "launchenter">>,
           <<"launchenter", "Enter", "launched">>, <<"enter", "Enter", "confirm">>,
           <<"qenter", "Enter", "queued">>, <<"exit", "exit", "exitinput">>,
           <<"exitenter", "Enter", "shell">>}
TypesAt(d, from, input, to) ==
    \/ from = "paste" /\ input = d /\ to = "enter"
    \/ from = "qpaste" /\ input = d /\ to = "qpasted"
    \/ <<from, input, to>> \in ActsAt
Acting(d) == \E from \in Places, input \in Tokens \cup {"Enter"}, to \in Places :
    TypesAt(d, from, input, to) /\ At(d, {from}) /\ Acts(d, input, to)
AgentMoves ==
    \/ AgentBoots \/ AgentAsksTrust \/ TurnPauses \/ TurnGoesOn \/ TurnAsks \/ TurnEnds
    \/ HumanAnswers
HumanMoves == HumanTypes \/ HumanEnters \/ HumanLeaves("shell") \/ HumanLeaves("nosession")
LeaseMoves == LeaseTaken \/ LeaseReleased

LEMMA ActingIs ==
    ASSUME NEW d \in Commands, NEW from \in Places, NEW input \in Tokens \cup {"Enter"},
           NEW to \in Places, TypesAt(d, from, input, to), At(d, {from}), Acts(d, input, to)
    PROVE  Acting(d)
BY DEF Acting

LEMMA CommandSteps ==
    ASSUME NEW d \in Commands, CommandStep(d)
    PROVE  Looking(d) \/ Moving(d) \/ Acting(d) \/ CreateSession(d)
<1>1. /\ {"accept", "trusting", "clear", "clearenter", "paste", "launch", "launchenter",
          "launched", "exit", "exitinput", "exitenter", "shell", "qpaste"} \subseteq Places
      /\ {"enter", "confirm", "qpasted", "qenter", "queued"} \subseteq Places
      /\ {"clear", "launch", "exit", "Enter"} \subseteq Tokens \cup {"Enter"}
      /\ d \in Tokens \cup {"Enter"}
    BY DEF Places, Before, Typing, Tokens
<1>2. CASE AcceptTrust(d)
    BY <1>1, <1>2, ActingIs DEF AcceptTrust, TypesAt, ActsAt
<1>3. CASE TypeClear(d)
    BY <1>1, <1>3, ActingIs DEF TypeClear, TypesAt, ActsAt
<1>4. CASE EnterClear(d)
    BY <1>1, <1>4, ActingIs DEF EnterClear, TypesAt, ActsAt
<1>5. CASE TypeLaunch(d)
    BY <1>1, <1>5, ActingIs DEF TypeLaunch, TypesAt, ActsAt
<1>6. CASE EnterLaunch(d)
    BY <1>1, <1>6, ActingIs DEF EnterLaunch, TypesAt, ActsAt
<1>7. CASE PastePrompt(d)
    BY <1>1, <1>7, ActingIs DEF PastePrompt, TypesAt
<1>8. CASE EnterPrompt(d)
    BY <1>1, <1>8, ActingIs DEF EnterPrompt, TypesAt, ActsAt
<1>9. CASE PasteQueued(d)
    BY <1>1, <1>9, ActingIs DEF PasteQueued, TypesAt
<1>10. CASE EnterQueued(d)
    BY <1>1, <1>10, ActingIs DEF EnterQueued, TypesAt, ActsAt
<1>11. CASE TypeExit(d)
    BY <1>1, <1>11, ActingIs DEF TypeExit, TypesAt, ActsAt
<1>12. CASE EnterExit(d)
    BY <1>1, <1>12, ActingIs DEF EnterExit, TypesAt, ActsAt
<1>13. CASE Looking(d) \/ Moving(d) \/ CreateSession(d)
    BY <1>13
<1> QED BY <1>2, <1>3, <1>4, <1>5, <1>6, <1>7, <1>8, <1>9, <1>10, <1>11, <1>12, <1>13
        DEF CommandStep, Looking, Moving

LEMMA Steps ==
    ASSUME DispatchNext
    PROVE  \/ \E d \in Commands : Looking(d) \/ Moving(d) \/ Acting(d) \/ CreateSession(d)
           \/ AgentMoves \/ HumanMoves \/ LeaseMoves
BY CommandSteps DEF DispatchNext, AgentMoves, HumanMoves, LeaseMoves

\* What a command that acts does.
Acted(d, input) ==
    /\ prog # "nosession"
    /\ IF input = "Enter" THEN Enter(d) ELSE Types(input)
    /\ OthersDisturbed(d)
NoPane(d) ==
    /\ prog = "nosession"
    /\ UNCHANGED <<paneState, worldBounds, submitted, disturbed, badKeys>>

LEMMA ActMoves ==
    ASSUME CmdTypeOK, NEW d \in Commands, NEW from \in Places, NEW input, NEW to \in Places,
           TypesAt(d, from, input, to), At(d, {from}), Acts(d, input, to)
    PROVE  \E c : Takes(d, c) /\ ((NoPane(d) /\ Gone(c)) \/ (Acted(d, input) /\ c.at = to))
<1>1. cmd[d] \in Progress /\ GoodProgress(cmd[d]) /\ cmd[d].at = from
    BY DEF CmdTypeOK, At, GoodProgress
<1>2. from # "done" /\ to \in Places \ {"settle", "accept", "ready", "done"}
      /\ (to = "trusting" => from = "accept")
    BY DEF TypesAt, ActsAt
<1>3. CASE prog = "nosession"
  <2>1. Moves(d, Fail(cmd[d])) /\ NoPane(d)
      BY <1>3 DEF Acts, NoPane
  <2> QED BY <1>1, <2>1, FailGood DEF Takes
<1>4. CASE prog # "nosession"
  <2> DEFINE c == [cmd[d] EXCEPT !.at = to]
  <2>1. Moves(d, c) /\ Acted(d, input)
      BY <1>4 DEF Acts, Acted
  <2>2. GoodProgress(c) /\ c.at = to
      BY <1>1, <1>2, ActGood
  <2> HIDE DEF c
  <2> QED BY <2>1, <2>2 DEF Takes
<1> QED BY <1>3, <1>4

LEMMA MovingMoves ==
    ASSUME CmdTypeOK, NEW d \in Commands, Moving(d)
    PROVE  /\ UNCHANGED <<paneState, worldBounds, opt, dispatchHistory>>
           /\ \E c : Takes(d, c) /\
                \/ cmd[d].at \in {"probe", "probing"} /\ c.at \in {"probing", "look"}
                \/ cmd[d].at \in {"trusting", "launched"} /\ c.at = "ready" /\ c.looks = 0
                \/ Gone(c)
<1>1. cmd[d] \in Progress /\ GoodProgress(cmd[d])
    BY DEF CmdTypeOK
<1>2. UNCHANGED <<paneState, worldBounds, opt, dispatchHistory>>
    BY DEF Moving, Probe, ProbeEnds, AcceptedTrust, WaitTimesOut, Launched
<1>3. CASE Probe(d) \/ ProbeEnds(d)
  <2>1. cmd[d].at \in {"probe", "probing"}
      BY <1>3 DEF Probe, ProbeEnds, At
  <2> QED BY <1>2, <1>3, <2>1, ProbeMoves
<1>4. CASE AcceptedTrust(d)
  <2> DEFINE b == Goto(cmd[d], "ready")
             c == [b EXCEPT !.trusted = TRUE]
  <2>1. /\ cmd[d].at = "trusting" /\ cmd[d].result # "ok"
        /\ cmd[d].next \in {"clear", "paste", "relook"} /\ Moves(d, c)
      BY <1>1, <1>4 DEF AcceptedTrust, At, GoodProgress
  <2>2. "ready" \in Places
      BY DEF Places, Before
  <2>3. /\ b \in Progress /\ b.at = "ready" /\ b.looks = 0
        /\ b.next = cmd[d].next /\ b.result = cmd[d].result
      BY <1>1, <2>2, GotoFacts
  <2> HIDE DEF b
  <2>4. /\ c \in Progress /\ c.at = "ready" /\ c.looks = 0
        /\ c.next = b.next /\ c.result = b.result
      BY <2>3, TrustedFacts
  <2> HIDE DEF c
  <2>5. GoodProgress(c)
      BY <2>1, <2>3, <2>4 DEF GoodProgress
  <2>6. Takes(d, c)
      BY <2>1, <2>5 DEF Takes
  <2> QED BY <1>2, <2>1, <2>4, <2>6
<1>5. CASE WaitTimesOut(d)
  <2>1. Moves(d, Fail(cmd[d]))
      BY <1>5 DEF WaitTimesOut
  <2> QED BY <1>1, <1>2, <2>1, FailGood DEF Takes
<1>6. CASE Launched(d)
  <2> DEFINE c == WaitAt(cmd[d], "ready", "paste")
  <2>1. cmd[d].at = "launched" /\ Moves(d, c)
      BY <1>6 DEF Launched, At
  <2>2. GoodProgress(c) /\ c.at = "ready" /\ c.looks = 0
      BY <1>1, <2>1, WaitGood
  <2> HIDE DEF c
  <2>3. Takes(d, c)
      BY <2>1, <2>2 DEF Takes
  <2> QED BY <1>2, <2>1, <2>2, <2>3
<1> QED BY <1>3, <1>4, <1>5, <1>6 DEF Moving

LEMMA CreateMoves ==
    ASSUME CmdTypeOK, NEW d \in Commands, CreateSession(d)
    PROVE  \E c : Takes(d, c) /\
              \/ prog = "nosession" /\ prog' = "shell" /\ c.at = "launch"
              \/ UNCHANGED prog /\ Gone(c)
<1>1. cmd[d] \in Progress /\ GoodProgress(cmd[d]) /\ cmd[d].at = "create"
      /\ cmd[d].at # "done"
    BY DEF CmdTypeOK, CreateSession, At
<1>2. CASE prog = "nosession"
  <2>1. prog' = "shell" /\ Moves(d, Goto(cmd[d], "launch"))
      BY <1>2 DEF CreateSession
  <2>2. "launch" \in Plain
      BY DEF Plain, Places, Before
  <2>3. GoodProgress(Goto(cmd[d], "launch")) /\ Goto(cmd[d], "launch").at = "launch"
      BY <1>1, <2>2, GotoGood
  <2> QED BY <1>2, <2>1, <2>3 DEF Takes
<1>3. CASE prog # "nosession"
  <2>1. UNCHANGED prog /\ Moves(d, Fail(cmd[d]))
      BY <1>3 DEF CreateSession
  <2> QED BY <1>1, <2>1, FailGood DEF Takes
<1> QED BY <1>2, <1>3

LEMMA LookingMoves ==
    ASSUME CmdTypeOK, prog \in Progs, NEW d \in Commands, Looking(d)
    PROVE  Look(d) /\ (\E c : Takes(d, c))
           /\ (firstTurn' = firstTurn \/ firstTurn' = [firstTurn EXCEPT ![d] = turn])
<1>1. Look(d) /\ (firstTurn' = firstTurn \/ firstTurn' = [firstTurn EXCEPT ![d] = turn])
    BY DEF Looking, FirstLook, Relook, Settle, WaitReady, ConfirmPrompt, QueueLook,
           ConfirmPasted, ConfirmQueued, ExitLook, ExitInput, ShellLook
<1>2. \E c : Takes(d, c)
    BY FirstLookMoves, RelookMoves, SettleMoves, WaitReadyMoves, ConfirmMoves, QueueLookMoves,
       ConfirmPastedMoves, ConfirmQueuedMoves, ExitMoves DEF Looking
<1> QED BY <1>1, <1>2

LEMMA CmdTypes ==
    ASSUME CmdTypeOK, prog \in Progs, NEW d \in Commands,
           Looking(d) \/ Moving(d) \/ Acting(d) \/ CreateSession(d)
    PROVE  CmdTypeOK' /\ (\A e \in Commands \ {d} : cmd'[e] = cmd[e])
<1>1. CASE Looking(d)
    BY <1>1, LookingMoves, TakesFacts
<1>2. CASE Moving(d)
    BY <1>2, MovingMoves, TakesFacts
<1>3. CASE Acting(d)
  <2>1. PICK from \in Places, input \in Tokens \cup {"Enter"}, to \in Places :
               TypesAt(d, from, input, to) /\ At(d, {from}) /\ Acts(d, input, to)
      BY <1>3 DEF Acting
  <2> QED BY <2>1, ActMoves, TakesFacts
<1>4. CASE CreateSession(d)
    BY <1>4, CreateMoves, TakesFacts
<1> QED BY <1>1, <1>2, <1>3, <1>4

(***************************************************************************)
(* The pane and its turns.                                                 *)
(***************************************************************************)
PaneTypeOK ==
    /\ prog \in Progs /\ view \in Views /\ box \in Seq(Tokens)
    /\ turn \in Nat /\ turns \in Nat
    /\ submitted \in [Commands -> Nat]

\* The turn in progress is the latest, an agent that works or asks is in a turn,
\* one that starts is not, and a turn ends with its agent.
Turns ==
    /\ turn \in {0, turns}
    /\ prog \notin Agents => turn = 0
    /\ prog \in Agents /\ view \in {"working", "asking"} => turn # 0
    /\ prog \in Agents /\ view \in {"booting", "trust"} => turn = 0

\* The turn goes on, ends, or a new one begins; only an end makes a command
\* forget that it saw the turn look idle.
TurnStep ==
    /\ turns' >= turns
    /\ turn' = turn \/ turn' = 0 \/ turn' > turns

PaneInv == PaneTypeOK /\ Turns

LEMMA Same ==
    ASSUME PaneInv, UNCHANGED <<prog, view, box, turn, turns, submitted>>
    PROVE  PaneInv' /\ TurnStep
<1>1. PaneTypeOK'
    BY DEF PaneInv, PaneTypeOK
<1>2. Turns'
    BY DEF PaneInv, Turns
<1>3. TurnStep
    BY DEF PaneInv, PaneTypeOK, TurnStep
<1> QED BY <1>1, <1>2, <1>3 DEF PaneInv

LEMMA TypesPane ==
    ASSUME PaneInv, NEW token \in Tokens, Types(token)
    PROVE  PaneInv' /\ TurnStep
<1>1. box' \in Seq(Tokens)
  <2>1. box' = box \/ box' = Append(box, token)
      BY DEF Types
  <2> QED BY <2>1 DEF PaneInv, PaneTypeOK
<1>2. UNCHANGED <<prog, view, turn, turns, submitted>>
    BY DEF Types
<1>3. PaneTypeOK'
    BY <1>1, <1>2 DEF PaneInv, PaneTypeOK
<1>4. Turns'
    BY <1>2 DEF PaneInv, Turns
<1>5. TurnStep
    BY <1>2 DEF PaneInv, PaneTypeOK, TurnStep
<1> QED BY <1>3, <1>4, <1>5 DEF PaneInv

\* How often a line holds a command's prompt.
Times(e) == Cardinality({i \in DOMAIN box : box[i] = e})
LEMMA TimesNat ==
    ASSUME box \in Seq(Tokens), NEW e
    PROVE  Times(e) \in Nat
<1>1. DOMAIN box = 1..Len(box) /\ Len(box) \in Nat
    OBVIOUS
<1>2. IsFiniteSet(DOMAIN box)
    BY <1>1, FS_Interval
<1>3. {i \in DOMAIN box : box[i] = e} \subseteq DOMAIN box
    OBVIOUS
<1>4. IsFiniteSet({i \in DOMAIN box : box[i] = e})
    BY <1>2, <1>3, FS_Subset
<1> QED BY <1>4, FS_CardinalityType DEF Times

LEMMA SubmitsPane ==
    ASSUME PaneInv, prog \in Agents, view \in {"ready", "working"}, NEW d, Submits(d)
    PROVE  PaneInv' /\ TurnStep
<1>1. box' = <<>> /\ submitted' = [e \in Commands |-> submitted[e] + Times(e)]
    BY DEF Submits, Times
<1>2. box' \in Seq(Tokens)
    BY <1>1
<1>3. submitted' \in [Commands -> Nat]
  <2>1. \A e \in Commands : submitted[e] + Times(e) \in Nat
    <3> SUFFICES ASSUME NEW e \in Commands PROVE submitted[e] + Times(e) \in Nat
        OBVIOUS
    <3>1. Times(e) \in Nat
        BY TimesNat DEF PaneInv, PaneTypeOK
    <3> QED BY <3>1 DEF PaneInv, PaneTypeOK
  <2> QED BY <1>1, <2>1
<1>4. \/ prog' = "shell" /\ turn' = 0 /\ UNCHANGED <<view, turns>>
      \/ UNCHANGED <<prog, view, turn, turns>>
      \/ /\ view' = "working" /\ UNCHANGED prog
         /\ turn' = (IF turn = 0 THEN turns + 1 ELSE turn)
         /\ turns' = (IF turn = 0 THEN turns + 1 ELSE turns)
    BY DEF Submits
<1>5. prog' \in Progs /\ view' \in Views /\ turn' \in Nat /\ turns' \in Nat
    BY <1>4 DEF PaneInv, PaneTypeOK, Progs, Views
<1>6. Turns'
    BY <1>4 DEF PaneInv, PaneTypeOK, Turns, Agents
<1>7. TurnStep
    BY <1>4 DEF PaneInv, PaneTypeOK, TurnStep
<1> QED BY <1>2, <1>3, <1>5, <1>6, <1>7 DEF PaneInv, PaneTypeOK

LEMMA EnterPane ==
    ASSUME PaneInv, NEW d, Enter(d)
    PROVE  PaneInv' /\ TurnStep
<1>1. CASE /\ Asking /\ view' = (IF view = "trust" THEN "booting" ELSE "working")
           /\ UNCHANGED <<prog, box, shown, turn, turns, submitted, lost>>
  <2>1. prog \in Agents /\ view \in {"asking", "trust"}
      BY <1>1 DEF Asking
  <2>2. PaneTypeOK'
      BY <1>1 DEF PaneInv, PaneTypeOK, Views
  <2>3. Turns'
      BY <1>1, <2>1 DEF PaneInv, Turns
  <2>4. TurnStep
      BY <1>1 DEF PaneInv, PaneTypeOK, TurnStep
  <2> QED BY <2>2, <2>3, <2>4 DEF PaneInv
<1>2. CASE prog \in Agents /\ view \in {"ready", "working"} /\ Submits(d)
    BY <1>2, SubmitsPane
<1>3. CASE prog = "shell" /\ ShellRuns
  <2>1. /\ box' = <<>> /\ UNCHANGED <<turn, turns, submitted>>
        /\ \/ prog' = "agent" /\ view' = "booting"
           \/ UNCHANGED <<prog, view>>
      BY <1>3 DEF ShellRuns
  <2>2. box' \in Seq(Tokens)
      BY <2>1
  <2>3. PaneTypeOK'
      BY <2>1, <2>2 DEF PaneInv, PaneTypeOK, Views, Progs
  <2>4. turn = 0
      BY <1>3 DEF PaneInv, Turns, Agents
  <2>5. Turns'
      BY <1>3, <2>1, <2>4 DEF PaneInv, Turns, Agents
  <2>6. TurnStep
      BY <2>1 DEF PaneInv, PaneTypeOK, TurnStep
  <2> QED BY <2>3, <2>5, <2>6 DEF PaneInv
<1>4. CASE UNCHANGED <<prog, view, box, shown, turn, turns, submitted, badKeys>>
    BY <1>4, Same
<1> QED BY <1>1, <1>2, <1>3, <1>4 DEF Enter

LEMMA AgentPane ==
    ASSUME PaneInv, AgentMoves
    PROVE  PaneInv' /\ TurnStep
<1>1. UNCHANGED <<prog, box, turns, submitted>>
    BY DEF AgentMoves, AgentBoots, AgentAsksTrust, TurnPauses, TurnGoesOn, TurnAsks, TurnEnds,
           HumanAnswers, AgentShows
<1>2. /\ view' \in Views
      /\ \/ UNCHANGED turn /\ view \in {"booting", "trust"} /\ view' \in {"ready", "trust", "booting"}
         \/ UNCHANGED turn /\ turn # 0 /\ view' \in {"ready", "working", "asking"}
         \/ UNCHANGED turn /\ prog \in Agents /\ view = "asking" /\ view' = "working"
         \/ turn' = 0 /\ view' = "ready"
    BY DEF AgentMoves, AgentBoots, AgentAsksTrust, TurnPauses, TurnGoesOn, TurnAsks, TurnEnds,
           HumanAnswers, AgentShows, Asking, Views
<1>3. PaneTypeOK'
    BY <1>1, <1>2 DEF PaneInv, PaneTypeOK
<1>4. Turns'
    BY <1>1, <1>2 DEF PaneInv, Turns
<1>5. TurnStep
    BY <1>1, <1>2 DEF PaneInv, PaneTypeOK, TurnStep
<1> QED BY <1>3, <1>4, <1>5 DEF PaneInv

LEMMA HumanPane ==
    ASSUME PaneInv, HumanMoves
    PROVE  PaneInv' /\ TurnStep
<1>1. CASE HumanTypes
  <2>1. box' \in Seq(Tokens)
    <3>1. "draft" \in Tokens
        BY DEF Tokens
    <3>2. box' = Append(box, "draft")
        BY <1>1 DEF HumanTypes
    <3> QED BY <3>1, <3>2 DEF PaneInv, PaneTypeOK
  <2>2. UNCHANGED <<prog, view, turn, turns, submitted>>
      BY <1>1 DEF HumanTypes
  <2>3. PaneTypeOK'
      BY <2>1, <2>2 DEF PaneInv, PaneTypeOK
  <2>4. Turns'
      BY <2>2 DEF PaneInv, Turns
  <2>5. TurnStep
      BY <2>2 DEF PaneInv, PaneTypeOK, TurnStep
  <2> QED BY <2>3, <2>4, <2>5 DEF PaneInv
<1>2. CASE HumanEnters
  <2>1. prog \in Agents /\ view \in {"ready", "working"} /\ Submits("human")
      BY <1>2 DEF HumanEnters, Asking, PaneInv, PaneTypeOK, Views
  <2> QED BY <2>1, SubmitsPane
<1>3. CASE HumanLeaves("shell") \/ HumanLeaves("nosession")
  <2>1. /\ prog' \in {"shell", "nosession"} /\ view' = "ready" /\ box' = <<>> /\ turn' = 0
        /\ UNCHANGED <<turns, submitted>>
      BY <1>3 DEF HumanLeaves
  <2>2. box' \in Seq(Tokens)
      BY <2>1
  <2>3. PaneTypeOK'
      BY <2>1, <2>2 DEF PaneInv, PaneTypeOK, Progs, Views
  <2>4. Turns'
      BY <2>1 DEF PaneInv, Turns, Agents
  <2>5. TurnStep
      BY <2>1 DEF PaneInv, PaneTypeOK, TurnStep
  <2> QED BY <2>3, <2>4, <2>5 DEF PaneInv
<1> QED BY <1>1, <1>2, <1>3 DEF HumanMoves

LEMMA PaneSteps ==
    ASSUME PaneInv, CmdTypeOK, DispatchNext
    PROVE  PaneInv' /\ TurnStep
<1>1. CASE \E d \in Commands : Looking(d)
  <2>1. PICK d \in Commands : Looking(d)
      BY <1>1
  <2>2. UNCHANGED <<prog, view, box, turn, turns, submitted>>
      BY <2>1, LookingMoves DEF Look, PaneInv, PaneTypeOK
  <2> QED BY <2>2, Same
<1>2. CASE \E d \in Commands : Moving(d)
  <2>1. UNCHANGED <<prog, view, box, turn, turns, submitted>>
      BY <1>2, MovingMoves DEF paneState, dispatchHistory
  <2> QED BY <2>1, Same
<1>3. CASE \E d \in Commands : Acting(d)
  <2>1. PICK d \in Commands : Acting(d)
      BY <1>3
  <2>2. PICK from \in Places, input \in Tokens \cup {"Enter"}, to \in Places :
               TypesAt(d, from, input, to) /\ At(d, {from}) /\ Acts(d, input, to)
      BY <2>1 DEF Acting
  <2>3. NoPane(d) \/ Acted(d, input)
      BY <2>2, ActMoves
  <2>4. CASE NoPane(d)
      BY <2>4, Same DEF NoPane, paneState
  <2>5. CASE Acted(d, input)
      BY <2>5, EnterPane, TypesPane DEF Acted
  <2> QED BY <2>3, <2>4, <2>5
<1>4. CASE \E d \in Commands : CreateSession(d)
  <2>1. /\ \/ prog = "nosession" /\ prog' = "shell"
           \/ UNCHANGED prog
        /\ UNCHANGED <<view, box, turn, turns, submitted>>
      BY <1>4 DEF CreateSession, dispatchHistory
  <2>2. PaneTypeOK'
      BY <2>1 DEF PaneInv, PaneTypeOK, Progs
  <2>3. Turns'
      BY <2>1 DEF PaneInv, Turns, Agents
  <2>4. TurnStep
      BY <2>1 DEF PaneInv, PaneTypeOK, TurnStep
  <2> QED BY <2>2, <2>3, <2>4 DEF PaneInv
<1>5. CASE LeaseMoves
  <2>1. UNCHANGED <<prog, view, box, turn, turns, submitted>>
      BY <1>5 DEF LeaseMoves, LeaseTaken, LeaseReleased, paneState, dispatchHistory
  <2> QED BY <2>1, Same
<1> QED BY <1>1, <1>2, <1>3, <1>4, <1>5, Steps, AgentPane, HumanPane

LEMMA CmdSteps ==
    ASSUME PaneInv, CmdTypeOK, DispatchNext
    PROVE  CmdTypeOK'
<1>1. prog \in Progs
    BY DEF PaneInv, PaneTypeOK
<1>2. CASE AgentMoves \/ HumanMoves \/ LeaseMoves
  <2>1. cmd' = cmd
      BY <1>2 DEF AgentMoves, AgentBoots, AgentAsksTrust, TurnPauses, TurnGoesOn, TurnAsks,
             TurnEnds, HumanAnswers, AgentShows, HumanMoves, HumanTypes, HumanEnters,
             HumanLeaves, HumanActs, LeaseMoves, LeaseTaken, LeaseReleased, OthersIdle
  <2> QED BY <2>1 DEF CmdTypeOK
<1> QED BY <1>1, <1>2, Steps, CmdTypes

(***************************************************************************)
(* Turns that are over.                                                    *)
(***************************************************************************)
\* The turn that was in progress when a command looked first is over.
Free(d) == firstTurn[d] = 0 \/ turn = 0 \/ turn # firstTurn[d]

\* Where a command may type /clear, /exit or Enter on what it finds: only once
\* that turn is over.  Before that it settles: a second look at an idle pane
\* tells a pause from an end.
NeedsFree == Places \ (Early \cup Queueing \cup {"settle", "done"})
FreeAt(d) ==
    /\ firstTurn[d] <= turns
    /\ cmd[d].at \in NeedsFree => Free(d)
    /\ cmd[d].at = "settle" => Free(d) \/ d \in glimpsed
FreeInv == firstTurn \in [Commands -> Nat] /\ \A d \in Commands : FreeAt(d)

LEMMA FreeStays ==
    ASSUME PaneInv, FreeInv, TurnStep, turns' \in Nat, NEW d \in Commands, Free(d),
           firstTurn'[d] = firstTurn[d]
    PROVE  Free(d)' 
<1>1. firstTurn[d] <= turns /\ firstTurn[d] \in Nat
    BY DEF FreeInv, FreeAt
<1>2. CASE firstTurn[d] = 0
    BY <1>2 DEF Free
<1>3. CASE turn' = 0
    BY <1>3 DEF Free
<1>4. CASE turn' > turns
  <2>1. turn' # firstTurn[d]
      BY <1>1, <1>4 DEF PaneInv, PaneTypeOK
  <2> QED BY <2>1 DEF Free
<1>5. CASE turn' = turn
    BY <1>5 DEF Free
<1> QED BY <1>2, <1>3, <1>4, <1>5 DEF TurnStep

\* A step that leaves a command alone.
LEMMA FreeOther ==
    ASSUME PaneInv, FreeInv, TurnStep, PaneInv', NEW d \in Commands,
           cmd'[d] = cmd[d], firstTurn'[d] = firstTurn[d],
           d \in glimpsed => d \in glimpsed' \/ turn' = 0
    PROVE  FreeAt(d)'
<1>1. turns' \in Nat /\ turns \in Nat /\ turns' >= turns
    BY DEF PaneInv, PaneTypeOK, TurnStep
<1>2. firstTurn[d] <= turns /\ firstTurn[d] \in Nat
    BY DEF FreeInv, FreeAt
<1>3. firstTurn'[d] <= turns'
    BY <1>1, <1>2
<1>4. Free(d) => Free(d)'
    BY <1>1, FreeStays
<1>5. cmd'[d].at \in NeedsFree => Free(d)'
    BY <1>4 DEF FreeInv, FreeAt
<1>6. cmd'[d].at = "settle" => Free(d)' \/ d \in glimpsed'
  <2>1. turn' = 0 => Free(d)'
      BY DEF Free
  <2> QED BY <1>4, <2>1 DEF FreeInv, FreeAt
<1> QED BY <1>3, <1>5, <1>6 DEF FreeAt

\* A step of a command that keeps the turn it looked at first.
LEMMA FreeOwn ==
    ASSUME PaneInv, FreeInv, TurnStep, PaneInv', NEW d \in Commands,
           firstTurn'[d] = firstTurn[d],
           \/ Free(d)
           \/ cmd'[d].at \in Early \cup Queueing \cup {"done"}
    PROVE  FreeAt(d)'
<1>1. turns' \in Nat /\ turns \in Nat /\ turns' >= turns
    BY DEF PaneInv, PaneTypeOK, TurnStep
<1>2. firstTurn[d] <= turns /\ firstTurn[d] \in Nat
    BY DEF FreeInv, FreeAt
<1>3. firstTurn'[d] <= turns'
    BY <1>1, <1>2
<1>4. Free(d) => Free(d)'
    BY <1>1, FreeStays
<1>5. cmd'[d].at \in Early \cup Queueing \cup {"done"} =>
        cmd'[d].at \notin NeedsFree /\ cmd'[d].at # "settle"
    BY DEF NeedsFree, Early, Queueing
<1> QED BY <1>3, <1>4, <1>5 DEF FreeAt

LEMMA FreeLooks ==
    ASSUME PaneInv, CmdTypeOK, FreeInv, TurnStep, PaneInv', NEW d \in Commands, Looking(d)
    PROVE  firstTurn' \in [Commands -> Nat] /\ FreeAt(d)'
<1>0. prog \in Progs /\ turn \in Nat /\ turns \in Nat /\ turn <= turns
    BY DEF PaneInv, PaneTypeOK, Turns
<1>1. /\ Look(d) /\ turn' = turn /\ turns' = turns
      /\ firstTurn' = firstTurn \/ firstTurn' = [firstTurn EXCEPT ![d] = turn]
    BY <1>0, LookingMoves DEF Look
<1>2. firstTurn' \in [Commands -> Nat]
    BY <1>0, <1>1 DEF FreeInv
<1>3. CASE FirstLook(d)
  <2>1. firstTurn'[d] = turn
      BY <1>3 DEF FirstLook, FreeInv
  <2>2. PICK c : Takes(d, c) /\
              \/ prog = "nosession" /\ c.at = "create"
              \/ TrustAsked(d) /\ c.at = "accept"
              \/ InputReady /\ c.at = "settle"
              \/ (PaneWorking \/ InputReady) /\ opt[d].queue /\ c.at = "qlook"
              \/ prog = "shell" /\ c.at = "launch"
              \/ Gone(c)
      BY <1>0, <1>3, FirstLookMoves
  <2>3. cmd'[d] = c
      BY <2>2, TakesFacts
  <2>4. c.at \in {"create", "accept", "launch"} => turn = 0
      BY <2>2 DEF Gone, TrustAsked, Asking, PaneInv, Turns, Agents
  <2>5. c.at = "settle" => turn = 0 \/ d \in glimpsed'
      BY <1>1, <2>2 DEF Gone, Look, Flickers
  <2>6. c.at \in {"create", "accept", "launch", "settle", "qlook", "done"}
      BY <2>2 DEF Gone
  <2>7. c.at \in NeedsFree => c.at \in {"create", "accept", "launch"}
      BY <2>6 DEF NeedsFree, Queueing
  <2> QED BY <1>0, <1>1, <1>2, <2>1, <2>3, <2>4, <2>5, <2>7 DEF FreeAt, Free
<1>4. CASE QueueLook(d) \/ ConfirmPasted(d) \/ ConfirmQueued(d)
  <2>1. firstTurn' = firstTurn
      BY <1>4 DEF QueueLook, ConfirmPasted, ConfirmQueued
  <2>2. \E c : Takes(d, c) /\ c.at \in Queueing \cup {"done"}
      BY <1>4, QueueLookMoves, ConfirmPastedMoves, ConfirmQueuedMoves DEF Gone, Queueing
  <2>3. cmd'[d].at \in Queueing \cup {"done"}
      BY <2>2, TakesFacts
  <2> QED BY <1>2, <2>1, <2>3, FreeOwn
<1>5. CASE Settle(d)
  <2>1. firstTurn' = firstTurn /\ cmd[d].at = "settle"
      BY <1>5 DEF Settle, At
  <2>2. Free(d) \/ d \in glimpsed
      BY <2>1 DEF FreeInv, FreeAt
  <2>3. PICK c : Takes(d, c) /\ (InputReady \/ Gone(c))
      BY <1>5, SettleMoves
  <2>4. cmd'[d] = c
      BY <2>3, TakesFacts
  <2>5. CASE InputReady
    <3>1. Free(d)
        BY <1>1, <2>2, <2>5 DEF Look, Flickers, Free
    <3> QED BY <1>2, <2>1, <3>1, FreeOwn
  <2>6. CASE Gone(c)
    <3>1. cmd'[d].at = "done"
        BY <2>4, <2>6 DEF Gone
    <3> QED BY <1>2, <2>1, <3>1, FreeOwn
  <2> QED BY <2>3, <2>5, <2>6
<1>6. CASE Relook(d) \/ WaitReady(d) \/ ConfirmPrompt(d) \/ ExitLook(d) \/ ExitInput(d)
           \/ ShellLook(d)
  <2>1. /\ firstTurn' = firstTurn
        /\ cmd[d].at \in {"relook", "ready", "confirm", "exitlook", "exitinput", "shell"}
      BY <1>6 DEF Relook, WaitReady, ConfirmPrompt, ExitLook, ExitInput, ShellLook, At
  <2>2. cmd[d].at \in NeedsFree
      BY <2>1 DEF NeedsFree, Places, Before, Typing, Early, Queueing
  <2>3. Free(d)
      BY <2>2 DEF FreeInv, FreeAt
  <2> QED BY <1>2, <2>1, <2>3, FreeOwn
<1> QED BY <1>3, <1>4, <1>5, <1>6 DEF Looking

LEMMA FreeActs ==
    ASSUME PaneInv, CmdTypeOK, FreeInv, TurnStep, PaneInv', NEW d \in Commands,
           Moving(d) \/ Acting(d) \/ CreateSession(d)
    PROVE  firstTurn' = firstTurn /\ FreeAt(d)'
<1>1. CASE Moving(d)
  <2>1. firstTurn' = firstTurn
      BY <1>1, MovingMoves DEF dispatchHistory
  <2>2. PICK c : Takes(d, c) /\
                \/ cmd[d].at \in {"probe", "probing"} /\ c.at \in {"probing", "look"}
                \/ cmd[d].at \in {"trusting", "launched"} /\ c.at = "ready"
                \/ Gone(c)
      BY <1>1, MovingMoves
  <2>3. cmd'[d] = c
      BY <2>2, TakesFacts
  <2>4. c.at \in Early \cup {"done"} \/ cmd[d].at \in {"trusting", "launched"}
      BY <2>2 DEF Gone, Early
  <2>5. cmd[d].at \in {"trusting", "launched"} => Free(d)
    <3>1. {"trusting", "launched"} \subseteq NeedsFree
        BY DEF NeedsFree, Places, Before, Early, Queueing
    <3> QED BY <3>1 DEF FreeInv, FreeAt
  <2> QED BY <2>1, <2>3, <2>4, <2>5, FreeOwn
<1>2. CASE Acting(d)
  <2>1. PICK from \in Places, input \in Tokens \cup {"Enter"}, to \in Places :
               TypesAt(d, from, input, to) /\ At(d, {from}) /\ Acts(d, input, to)
      BY <1>2 DEF Acting
  <2>2. PICK c : Takes(d, c) /\ (Gone(c) \/ c.at = to)
      BY <2>1, ActMoves
  <2>3. cmd'[d] = c /\ firstTurn' = firstTurn
      BY <2>1, <2>2, TakesFacts DEF Acts
  <2>4. CASE from \in {"qpaste", "qenter"}
    <3>1. to \in Queueing
        BY <2>1, <2>4 DEF TypesAt, ActsAt, Queueing
    <3> QED BY <2>2, <2>3, <3>1, FreeOwn DEF Gone
  <2>5. CASE from \notin {"qpaste", "qenter"}
    <3>1. from \in NeedsFree
        BY <2>1, <2>5 DEF TypesAt, ActsAt, NeedsFree, Early, Queueing
    <3>2. Free(d)
        BY <2>1, <3>1 DEF FreeInv, FreeAt, At
    <3> QED BY <2>3, <3>2, FreeOwn
  <2> QED BY <2>4, <2>5
<1>3. CASE CreateSession(d)
  <2>1. firstTurn' = firstTurn /\ cmd[d].at = "create"
      BY <1>3 DEF CreateSession, dispatchHistory, At
  <2>2. "create" \in NeedsFree
      BY DEF NeedsFree, Places, Before, Early, Queueing
  <2>3. Free(d)
      BY <2>1, <2>2 DEF FreeInv, FreeAt
  <2> QED BY <2>1, <2>3, FreeOwn
<1> QED BY <1>1, <1>2, <1>3

\* What a step does not do to the commands it is not of.
LEMMA Glimpses ==
    ASSUME NEW d \in Commands, PaneInv, CmdTypeOK,
           Looking(d) \/ Moving(d) \/ Acting(d) \/ CreateSession(d)
    PROVE  \A e \in Commands \ {d} : e \in glimpsed => e \in glimpsed'
<1>1. CASE Looking(d)
  <2>1. Look(d)
      BY <1>1, LookingMoves DEF PaneInv, PaneTypeOK
  <2> QED BY <2>1 DEF Look
<1>2. CASE Moving(d)
    BY <1>2, MovingMoves DEF paneState
<1>3. CASE Acting(d)
  <2>1. PICK from \in Places, input \in Tokens \cup {"Enter"}, to \in Places :
               TypesAt(d, from, input, to) /\ At(d, {from}) /\ Acts(d, input, to)
      BY <1>3 DEF Acting
  <2>2. UNCHANGED glimpsed
      BY <2>1 DEF Acts, paneState, Enter, Types
  <2> QED BY <2>2
<1>4. CASE CreateSession(d)
    BY <1>4 DEF CreateSession
<1> QED BY <1>1, <1>2, <1>3, <1>4

LEMMA FreeSteps ==
    ASSUME PaneInv, CmdTypeOK, FreeInv, DispatchNext
    PROVE  FreeInv'
<1>1. PaneInv' /\ TurnStep
    BY PaneSteps
<1>2. ASSUME NEW d \in Commands,
             Looking(d) \/ Moving(d) \/ Acting(d) \/ CreateSession(d)
      PROVE  FreeInv'
  <2>0. prog \in Progs
      BY DEF PaneInv, PaneTypeOK
  <2>1. firstTurn' \in [Commands -> Nat] /\ FreeAt(d)'
      BY <1>1, <1>2, FreeLooks, FreeActs DEF FreeInv
  <2>2. \A e \in Commands \ {d} : cmd'[e] = cmd[e]
      BY <1>2, <2>0, CmdTypes
  <2>3. \A e \in Commands \ {d} : firstTurn'[e] = firstTurn[e]
    <3>1. firstTurn' = firstTurn \/ firstTurn' = [firstTurn EXCEPT ![d] = turn]
        BY <1>1, <1>2, <2>0, LookingMoves, FreeActs
    <3> QED BY <3>1 DEF FreeInv
  <2>4. ASSUME NEW e \in Commands \ {d} PROVE FreeAt(e)'
      BY <1>1, <1>2, <2>2, <2>3, FreeOther, Glimpses
  <2> QED BY <2>1, <2>4 DEF FreeInv
<1>3. CASE AgentMoves \/ HumanMoves \/ LeaseMoves
  <2>1. cmd' = cmd /\ firstTurn' = firstTurn /\ (glimpsed' = glimpsed \/ turn' = 0)
      BY <1>3 DEF AgentMoves, AgentBoots, AgentAsksTrust, TurnPauses, TurnGoesOn, TurnAsks,
             TurnEnds, HumanAnswers, AgentShows, HumanMoves, HumanTypes, HumanEnters,
             HumanLeaves, HumanActs, LeaseMoves, LeaseTaken, LeaseReleased, OthersIdle,
             paneState, dispatchHistory
  <2>2. ASSUME NEW e \in Commands PROVE FreeAt(e)'
      BY <1>1, <2>1, FreeOther
  <2> QED BY <2>1, <2>2 DEF FreeInv
<1> QED BY <1>2, <1>3, Steps

(***************************************************************************)
(* A question seen ends the command: no look at one leads to a place where *)
(* it types.                                                               *)
(***************************************************************************)
SawInv == saw \in [Commands -> BOOLEAN] /\ \A d \in Commands : saw[d] => cmd[d].at = "done"

LEMMA QuestionEnds ==
    ASSUME PaneInv, CmdTypeOK, NEW d \in Commands, Looking(d), Asking, view = "asking"
    PROVE  cmd'[d].at = "done"
<1>1. prog \in Progs /\ prog \in Agents /\ ~InputReady /\ ~PaneWorking /\ ~TrustAsked(d)
      /\ prog \notin {"nosession", "shell"} /\ DraftSeen
    BY DEF PaneInv, PaneTypeOK, Asking, InputReady, PaneWorking, TrustAsked, Agents, DraftSeen
<1>2. \E c : Takes(d, c) /\ c.at = "done"
  <2>1. CASE FirstLook(d)
      BY <1>1, <2>1, FirstLookMoves DEF Gone
  <2>2. CASE Relook(d)
      BY <1>1, <2>2, RelookMoves DEF Gone
  <2>3. CASE Settle(d)
      BY <1>1, <2>3, SettleMoves DEF Gone
  <2>4. CASE WaitReady(d)
      BY <1>1, <2>4, WaitReadyMoves DEF Gone
  <2>5. CASE ConfirmPrompt(d)
    <3>1. Submitted(d)
        BY DEF Submitted
    <3> QED BY <3>1, <2>5, ConfirmMoves DEF Gone
  <2>6. CASE QueueLook(d)
      BY <1>1, <2>6, QueueLookMoves DEF Gone
  <2>7. CASE ConfirmPasted(d)
      BY <2>7, ConfirmPastedMoves DEF Gone
  <2>8. CASE ConfirmQueued(d)
      BY <2>8, ConfirmQueuedMoves DEF Gone
  <2>9. CASE ExitLook(d) \/ ExitInput(d) \/ ShellLook(d)
      BY <1>1, <2>9, ExitMoves DEF Gone
  <2> QED BY <2>1, <2>2, <2>3, <2>4, <2>5, <2>6, <2>7, <2>8, <2>9 DEF Looking
<1> QED BY <1>2, TakesFacts

LEMMA SawSteps ==
    ASSUME PaneInv, CmdTypeOK, SawInv, DispatchNext
    PROVE  SawInv'
<1>0. prog \in Progs
    BY DEF PaneInv, PaneTypeOK
<1>1. ASSUME NEW d \in Commands, Looking(d)
      PROVE  SawInv'
  <2>1. \A e \in Commands \ {d} : cmd'[e] = cmd[e]
      BY <1>0, <1>1, CmdTypes
  <2>2. saw' = [saw EXCEPT ![d] = Asking /\ view = "asking"]
      BY <1>0, <1>1, LookingMoves DEF Look
  <2>3. (Asking /\ view = "asking") \in BOOLEAN
      OBVIOUS
  <2>4. saw' \in [Commands -> BOOLEAN]
      BY <2>2, <2>3 DEF SawInv
  <2>5. saw'[d] => cmd'[d].at = "done"
    <3>1. saw'[d] => Asking /\ view = "asking"
        BY <2>2 DEF SawInv
    <3> QED BY <1>1, <3>1, QuestionEnds
  <2>6. \A e \in Commands \ {d} : saw'[e] = saw[e]
      BY <2>2 DEF SawInv
  <2> QED BY <2>1, <2>4, <2>5, <2>6 DEF SawInv
<1>2. ASSUME NEW d \in Commands, Moving(d) \/ Acting(d) \/ CreateSession(d)
      PROVE  SawInv'
  <2>1. \A e \in Commands \ {d} : cmd'[e] = cmd[e]
      BY <1>0, <1>2, CmdTypes
  <2>2. saw' = saw /\ cmd[d].at # "done"
    <3>1. CASE Moving(d)
        BY <3>1 DEF Moving, Probe, ProbeEnds, AcceptedTrust, WaitTimesOut, Launched, At,
               dispatchHistory
    <3>2. CASE Acting(d)
        BY <3>2 DEF Acting, TypesAt, ActsAt, Acts, At
    <3>3. CASE CreateSession(d)
        BY <3>3 DEF CreateSession, At, dispatchHistory
    <3> QED BY <1>2, <3>1, <3>2, <3>3
  <2> QED BY <2>1, <2>2 DEF SawInv
<1>3. CASE AgentMoves \/ HumanMoves \/ LeaseMoves
  <2>1. cmd' = cmd /\ saw' = saw
      BY <1>3 DEF AgentMoves, AgentBoots, AgentAsksTrust, TurnPauses, TurnGoesOn, TurnAsks,
             TurnEnds, HumanAnswers, AgentShows, HumanMoves, HumanTypes, HumanEnters,
             HumanLeaves, HumanActs, LeaseMoves, LeaseTaken, LeaseReleased, OthersIdle,
             dispatchHistory
  <2> QED BY <2>1 DEF SawInv
<1> QED BY <1>1, <1>2, <1>3, Steps

(***************************************************************************)
(* While nobody else types, the input line of a pane holds what a queued   *)
(* dispatch put there, so its Enter submits no /clear and no /exit.        *)
(***************************************************************************)
QueueBox(d) ==
    /\ cmd[d].at = "qpaste" => box = <<>>
    /\ cmd[d].at = "qpasted" => box = <<>> \/ box = <<d>>
    /\ cmd[d].at = "qenter" => box = <<d>>
    /\ cmd[d].at = "queued" => box = <<>> \/ box = <<d>>
QueueInv == disturbed \in [Commands -> BOOLEAN]
            /\ \A d \in Commands : ~disturbed[d] => QueueBox(d)

\* Whoever types disturbs every other command that has looked.
LEMMA Disturbs ==
    ASSUME disturbed \in [Commands -> BOOLEAN], NEW x, OthersDisturbed(x)
    PROVE  /\ disturbed' \in [Commands -> BOOLEAN]
           /\ \A e \in Commands : disturbed[e] => disturbed'[e]
           /\ \A e \in Commands : e # x /\ ~disturbed'[e] => cmd[e].at \in Early \cup {"done"}
<1> DEFINE now(e) == disturbed[e] \/ (e # x /\ ~At(e, {"probe", "probing", "look", "done"}))
<1>1. disturbed' = [e \in Commands |-> now(e)]
    BY DEF OthersDisturbed
<1>2. \A e \in Commands : now(e) \in BOOLEAN
    BY DEF At
<1>3. \A e \in Commands : disturbed'[e] = now(e)
    BY <1>1, Zenon
<1>4. disturbed' \in [Commands -> BOOLEAN]
  <2> HIDE DEF now
  <2> QED BY <1>1, <1>2
<1>5. \A e \in Commands : disturbed[e] => disturbed'[e]
    BY <1>3, Zenon
<1>6. \A e \in Commands : e # x /\ ~disturbed'[e] => cmd[e].at \in Early \cup {"done"}
  <2> SUFFICES ASSUME NEW e \in Commands, e # x, ~disturbed'[e]
               PROVE  cmd[e].at \in Early \cup {"done"}
      OBVIOUS
  <2>1. ~now(e)
      BY <1>3, Zenon
  <2>2. At(e, {"probe", "probing", "look", "done"})
      BY <2>1
  <2> QED BY <2>2 DEF At, Early
<1> QED BY <1>4, <1>5, <1>6

QueuePlaces == {"qpaste", "qpasted", "qenter", "queued"}

\* What a step does to a command it is not of.
LEMMA Alone ==
    ASSUME disturbed \in [Commands -> BOOLEAN], CmdTypeOK, PaneInv, DispatchNext
    PROVE  /\ disturbed' \in [Commands -> BOOLEAN]
           /\ \A e \in Commands : ~disturbed'[e] => ~disturbed[e]
           /\ \/ \E d \in Commands : Looking(d) \/ Moving(d) \/ CreateSession(d)
              \/ \E d \in Commands : Acting(d)
              \/ AgentMoves \/ LeaseMoves
              \/ HumanMoves /\ \A e \in Commands : ~disturbed'[e] => cmd[e].at \in Early \cup {"done"}
<1>0. "human" \notin Commands
    BY DispatchAssumption
<1>1. CASE \E d \in Commands : Looking(d) \/ Moving(d) \/ CreateSession(d)
  <2>1. disturbed' = disturbed
      BY <1>1, LookingMoves, MovingMoves DEF Look, CreateSession, dispatchHistory, PaneInv, PaneTypeOK
  <2> QED BY <1>1, <2>1
<1>2. CASE \E d \in Commands : Acting(d)
  <2>1. PICK d \in Commands : Acting(d)
      BY <1>2
  <2>2. disturbed' = disturbed \/ OthersDisturbed(d)
      BY <2>1 DEF Acting, Acts
  <2> QED BY <1>2, <2>2, Disturbs
<1>3. CASE AgentMoves \/ LeaseMoves
  <2>1. disturbed' = disturbed
      BY <1>3 DEF AgentMoves, AgentBoots, AgentAsksTrust, TurnPauses, TurnGoesOn, TurnAsks,
             TurnEnds, HumanAnswers, AgentShows, LeaseMoves, LeaseTaken, LeaseReleased,
             dispatchHistory
  <2> QED BY <1>3, <2>1
<1>4. CASE HumanMoves
  <2>1. OthersDisturbed("human")
      BY <1>4 DEF HumanMoves, HumanTypes, HumanEnters, HumanLeaves
  <2> QED BY <1>0, <1>4, <2>1, Disturbs
<1> QED BY <1>1, <1>2, <1>3, <1>4, Steps

LEMMA QueueLooks ==
    ASSUME PaneInv, CmdTypeOK, NEW d \in Commands, QueueBox(d), Looking(d)
    PROVE  QueueBox(d)'
<1>0. prog \in Progs /\ box' = box
    BY LookingMoves DEF PaneInv, PaneTypeOK, Look
<1>1. CASE QueueLook(d)
  <2>1. PICK c : Takes(d, c) /\ ((~DraftSeen /\ c.at = "qpaste") \/ Gone(c))
      BY <1>1, QueueLookMoves
  <2>2. cmd'[d] = c
      BY <2>1, TakesFacts
  <2> QED BY <1>0, <2>1, <2>2 DEF QueueBox, DraftSeen, Draft, Gone
<1>2. CASE ConfirmPasted(d)
  <2>1. PICK c : Takes(d, c) /\ \/ Draft /\ c.at = "qenter"
                                \/ ~Draft /\ c.at = "qpaste"
                                \/ Gone(c)
      BY <1>2, ConfirmPastedMoves
  <2>2. cmd'[d] = c /\ cmd[d].at = "qpasted"
      BY <1>2, <2>1, TakesFacts DEF ConfirmPasted, At
  <2> QED BY <1>0, <2>1, <2>2 DEF QueueBox, Draft, Gone
<1>3. CASE ConfirmQueued(d)
  <2>1. PICK c : Takes(d, c) /\ ((Draft /\ c.at = "qenter") \/ c.at = "done")
      BY <1>3, ConfirmQueuedMoves DEF Gone
  <2>2. cmd'[d] = c /\ cmd[d].at = "queued"
      BY <1>3, <2>1, TakesFacts DEF ConfirmQueued, At
  <2> QED BY <1>0, <2>1, <2>2 DEF QueueBox, Draft
<1>4. ASSUME NEW c, Takes(d, c), c.at \notin QueuePlaces
      PROVE  QueueBox(d)'
  <2>1. cmd'[d] = c
      BY <1>4, TakesFacts
  <2> QED BY <1>4, <2>1 DEF QueueBox, QueuePlaces
<1>5. CASE FirstLook(d)
    BY <1>0, <1>4, <1>5, FirstLookMoves DEF Gone, QueuePlaces
<1>6. CASE Relook(d)
    BY <1>4, <1>6, RelookMoves DEF Gone, QueuePlaces
<1>7. CASE Settle(d)
    BY <1>4, <1>7, SettleMoves DEF Gone, QueuePlaces
<1>8. CASE WaitReady(d)
  <2>1. cmd[d].at = "ready"
      BY <1>8 DEF WaitReady, At
  <2> QED BY <1>4, <1>8, <2>1, WaitReadyMoves DEF Gone, QueuePlaces
<1>9. CASE ConfirmPrompt(d)
    BY <1>4, <1>9, ConfirmMoves DEF Gone, QueuePlaces
<1>10. CASE ExitLook(d) \/ ExitInput(d) \/ ShellLook(d)
    BY <1>4, <1>10, ExitMoves DEF Gone, QueuePlaces
<1> QED BY <1>1, <1>2, <1>3, <1>5, <1>6, <1>7, <1>8, <1>9, <1>10 DEF Looking

LEMMA QueueActs ==
    ASSUME PaneInv, CmdTypeOK, NEW d \in Commands, QueueBox(d), Acting(d)
    PROVE  QueueBox(d)'
<1>1. PICK from \in Places, input \in Tokens \cup {"Enter"}, to \in Places :
             TypesAt(d, from, input, to) /\ At(d, {from}) /\ Acts(d, input, to)
    BY DEF Acting
<1>2. PICK c : Takes(d, c) /\ ((NoPane(d) /\ Gone(c)) \/ (Acted(d, input) /\ c.at = to))
    BY <1>1, ActMoves
<1>3. cmd'[d] = c
    BY <1>2, TakesFacts
<1>4. CASE Gone(c)
    BY <1>3, <1>4 DEF Gone, QueueBox
<1>5. CASE Acted(d, input) /\ c.at = to /\ from = "qpaste"
  <2>1. input = d /\ to = "qpasted" /\ box = <<>>
      BY <1>1, <1>5 DEF TypesAt, ActsAt, At, QueueBox
  <2>2. d # "Enter"
      BY DispatchAssumption
  <2>3. Types(d)
      BY <1>5, <2>1, <2>2 DEF Acted
  <2>4. box' = Append(box, d) \/ box' = box
      BY <2>3 DEF Types
  <2>5. Append(<<>>, d) = <<d>>
      OBVIOUS
  <2> QED BY <1>3, <1>5, <2>1, <2>4, <2>5 DEF QueueBox
<1>6. CASE Acted(d, input) /\ c.at = to /\ from = "qenter"
  <2>1. input = "Enter" /\ to = "queued" /\ box = <<d>>
      BY <1>1, <1>6 DEF TypesAt, ActsAt, At, QueueBox
  <2>2. Enter(d)
      BY <1>6, <2>1 DEF Acted
  <2>3. box' = <<>> \/ box' = box
      BY <2>2 DEF Enter, Submits, ShellRuns
  <2> QED BY <1>3, <1>6, <2>1, <2>3 DEF QueueBox
<1>7. CASE c.at = to /\ from \notin {"qpaste", "qenter"}
  <2>1. to \notin QueuePlaces
      BY <1>1, <1>7 DEF TypesAt, ActsAt, QueuePlaces
  <2> QED BY <1>3, <1>7, <2>1 DEF QueueBox, QueuePlaces
<1> QED BY <1>2, <1>4, <1>5, <1>6, <1>7

LEMMA QueueSteps ==
    ASSUME PaneInv, CmdTypeOK, QueueInv, DispatchNext
    PROVE  QueueInv'
<1>0. prog \in Progs
    BY DEF PaneInv, PaneTypeOK
<1>1. /\ disturbed' \in [Commands -> BOOLEAN]
      /\ \A e \in Commands : ~disturbed'[e] => ~disturbed[e]
    BY Alone DEF QueueInv
<1>2. ASSUME NEW e \in Commands, ~disturbed'[e], QueueBox(e)
      PROVE  QueueBox(e)'
  <2>1. ASSUME cmd'[e] = cmd[e], box' = box
        PROVE  QueueBox(e)'
      BY <1>2, <2>1 DEF QueueBox
  <2>2. ASSUME NEW d \in Commands, Looking(d)
        PROVE  QueueBox(e)'
    <3>1. CASE d = e
        BY <1>2, <2>2, <3>1, QueueLooks
    <3>2. CASE d # e
        BY <1>0, <2>1, <2>2, <3>2, CmdTypes, LookingMoves DEF Look
    <3> QED BY <3>1, <3>2
  <2>3. ASSUME NEW d \in Commands, Moving(d)
        PROVE  QueueBox(e)'
    <3>1. box' = box
        BY <2>3, MovingMoves DEF paneState
    <3>2. CASE d = e
      <4>1. \E c : Takes(d, c) /\ c.at \in {"probing", "look", "ready", "done"}
          BY <2>3, MovingMoves DEF Gone
      <4>2. cmd'[e].at \in {"probing", "look", "ready", "done"}
          BY <3>2, <4>1, TakesFacts
      <4> QED BY <4>2 DEF QueueBox
    <3>3. CASE d # e
        BY <1>0, <2>1, <2>3, <3>1, <3>3, CmdTypes
    <3> QED BY <3>2, <3>3
  <2>4. ASSUME NEW d \in Commands, CreateSession(d)
        PROVE  QueueBox(e)'
    <3>1. box' = box
        BY <2>4 DEF CreateSession
    <3>2. CASE d = e
      <4>1. \E c : Takes(d, c) /\ c.at \in {"launch", "done"}
          BY <2>4, CreateMoves DEF Gone
      <4>2. cmd'[e].at \in {"launch", "done"}
          BY <3>2, <4>1, TakesFacts
      <4> QED BY <4>2 DEF QueueBox
    <3>3. CASE d # e
        BY <1>0, <2>1, <2>4, <3>1, <3>3, CmdTypes
    <3> QED BY <3>2, <3>3
  <2>5. ASSUME NEW d \in Commands, Acting(d)
        PROVE  QueueBox(e)'
    <3>1. CASE d = e
        BY <1>2, <2>5, <3>1, QueueActs
    <3>2. CASE d # e
      <4>0. cmd'[e] = cmd[e]
          BY <1>0, <2>5, <3>2, CmdTypes
      <4>1. OthersDisturbed(d) \/ box' = box
          BY <2>5 DEF Acting, Acts, paneState
      <4>2. CASE OthersDisturbed(d)
        <5>1. cmd[e].at \in Early \cup {"done"}
            BY <1>2, <3>2, <4>2, Disturbs DEF QueueInv
        <5> QED BY <4>0, <5>1 DEF QueueBox, Early
      <4> QED BY <2>1, <4>0, <4>1, <4>2
    <3> QED BY <3>1, <3>2
  <2>6. CASE AgentMoves \/ LeaseMoves
    <3>1. cmd' = cmd /\ box' = box
        BY <2>6 DEF AgentMoves, AgentBoots, AgentAsksTrust, TurnPauses, TurnGoesOn, TurnAsks,
               TurnEnds, HumanAnswers, AgentShows, LeaseMoves, LeaseTaken, LeaseReleased,
               OthersIdle, paneState
    <3> QED BY <2>1, <3>1
  <2>7. CASE HumanMoves /\ cmd[e].at \in Early \cup {"done"}
    <3>1. cmd' = cmd
        BY <2>7 DEF HumanMoves, HumanTypes, HumanEnters, HumanLeaves, HumanActs, OthersIdle
    <3> QED BY <2>7, <3>1 DEF QueueBox, Early
  <2> QED BY <1>2, <2>2, <2>3, <2>4, <2>5, <2>6, <2>7, Alone DEF QueueInv
<1> QED BY <1>1, <1>2 DEF QueueInv

(***************************************************************************)
(* The keys.                                                               *)
(***************************************************************************)
HazardInv == PaneInv /\ CmdTypeOK /\ FreeInv /\ SawInv /\ QueueInv

LEMMA SubmitsKeys ==
    ASSUME NEW d, Submits(d), badKeys' # badKeys
    PROVE  box \in {<<"clear">>, <<"exit">>} /\ Destroys(d) /\ badKeys' = badKeys \cup {"turn"}
BY DEF Submits

LEMMA EnterKeys ==
    ASSUME NEW d, Enter(d), badKeys' # badKeys
    PROVE  \/ saw[d] /\ badKeys' = badKeys \cup {"question"}
           \/ box \in {<<"clear">>, <<"exit">>} /\ Destroys(d)
<1>1. CASE /\ Asking
           /\ badKeys' = IF view = "asking" /\ saw[d]
                         THEN badKeys \cup {"question"} ELSE badKeys
    BY <1>1
<1>2. CASE Submits(d)
    BY <1>2, SubmitsKeys
<1>3. CASE badKeys' = badKeys
    BY <1>3
<1> QED BY <1>1, <1>2, <1>3 DEF Enter, ShellRuns

LEMMA KeysKept ==
    ASSUME HazardInv, DispatchNext
    PROVE  badKeys' = badKeys
<1>1. PaneInv /\ CmdTypeOK /\ FreeInv /\ SawInv /\ QueueInv /\ prog \in Progs
    BY DEF HazardInv, PaneInv, PaneTypeOK
<1>2. CASE \E d \in Commands : Looking(d)
    BY <1>1, <1>2, LookingMoves DEF Look
<1>3. CASE \E d \in Commands : Moving(d)
    BY <1>1, <1>3, MovingMoves DEF dispatchHistory
<1>4. CASE \E d \in Commands : CreateSession(d)
    BY <1>4 DEF CreateSession, dispatchHistory
<1>5. CASE \E d \in Commands : Acting(d)
  <2>1. PICK d \in Commands : Acting(d)
      BY <1>5
  <2>2. PICK from \in Places, input \in Tokens \cup {"Enter"}, to \in Places :
               TypesAt(d, from, input, to) /\ At(d, {from}) /\ Acts(d, input, to)
      BY <2>1 DEF Acting
  <2>3. cmd[d].at = from /\ from # "done"
      BY <2>2 DEF At, TypesAt, ActsAt
  <2>4. CASE badKeys' # badKeys
    <3>1. input = "Enter" /\ Enter(d)
        BY <2>2, <2>4 DEF Acts, Types
    <3>2. ~saw[d]
        BY <1>1, <2>3 DEF SawInv
    <3>3. box \in {<<"clear">>, <<"exit">>} /\ Destroys(d)
        BY <2>4, <3>1, <3>2, EnterKeys
    <3>4. ~Free(d) /\ ~disturbed[d]
      <4>1. turn # 0 /\ turn = firstTurn[d] /\ ~disturbed[d]
          BY <3>3 DEF Destroys
      <4> QED BY <4>1 DEF Free
    <3>5. from \notin NeedsFree
        BY <1>1, <2>3, <3>4 DEF FreeInv, FreeAt
    <3>6. from = "qenter"
        BY <2>2, <3>1, <3>5, DispatchAssumption DEF TypesAt, ActsAt, NeedsFree, Early, Queueing
    <3>7. box = <<d>>
        BY <1>1, <2>3, <3>4, <3>6 DEF QueueInv, QueueBox
    <3>8. d # "clear" /\ d # "exit"
        BY DispatchAssumption
    <3>9. <<d>>[1] = d /\ <<"clear">>[1] = "clear" /\ <<"exit">>[1] = "exit"
        OBVIOUS
    <3> QED BY <3>3, <3>7, <3>8, <3>9
  <2> QED BY <2>4
<1>6. CASE AgentMoves \/ LeaseMoves
    BY <1>6 DEF AgentMoves, AgentBoots, AgentAsksTrust, TurnPauses, TurnGoesOn, TurnAsks,
           TurnEnds, HumanAnswers, AgentShows, LeaseMoves, LeaseTaken, LeaseReleased,
           dispatchHistory
<1>7. CASE HumanMoves
  <2>1. ~Destroys("human")
      BY DispatchAssumption DEF Destroys
  <2>2. CASE HumanEnters
    <3>1. Submits("human")
        BY <2>2 DEF HumanEnters
    <3> QED BY <2>1, <3>1, SubmitsKeys
  <2>3. CASE HumanTypes \/ HumanLeaves("shell") \/ HumanLeaves("nosession")
      BY <2>3 DEF HumanTypes, HumanLeaves
  <2> QED BY <1>7, <2>2, <2>3 DEF HumanMoves
<1> QED BY <1>2, <1>3, <1>4, <1>5, <1>6, <1>7, Steps

LEMMA HazardInit == DispatchInit => HazardInv /\ badKeys = {}
<1> SUFFICES ASSUME DispatchInit PROVE HazardInv /\ badKeys = {}
    OBVIOUS
<1>1. PaneInv
  <2>0. /\ prog \in {"nosession", "shell", "agent", "other"}
        /\ turn \in (IF prog \in Agents THEN {0, 1} ELSE {0}) /\ turns = turn
        /\ box = <<>> /\ submitted = [d \in Commands |-> 0]
      BY DEF DispatchInit
  <2>1. view \in (CASE turn = 1 -> {"working", "asking"}
                    [] turn = 0 -> IF prog \in Agents THEN {"ready", "trust"} ELSE {"ready"})
      BY DEF DispatchInit
  <2>2. turn = 1 => view \in {"working", "asking"}
    <3>1. turn = 1 => turn # 0
        OBVIOUS
    <3> QED BY <2>1, <3>1, Zenon
  <2>3. turn = 0 => view \in (IF prog \in Agents THEN {"ready", "trust"} ELSE {"ready"})
    <3>1. turn = 0 => turn # 1
        OBVIOUS
    <3> QED BY <2>1, <3>1, Zenon
  <2>4. PaneTypeOK
      BY <2>0, <2>2, <2>3 DEF PaneTypeOK, Progs, Views
  <2>5. Turns
      BY <2>0, <2>2, <2>3 DEF Turns
  <2> QED BY <2>4, <2>5 DEF PaneInv
<1>2. CmdTypeOK
  <2>1. cmd = [d \in Commands |-> NewCommand]
      BY DEF DispatchInit
  <2>2. NewCommand \in Progress
    <3>1. "probe" \in Places /\ "none" \in Nexts
        BY DEF Places, Early, Nexts
    <3> QED BY <3>1 DEF NewCommand, Progress
  <2>3. NewCommand.at = "probe" /\ NewCommand.result = "none"
      BY DEF NewCommand
  <2>4. GoodProgress(NewCommand)
      BY <2>2, <2>3 DEF GoodProgress
  <2>5. cmd \in [Commands -> Progress]
      BY <2>1, <2>2
  <2>6. \A d \in Commands : GoodProgress(cmd[d])
      BY <2>1, <2>4, Zenon
  <2> QED BY <2>5, <2>6 DEF CmdTypeOK
<1>3. \A d \in Commands : cmd[d].at = "probe"
    BY DEF DispatchInit, NewCommand
<1>4. FreeInv
  <2>1. firstTurn = [d \in Commands |-> 0] /\ turns \in Nat
      BY <1>1 DEF DispatchInit, PaneInv, PaneTypeOK
  <2>2. "probe" \notin NeedsFree /\ "probe" # "settle"
      BY DEF NeedsFree, Early
  <2> QED BY <1>3, <2>1, <2>2 DEF FreeInv, FreeAt
<1>5. SawInv
  <2>1. saw = [d \in Commands |-> FALSE]
      BY DEF DispatchInit
  <2> QED BY <2>1 DEF SawInv
<1>6. QueueInv
  <2>1. disturbed = [d \in Commands |-> FALSE] /\ box = <<>>
      BY DEF DispatchInit
  <2>2. disturbed \in [Commands -> BOOLEAN]
      BY <2>1
  <2> QED BY <1>3, <2>2 DEF QueueInv, QueueBox
<1>7. badKeys = {}
    BY DEF DispatchInit
<1> QED BY <1>1, <1>2, <1>4, <1>5, <1>6, <1>7 DEF HazardInv

LEMMA HazardStep ==
    ASSUME HazardInv, [DispatchNext]_dispatchVars
    PROVE  HazardInv' /\ badKeys' = badKeys
<1>1. CASE DispatchNext
  <2>1. PaneInv /\ CmdTypeOK /\ FreeInv /\ SawInv /\ QueueInv
      BY DEF HazardInv
  <2>2. PaneInv'
      BY <1>1, <2>1, PaneSteps
  <2>3. CmdTypeOK' /\ FreeInv'
      BY <1>1, <2>1, CmdSteps, FreeSteps
  <2>4. SawInv' /\ QueueInv'
      BY <1>1, <2>1, SawSteps, QueueSteps
  <2>5. badKeys' = badKeys
      BY <1>1, KeysKept
  <2> QED BY <2>2, <2>3, <2>4, <2>5 DEF HazardInv
<1>2. CASE UNCHANGED dispatchVars
  <2>1. /\ UNCHANGED <<prog, view, box, turn, turns, glimpsed, submitted>>
        /\ UNCHANGED <<cmd, firstTurn, saw, disturbed, badKeys>>
      BY <1>2 DEF dispatchVars, paneState, dispatchHistory
  <2>2. PaneInv'
      BY <2>1 DEF HazardInv, PaneInv, PaneTypeOK, Turns
  <2>3. CmdTypeOK'
      BY <2>1 DEF HazardInv, CmdTypeOK
  <2>4. FreeInv'
      BY <2>1 DEF HazardInv, FreeInv, FreeAt, Free
  <2>5. SawInv'
      BY <2>1 DEF HazardInv, SawInv
  <2>6. QueueInv'
      BY <2>1 DEF HazardInv, QueueInv, QueueBox
  <2> QED BY <2>1, <2>2, <2>3, <2>4, <2>5, <2>6 DEF HazardInv
<1> QED BY <1>1, <1>2

\* No dispatch answers a question it saw, and none ends by /clear or /exit the
\* turn that was in progress when it looked first (settleExistingAgent,
\* submitPrompt, submitQueued).
THEOREM Uninterrupted == DispatchSpec => []NothingInterrupted
<1> DEFINE Inv == HazardInv /\ badKeys = {}
<1>1. DispatchInit => Inv
    BY HazardInit
<1>2. Inv /\ [DispatchNext]_dispatchVars => Inv'
    BY HazardStep
<1>3. Inv => NothingInterrupted
    BY DEF NothingInterrupted, NoQuestionAnswered, NoTurnDestroyed
<1> HIDE DEF Inv
<1> QED BY <1>1, <1>2, <1>3, PTL DEF DispatchSpec

(***************************************************************************)
(* What has become of the prompt of a command that nobody disturbs.        *)
(***************************************************************************)
Unsent(d) == submitted[d] = 0 /\ d \notin shown /\ \A i \in DOMAIN box : box[i] # d
Once(d) == submitted[d] + Times(d) <= 1

\* An agent that waits for input, and is not in a turn.
Idle == prog = "agent" /\ view = "ready" /\ turn = 0
\* The prompt was typed, or lost, behind what is left of a /clear ...
Typed(d) ==
    /\ submitted[d] = 0 /\ d \notin shown
    /\ \/ box = <<>> \/ box = <<"clear">> \/ box = <<d>> \/ box = <<"clear", d>>
\* ... and it was submitted.
Sent(d) == submitted[d] = 1 /\ d \in shown /\ box = <<>> /\ prog = "agent"

UnsentPlaces == Early \cup (Before \ {"qpaste"})
PromptAt(d) ==
    /\ cmd[d].at \in UnsentPlaces => Unsent(d)
    /\ cmd[d].at = "settle" => box = <<>> /\ (turn = 0 \/ d \in glimpsed)
    /\ cmd[d].at = "ready" /\ cmd[d].looks > 0 => turn = 0 \/ d \in glimpsed
    /\ cmd[d].at \in {"clear", "clearenter", "paste", "enter"} => Idle
    /\ cmd[d].at = "clear" => box = <<>>
    /\ cmd[d].at \in {"clearenter", "paste"} => box = <<>> \/ box = <<"clear">>
    /\ cmd[d].at = "enter" => Typed(d)
    /\ cmd[d].at = "confirm" => (Idle /\ Typed(d)) \/ Sent(d)
    /\ cmd[d].at \in Queueing => prog \in Agents
    /\ cmd[d].at \in {"qpaste", "qpasted", "qenter"} => submitted[d] = 0
    /\ cmd[d].at = "queued" => \/ box = <<d>> /\ submitted[d] = 0
                               \/ box = <<>> /\ submitted[d] = 1
    /\ cmd[d].at = "done" => Once(d) /\ (cmd[d].result = "ok" => submitted[d] = 1)
PromptInv == \A d \in Commands : ~disturbed[d] => PromptAt(d)

(***************************************************************************)
(* How often the input line holds a prompt.                                *)
(***************************************************************************)
LEMMA NoTimes ==
    ASSUME NEW d, \A i \in DOMAIN box : box[i] # d
    PROVE  Times(d) = 0
<1>1. {i \in DOMAIN box : box[i] = d} = {}
    OBVIOUS
<1> QED BY <1>1, FS_EmptySet DEF Times

LEMMA OneTime ==
    ASSUME NEW d, NEW k \in DOMAIN box, \A i \in DOMAIN box : box[i] = d <=> i = k
    PROVE  Times(d) = 1
<1>1. {i \in DOMAIN box : box[i] = d} = {k}
    OBVIOUS
<1> QED BY <1>1, FS_Singleton DEF Times

LEMMA TimesOf ==
    ASSUME NEW d \in Commands
    PROVE  /\ box = <<>> => Times(d) = 0
           /\ box = <<"clear">> => Times(d) = 0
           /\ box = <<d>> => Times(d) = 1
           /\ box = <<"clear", d>> => Times(d) = 1
<1>0. d # "clear"
    BY DispatchAssumption
<1>1. box = <<>> => Times(d) = 0
    BY NoTimes
<1>2. box = <<"clear">> => Times(d) = 0
    BY <1>0, NoTimes
<1>3. ASSUME box = <<d>> PROVE Times(d) = 1
  <2>1. 1 \in DOMAIN box /\ \A i \in DOMAIN box : box[i] = d <=> i = 1
      BY <1>3
  <2> QED BY <2>1, OneTime
<1>4. ASSUME box = <<"clear", d>> PROVE Times(d) = 1
  <2>1. 2 \in DOMAIN box /\ \A i \in DOMAIN box : box[i] = d <=> i = 2
      BY <1>0, <1>4
  <2> QED BY <2>1, OneTime
<1> QED BY <1>1, <1>2, <1>3, <1>4

\* Whatever has happened to the prompt, it is on its way once at most.
LEMMA PromptOnce ==
    ASSUME NEW d \in Commands, PaneInv, CmdTypeOK, QueueBox(d), PromptAt(d)
    PROVE  Once(d)
<1>0. cmd[d].at \in Places
    BY DEF CmdTypeOK, Progress
<1>1. CASE cmd[d].at \in UnsentPlaces
  <2>1. submitted[d] = 0 /\ Times(d) = 0
      BY <1>1, NoTimes DEF PromptAt, Unsent
  <2> QED BY <2>1 DEF Once
<1>2. CASE cmd[d].at \in {"enter", "confirm"}
  <2>1. Typed(d) \/ Sent(d)
      BY <1>2 DEF PromptAt
  <2>2. submitted[d] \in {0, 1} /\ Times(d) \in {0, 1} /\ (submitted[d] = 1 => Times(d) = 0)
      BY <2>1, TimesOf DEF Typed, Sent
  <2> QED BY <2>2 DEF Once
<1>3. CASE cmd[d].at \in {"qpaste", "qpasted", "qenter"}
  <2>1. submitted[d] = 0 /\ (box = <<>> \/ box = <<d>>)
      BY <1>3 DEF PromptAt, QueueBox
  <2>2. Times(d) \in {0, 1}
      BY <2>1, TimesOf
  <2> QED BY <2>1, <2>2 DEF Once
<1>4. CASE cmd[d].at = "queued"
  <2>1. \/ box = <<d>> /\ submitted[d] = 0
        \/ box = <<>> /\ submitted[d] = 1
      BY <1>4 DEF PromptAt
  <2>2. (box = <<>> => Times(d) = 0) /\ (box = <<d>> => Times(d) = 1)
      BY TimesOf
  <2> QED BY <2>1, <2>2 DEF Once
<1>5. CASE cmd[d].at = "done"
    BY <1>5 DEF PromptAt
<1> QED BY <1>0, <1>1, <1>2, <1>3, <1>4, <1>5 DEF Places, UnsentPlaces, Typing

\* What is typed is appended, or lost.
Appends(token) ==
    /\ box' = box \/ box' = Append(box, token)
    /\ UNCHANGED <<shown, submitted>>

\* Nobody but a command types its prompt.
LEMMA UnsentStays ==
    ASSUME NEW d \in Commands, PaneInv, Unsent(d), NEW x,
           \/ \E t \in Tokens \ {d} : Appends(t)
           \/ Enter(x) \/ Submits(x)
           \/ HumanLeaves("shell") \/ HumanLeaves("nosession")
    PROVE  Unsent(d)'
<1>1. submitted[d] = 0 /\ d \notin shown /\ (\A i \in DOMAIN box : box[i] # d)
      /\ submitted \in [Commands -> Nat] /\ box \in Seq(Tokens)
    BY DEF Unsent, PaneInv, PaneTypeOK
<1>2. ASSUME submitted' = submitted, shown' \subseteq shown, box' = box \/ box' = <<>>
      PROVE  Unsent(d)'
    BY <1>1, <1>2 DEF Unsent
<1>3. ASSUME NEW t \in Tokens \ {d}, Appends(t)
      PROVE  Unsent(d)'
  <2>1. submitted' = submitted /\ shown' = shown
      BY <1>3 DEF Appends
  <2>2. \A i \in DOMAIN box' : box'[i] # d
    <3>1. box' = box \/ box' = Append(box, t)
        BY <1>3 DEF Appends
    <3> QED BY <1>1, <1>3, <3>1
  <2> QED BY <1>1, <2>1, <2>2 DEF Unsent
<1>4. d \notin Prompts
    BY <1>1 DEF Prompts
<1>5. ASSUME NEW y, Submits(y)
      PROVE  Unsent(d)'
  <2>1. Times(d) = 0
      BY <1>1, NoTimes
  <2>2. submitted'[d] = submitted[d] + Times(d)
      BY <1>5 DEF Submits, Times
  <2>3. box' = <<>> /\ d \notin shown'
      BY <1>1, <1>4, <1>5 DEF Submits
  <2> QED BY <1>1, <2>1, <2>2, <2>3 DEF Unsent
<1>6. CASE Enter(x)
  <2>1. CASE ShellRuns
    <3>1. submitted' = submitted /\ box' = <<>> /\ d \notin shown'
        BY <1>1, <1>4, <2>1 DEF ShellRuns
    <3> QED BY <1>1, <3>1 DEF Unsent
  <2> QED BY <1>2, <1>5, <1>6, <2>1 DEF Enter
<1>7. CASE HumanLeaves("shell") \/ HumanLeaves("nosession")
    BY <1>2, <1>7 DEF HumanLeaves
<1> QED BY <1>3, <1>5, <1>6, <1>7

\* A prompt left behind is submitted by somebody once at most.
LEMMA OnceStays ==
    ASSUME NEW d \in Commands, PaneInv, Once(d), NEW x,
           \/ \E t \in Tokens \ {d} : Appends(t)
           \/ Enter(x) \/ Submits(x)
           \/ HumanLeaves("shell") \/ HumanLeaves("nosession")
    PROVE  Once(d)' /\ (submitted[d] = 1 => submitted'[d] = 1)
<1>1. submitted \in [Commands -> Nat] /\ box \in Seq(Tokens)
    BY DEF PaneInv, PaneTypeOK
<1>2. Times(d) \in Nat /\ submitted[d] \in Nat /\ submitted[d] + Times(d) <= 1
    BY <1>1, TimesNat DEF Once
<1>3. ASSUME box' = <<>> PROVE Times(d)' = 0
  <2>1. {i \in DOMAIN box' : box'[i] = d} = {}
      BY <1>3
  <2> QED BY <2>1, FS_EmptySet DEF Times
<1>4. ASSUME submitted' = submitted, Times(d)' = Times(d) \/ box' = <<>>
      PROVE  Once(d)' /\ (submitted[d] = 1 => submitted'[d] = 1)
    BY <1>2, <1>3, <1>4 DEF Once
<1>5. ASSUME NEW y, Submits(y)
      PROVE  Once(d)' /\ (submitted[d] = 1 => submitted'[d] = 1)
  <2>1. submitted'[d] = submitted[d] + Times(d) /\ box' = <<>>
      BY <1>5 DEF Submits, Times
  <2>2. Times(d)' = 0
      BY <1>3, <2>1
  <2> QED BY <1>2, <2>1, <2>2 DEF Once
<1>6. ASSUME NEW t \in Tokens \ {d}, Appends(t)
      PROVE  submitted' = submitted /\ Times(d)' = Times(d)
  <2>1. submitted' = submitted /\ (box' = box \/ box' = Append(box, t))
      BY <1>6 DEF Appends
  <2>2. {i \in DOMAIN box' : box'[i] = d} = {i \in DOMAIN box : box[i] = d}
      BY <1>1, <1>6, <2>1, SMTT(60)
  <2> QED BY <2>1, <2>2 DEF Times
<1>7. CASE Enter(x)
  <2>1. \/ Submits(x)
        \/ submitted' = submitted /\ (box' = box \/ box' = <<>>)
      BY <1>7 DEF Enter, ShellRuns
  <2>2. box' = box => Times(d)' = Times(d)
      BY DEF Times
  <2> QED BY <1>4, <1>5, <2>1, <2>2
<1>8. CASE HumanLeaves("shell") \/ HumanLeaves("nosession")
    BY <1>4, <1>8 DEF HumanLeaves
<1> QED BY <1>4, <1>5, <1>6, <1>7, <1>8

\* Everything a prompt depends on stays, or changes as an agent changes it.
Kept(d) ==
    /\ box' = box /\ shown' = shown /\ submitted' = submitted
    /\ prog' = prog \/ prog \notin Agents
    /\ turn' = turn \/ turn' = 0
    /\ Idle => Idle'
    /\ d \in glimpsed => d \in glimpsed' \/ turn' = 0

LEMMA KeptFacts ==
    ASSUME NEW d \in Commands, Kept(d)
    PROVE  /\ Unsent(d) => Unsent(d)'
           /\ Once(d) => Once(d)'
           /\ Typed(d) => Typed(d)'
           /\ Sent(d) => Sent(d)'
<1>1. box' = box /\ shown' = shown /\ submitted' = submitted
    BY DEF Kept
<1>2. Unsent(d) => Unsent(d)'
    BY <1>1 DEF Unsent
<1>3. Once(d) => Once(d)'
    BY <1>1 DEF Once, Times
<1>4. Typed(d) => Typed(d)'
    BY <1>1 DEF Typed
<1>5. Sent(d) => Sent(d)'
    BY <1>1 DEF Sent, Kept, Agents
<1> QED BY <1>2, <1>3, <1>4, <1>5

LEMMA PromptKept ==
    ASSUME NEW d \in Commands, PromptAt(d), cmd'[d] = cmd[d], Kept(d)
    PROVE  PromptAt(d)'
<1>1. box' = box /\ submitted' = submitted /\ (Idle => Idle')
    BY DEF Kept
<1>2. cmd'[d].at \in UnsentPlaces => Unsent(d)'
    BY KeptFacts DEF PromptAt
<1>3. /\ cmd'[d].at = "settle" => box' = <<>> /\ (turn' = 0 \/ d \in glimpsed')
      /\ cmd'[d].at = "ready" /\ cmd'[d].looks > 0 => turn' = 0 \/ d \in glimpsed'
    BY DEF PromptAt, Kept
<1>4. /\ cmd'[d].at \in {"clear", "clearenter", "paste", "enter"} => Idle'
      /\ cmd'[d].at = "clear" => box' = <<>>
      /\ cmd'[d].at \in {"clearenter", "paste"} => box' = <<>> \/ box' = <<"clear">>
    BY <1>1 DEF PromptAt
<1>5. /\ cmd'[d].at = "enter" => Typed(d)'
      /\ cmd'[d].at = "confirm" => (Idle' /\ Typed(d)') \/ Sent(d)'
    BY <1>1, KeptFacts DEF PromptAt
<1>6. cmd'[d].at \in Queueing => prog' \in Agents
    BY DEF PromptAt, Kept
<1>7. /\ cmd'[d].at \in {"qpaste", "qpasted", "qenter"} => submitted'[d] = 0
      /\ cmd'[d].at = "queued" => \/ box' = <<d>> /\ submitted'[d] = 0
                                  \/ box' = <<>> /\ submitted'[d] = 1
    BY <1>1 DEF PromptAt
<1>8. cmd'[d].at = "done" => Once(d)' /\ (cmd'[d].result = "ok" => submitted'[d] = 1)
    BY <1>1, KeptFacts DEF PromptAt
<1> QED BY <1>2, <1>3, <1>4, <1>5, <1>6, <1>7, <1>8 DEF PromptAt

\* Where a command of one kind of place lands.
LEMMA LandUnsent ==
    ASSUME NEW d, cmd'[d].at \in UnsentPlaces, Unsent(d)',
           cmd'[d].at \notin {"settle", "clear", "clearenter", "paste", "qlook"},
           cmd'[d].at = "ready" => ~(cmd'[d].looks > 0) \/ turn' = 0 \/ d \in glimpsed'
    PROVE  PromptAt(d)'
BY DEF PromptAt, UnsentPlaces, Early, Before, Queueing

LEMMA LandFailed ==
    ASSUME NEW d \in Commands, NEW c, cmd'[d] = c, Gone(c), Once(d)'
    PROVE  PromptAt(d)'
<1>1. cmd'[d].at = "done" /\ cmd'[d].result = "failed"
    BY DEF Gone
<1>2. cmd'[d].at \notin UnsentPlaces \cup Queueing
    BY <1>1 DEF UnsentPlaces, Early, Before, Queueing
<1> QED BY <1>1, <1>2 DEF PromptAt

LEMMA LookKeeps ==
    ASSUME NEW d \in Commands, NEW e \in Commands, Look(d)
    PROVE  /\ UNCHANGED <<prog, view, box, shown, turn, turns, submitted>>
           /\ e # d => Kept(e)
           /\ Unsent(e) => Unsent(e)'
           /\ Once(e) => Once(e)'
           /\ Typed(e) => Typed(e)'
           /\ Sent(e) => Sent(e)'
           /\ Idle => Idle'
           /\ InputReady => box = <<>> /\ prog \in Agents /\ view = "ready"
                            /\ (turn = 0 \/ d \in glimpsed')
           /\ InputReady /\ d \in glimpsed => turn = 0
<1>1. UNCHANGED <<prog, view, box, shown, turn, turns, submitted>>
    BY DEF Look
<1>2. e # d => Kept(e)
    BY DEF Look, Kept, Idle
<1>3. (Unsent(e) => Unsent(e)') /\ (Typed(e) => Typed(e)') /\ (Sent(e) => Sent(e)')
      /\ (Idle => Idle')
    BY <1>1 DEF Unsent, Typed, Sent, Idle
<1>4. Once(e) => Once(e)'
    BY <1>1 DEF Once, Times
<1>5. InputReady => box = <<>> /\ prog \in Agents /\ view = "ready" /\ (turn = 0 \/ d \in glimpsed')
    BY DEF Look, InputReady, Draft, Flickers
<1>6. InputReady /\ d \in glimpsed => turn = 0
    BY DEF Look, Flickers
<1> QED BY <1>1, <1>2, <1>3, <1>4, <1>5, <1>6

LEMMA LandSettle ==
    ASSUME NEW d, cmd'[d].at = "settle", Unsent(d)', box' = <<>>, turn' = 0 \/ d \in glimpsed'
    PROVE  PromptAt(d)'
BY DEF PromptAt, Queueing

LEMMA LandPaste ==
    ASSUME NEW d, cmd'[d].at \in {"clear", "clearenter", "paste"}, Unsent(d)', Idle',
           box' = <<>> \/ (box' = <<"clear">> /\ cmd'[d].at # "clear")
    PROVE  PromptAt(d)'
BY DEF PromptAt, Queueing

LEMMA LandQueue ==
    ASSUME NEW d, prog' \in Agents,
           \/ cmd'[d].at = "qlook" /\ Unsent(d)'
           \/ cmd'[d].at \in {"qpaste", "qpasted", "qenter"} /\ submitted'[d] = 0
           \/ cmd'[d].at = "queued" /\ box' = <<d>> /\ submitted'[d] = 0
           \/ cmd'[d].at = "queued" /\ box' = <<>> /\ submitted'[d] = 1
    PROVE  PromptAt(d)'
BY DEF PromptAt, UnsentPlaces, Early, Before

LEMMA LandTyped ==
    ASSUME NEW d,
           \/ cmd'[d].at \in {"enter", "confirm"} /\ Idle' /\ Typed(d)'
           \/ cmd'[d].at = "confirm" /\ Sent(d)'
    PROVE  PromptAt(d)'
BY DEF PromptAt, UnsentPlaces, Early, Before, Queueing

LEMMA LandOk ==
    ASSUME NEW d, cmd'[d].at = "done", Once(d)', submitted'[d] = 1
    PROVE  PromptAt(d)'
BY DEF PromptAt, UnsentPlaces, Early, Before, Queueing

LEMMA PromptLooks ==
    ASSUME PaneInv, CmdTypeOK, NEW d \in Commands, QueueBox(d), PromptAt(d), Looking(d)
    PROVE  PromptAt(d)'
<1>0. prog \in Progs /\ Look(d)
    BY LookingMoves DEF PaneInv, PaneTypeOK
<1>1. Once(d)
    BY PromptOnce
<1>2. /\ UNCHANGED <<prog, view, box, shown, turn, turns, submitted>>
      /\ (Unsent(d) => Unsent(d)') /\ Once(d)' /\ (Typed(d) => Typed(d)')
      /\ (Sent(d) => Sent(d)') /\ (Idle => Idle')
      /\ InputReady => box = <<>> /\ prog \in Agents /\ view = "ready"
                       /\ (turn = 0 \/ d \in glimpsed')
      /\ InputReady /\ d \in glimpsed => turn = 0
    BY <1>0, <1>1, LookKeeps
<1>3. ASSUME NEW c, Takes(d, c), Gone(c)
      PROVE  PromptAt(d)'
    BY <1>2, <1>3, TakesFacts, LandFailed
<1>4. CASE FirstLook(d)
  <2>1. Unsent(d)'
      BY <1>2, <1>4 DEF FirstLook, At, PromptAt, UnsentPlaces, Early
  <2>2. PICK c : Takes(d, c) /\
              \/ c.at \in {"create", "accept", "launch"}
              \/ InputReady /\ c.at = "settle"
              \/ (PaneWorking \/ InputReady) /\ c.at = "qlook"
              \/ Gone(c)
      BY <1>0, <1>4, FirstLookMoves
  <2>3. cmd'[d] = c
      BY <2>2, TakesFacts
  <2>4. CASE c.at \in {"create", "accept", "launch"}
      BY <2>1, <2>3, <2>4, LandUnsent DEF UnsentPlaces, Before
  <2>5. CASE InputReady /\ c.at = "settle"
      BY <1>2, <2>1, <2>3, <2>5, LandSettle
  <2>6. CASE (PaneWorking \/ InputReady) /\ c.at = "qlook"
    <3>1. prog' \in Agents
        BY <1>2, <2>6 DEF PaneWorking
    <3> QED BY <2>1, <2>3, <2>6, <3>1, LandQueue
  <2> QED BY <1>3, <2>2, <2>4, <2>5, <2>6
<1>5. CASE Relook(d)
  <2>1. Unsent(d)'
      BY <1>2, <1>5 DEF Relook, At, PromptAt, UnsentPlaces, Before
  <2>2. PICK c : Takes(d, c) /\ ((InputReady /\ c.at = "settle") \/ Gone(c))
      BY <1>5, RelookMoves
  <2>3. cmd'[d] = c
      BY <2>2, TakesFacts
  <2>4. CASE InputReady /\ c.at = "settle"
      BY <1>2, <2>1, <2>3, <2>4, LandSettle
  <2> QED BY <1>3, <2>2, <2>4
<1>6. CASE Settle(d)
  <2>1. Unsent(d)' /\ (turn = 0 \/ d \in glimpsed)
      BY <1>2, <1>6 DEF Settle, At, PromptAt, UnsentPlaces, Before
  <2>2. PICK c : Takes(d, c) /\
              \/ InputReady /\ c.at = "settle"
              \/ InputReady /\ c.at = "exitlook"
              \/ InputReady /\ prog = "agent" /\ c.at \in {"clear", "paste"}
              \/ Gone(c)
      BY <1>6, SettleMoves
  <2>3. cmd'[d] = c
      BY <2>2, TakesFacts
  <2>4. CASE InputReady /\ c.at = "settle"
      BY <1>2, <2>1, <2>3, <2>4, LandSettle
  <2>5. CASE InputReady /\ c.at = "exitlook"
      BY <2>1, <2>3, <2>5, LandUnsent DEF UnsentPlaces, Before
  <2>6. CASE InputReady /\ prog = "agent" /\ c.at \in {"clear", "paste"}
    <3>1. Idle
        BY <1>2, <2>1, <2>6 DEF Idle
    <3> QED BY <1>2, <2>1, <2>3, <2>6, <3>1, LandPaste
  <2> QED BY <1>3, <2>2, <2>4, <2>5, <2>6
<1>7. CASE WaitReady(d)
  <2>1. /\ Unsent(d)' /\ cmd[d].looks \in Nat
        /\ cmd[d].at = "ready" /\ (cmd[d].looks > 0 => turn = 0 \/ d \in glimpsed)
      BY <1>2, <1>7 DEF WaitReady, At, PromptAt, UnsentPlaces, Before, CmdTypeOK, Progress
  <2>2. PICK c : Takes(d, c) /\
              \/ TrustAsked(d) /\ c = cmd[d]
              \/ TrustAsked(d) /\ c.at = "accept"
              \/ /\ InputReady /\ prog = "agent" /\ cmd[d].looks >= ReadySettle
                 /\ c.at \in {"clear", "paste", "relook"}
              \/ InputReady /\ c.at = "ready"
              \/ c.at = "ready" /\ c.looks = 0
              \/ Gone(c)
      BY <1>7, WaitReadyMoves
  <2>3. cmd'[d] = c
      BY <2>2, TakesFacts
  <2>4. CASE TrustAsked(d) /\ c = cmd[d]
    <3>1. turn' = 0
        BY <1>2, <2>4 DEF TrustAsked, Asking, PaneInv, Turns
    <3> QED BY <2>1, <2>3, <2>4, <3>1, LandUnsent DEF UnsentPlaces, Before
  <2>5. CASE c.at = "accept"
      BY <2>1, <2>3, <2>5, LandUnsent DEF UnsentPlaces, Before
  <2>6. CASE /\ InputReady /\ prog = "agent" /\ cmd[d].looks >= ReadySettle
             /\ c.at \in {"clear", "paste", "relook"}
    <3>1. cmd[d].looks > 0
        BY <2>1, <2>6, DispatchAssumption
    <3>2. Idle
        BY <1>2, <2>1, <2>6, <3>1 DEF Idle
    <3>3. CASE c.at = "relook"
        BY <2>1, <2>3, <3>3, LandUnsent DEF UnsentPlaces, Before
    <3>4. CASE c.at \in {"clear", "paste"}
        BY <1>2, <2>1, <2>3, <2>6, <3>2, <3>4, LandPaste
    <3> QED BY <2>6, <3>3, <3>4
  <2>7. CASE InputReady /\ c.at = "ready"
      BY <1>2, <2>1, <2>3, <2>7, LandUnsent DEF UnsentPlaces, Before
  <2>8. CASE c.at = "ready" /\ c.looks = 0
      BY <2>1, <2>3, <2>8, LandUnsent DEF UnsentPlaces, Before
  <2> QED BY <1>3, <2>2, <2>4, <2>5, <2>6, <2>7, <2>8
<1>8. CASE ConfirmPrompt(d)
  <2>1. (Idle /\ Typed(d)) \/ Sent(d)
      BY <1>8 DEF ConfirmPrompt, At, PromptAt
  <2>2. Idle /\ Typed(d) => ~Submitted(d)
    <3>1. Idle /\ Typed(d) => ~Asking /\ ~PaneWorking /\ ~Visible(d)
        BY DEF Idle, Typed, Asking, PaneWorking, Visible
    <3> QED BY <3>1 DEF Submitted
  <2>3. Sent(d) => Submitted(d) /\ ~InBox(d)
    <3>1. Sent(d) => ~InBox(d) /\ Visible(d)
        BY DEF Sent, InBox, Visible
    <3> QED BY <3>1 DEF Submitted
  <2>4. Idle /\ Typed(d) /\ ~InBox(d) /\ ~ForeignDraft(d) => Unsent(d) /\ box = <<>>
    <3> SUFFICES ASSUME Idle, Typed(d), ~InBox(d), ~ForeignDraft(d)
                 PROVE  Unsent(d) /\ box = <<>>
        OBVIOUS
    <3>1. ~Draft
        BY DEF ForeignDraft, Idle, Agents, Asking, PaneWorking
    <3>2. box = <<>>
        BY <3>1 DEF Draft
    <3> QED BY <3>2 DEF Unsent, Typed
  <2>5. PICK c : Takes(d, c) /\
              \/ Submitted(d) /\ c.at = "done"
              \/ ~Submitted(d) /\ c.at = "enter"
              \/ ~Submitted(d) /\ ~InBox(d) /\ ~ForeignDraft(d) /\ c.at = "paste"
              \/ Gone(c)
      BY <1>8, ConfirmMoves
  <2>6. cmd'[d] = c
      BY <2>5, TakesFacts
  <2>7. CASE Submitted(d) /\ c.at = "done"
    <3>1. submitted'[d] = 1
        BY <1>2, <2>1, <2>2, <2>7 DEF Sent
    <3> QED BY <1>2, <2>6, <2>7, <3>1, LandOk
  <2>8. CASE ~Submitted(d) /\ c.at = "enter"
      BY <1>2, <2>1, <2>3, <2>6, <2>8, LandTyped
  <2>9. CASE ~Submitted(d) /\ ~InBox(d) /\ ~ForeignDraft(d) /\ c.at = "paste"
    <3>1. Idle /\ Unsent(d) /\ box = <<>>
        BY <2>1, <2>3, <2>4, <2>9
    <3> QED BY <1>2, <2>6, <2>9, <3>1, LandPaste
  <2> QED BY <1>3, <2>5, <2>7, <2>8, <2>9
<1>9. CASE QueueLook(d)
  <2>1. Unsent(d) /\ prog \in Agents
      BY <1>9 DEF QueueLook, At, PromptAt, UnsentPlaces, Before, Queueing
  <2>2. PICK c : Takes(d, c) /\ (c.at = "qpaste" \/ Gone(c))
      BY <1>9, QueueLookMoves
  <2>3. cmd'[d] = c
      BY <2>2, TakesFacts
  <2>4. CASE c.at = "qpaste"
      BY <1>2, <2>1, <2>3, <2>4, LandQueue DEF Unsent
  <2> QED BY <1>3, <2>2, <2>4
<1>10. CASE ConfirmPasted(d)
  <2>1. submitted[d] = 0 /\ prog \in Agents
      BY <1>10 DEF ConfirmPasted, At, PromptAt, Queueing
  <2>2. PICK c : Takes(d, c) /\ (c.at \in {"qenter", "qpaste"} \/ Gone(c))
      BY <1>10, ConfirmPastedMoves
  <2>3. cmd'[d] = c
      BY <2>2, TakesFacts
  <2>4. CASE c.at \in {"qenter", "qpaste"}
      BY <1>2, <2>1, <2>3, <2>4, LandQueue
  <2> QED BY <1>3, <2>2, <2>4
<1>11. CASE ConfirmQueued(d)
  <2>1. /\ prog \in Agents
        /\ \/ box = <<d>> /\ submitted[d] = 0
           \/ box = <<>> /\ submitted[d] = 1
      BY <1>11 DEF ConfirmQueued, At, PromptAt, Queueing
  <2>2. PICK c : Takes(d, c) /\
              \/ ~DraftSeen /\ c.at = "done"
              \/ Draft /\ c.at = "qenter"
              \/ Gone(c)
      BY <1>11, ConfirmQueuedMoves
  <2>3. cmd'[d] = c
      BY <2>2, TakesFacts
  <2>4. CASE ~DraftSeen /\ c.at = "done"
    <3>0. Len(<<d>>) = 1 /\ Len(<<>>) = 0
        OBVIOUS
    <3>1. submitted[d] = 1
        BY <2>1, <2>4, <3>0 DEF DraftSeen, Draft
    <3> QED BY <1>2, <2>3, <2>4, <3>1, LandOk
  <2>5. CASE Draft /\ c.at = "qenter"
    <3>1. submitted[d] = 0
        BY <2>1, <2>5 DEF Draft
    <3> QED BY <1>2, <2>1, <2>3, <2>5, <3>1, LandQueue
  <2> QED BY <1>3, <2>2, <2>4, <2>5
<1>12. CASE ExitLook(d) \/ ExitInput(d) \/ ShellLook(d)
  <2>1. Unsent(d)'
      BY <1>2, <1>12 DEF ExitLook, ExitInput, ShellLook, At, PromptAt, UnsentPlaces, Before
  <2>2. PICK c : Takes(d, c) /\
            (c.at \in {"exit", "exitenter", "exitinput", "launch", "shell"} \/ Gone(c))
      BY <1>12, ExitMoves
  <2>3. cmd'[d] = c
      BY <2>2, TakesFacts
  <2>4. CASE c.at \in {"exit", "exitenter", "exitinput", "launch", "shell"}
      BY <2>1, <2>3, <2>4, LandUnsent DEF UnsentPlaces, Before
  <2> QED BY <1>3, <2>2, <2>4
<1> QED BY <1>4, <1>5, <1>6, <1>7, <1>8, <1>9, <1>10, <1>11, <1>12 DEF Looking

\* Enter in an agent that is idle.
LEMMA IdleEnter ==
    ASSUME NEW d, Idle, Enter(d)
    PROVE  \/ box # <<>> /\ Submits(d)
           \/ UNCHANGED <<prog, view, box, shown, turn, turns, submitted>>
BY DEF Enter, Idle, Asking, Draft, Agents

LEMMA SubmitsClear ==
    ASSUME NEW d \in Commands, NEW x, Submits(x), box = <<"clear">>
    PROVE  UNCHANGED <<prog, view, turn>> /\ box' = <<>> /\ shown' = {}
           /\ submitted'[d] = submitted[d] + 0
<1>1. <<"clear">>[1] = "clear" /\ <<"exit">>[1] = "exit"
    OBVIOUS
<1>2. box # <<"exit">>
    BY <1>1
<1>3. UNCHANGED <<prog, view, turn>> /\ box' = <<>> /\ shown' = {}
    BY <1>2 DEF Submits
<1>4. submitted'[d] = submitted[d] + Times(d)
    BY DEF Submits, Times
<1>5. Times(d) = 0
    BY TimesOf
<1> QED BY <1>3, <1>4, <1>5

LEMMA SubmitsPrompt ==
    ASSUME NEW d \in Commands, NEW x, Submits(x), box = <<d>> \/ box = <<"clear", d>>
    PROVE  UNCHANGED prog /\ box' = <<>> /\ d \in shown' /\ submitted'[d] = submitted[d] + 1
<1>0. d # "clear" /\ d # "exit"
    BY DispatchAssumption
<1>1. <<"clear">>[1] = "clear" /\ <<"exit">>[1] = "exit" /\ <<d>>[1] = d
      /\ Len(<<"clear">>) = 1 /\ Len(<<"exit">>) = 1 /\ Len(<<"clear", d>>) = 2
    OBVIOUS
<1>2. box \notin {<<"exit">>, <<"clear">>}
    BY <1>0, <1>1
<1>3. d \in Prompts
  <2>1. CASE box = <<d>>
    <3>1. 1 \in DOMAIN box /\ box[1] = d
        BY <2>1
    <3> QED BY <3>1 DEF Prompts
  <2>2. CASE box = <<"clear", d>>
    <3>1. 2 \in DOMAIN box /\ box[2] = d
        BY <2>2
    <3> QED BY <3>1 DEF Prompts
  <2> QED BY <2>1, <2>2
<1>4. UNCHANGED prog /\ box' = <<>> /\ d \in shown'
    BY <1>2, <1>3 DEF Submits
<1>5. submitted'[d] = submitted[d] + Times(d)
    BY DEF Submits, Times
<1>6. Times(d) = 1
    BY TimesOf
<1> QED BY <1>4, <1>5, <1>6

LEMMA AppendTwo ==
    ASSUME NEW S, NEW a \in S, NEW b \in S
    PROVE  Append(<<a>>, b) = <<a, b>>
<1> DEFINE s == Append(<<a>>, b)
           t == <<a, b>>
<1>1. <<a>> \in Seq(S) /\ t \in Seq(S)
    OBVIOUS
<1>2. s \in Seq(S) /\ Len(s) = 2 /\ Len(t) = 2
    BY <1>1
<1>3. s[1] = a /\ s[2] = b /\ t[1] = a /\ t[2] = b
    OBVIOUS
<1>4. \A i \in 1..2 : s[i] = t[i]
  <2> SUFFICES ASSUME NEW i \in 1..2 PROVE s[i] = t[i]
      OBVIOUS
  <2>1. i = 1 \/ i = 2
      OBVIOUS
  <2> QED BY <1>3, <2>1
<1> HIDE DEF s, t
<1>5. s = t
    BY <1>1, <1>2, <1>4, SeqEqual
<1> QED BY <1>5 DEF s, t

LEMMA PromptActs ==
    ASSUME PaneInv, CmdTypeOK, NEW d \in Commands, QueueBox(d), PromptAt(d), Acting(d)
    PROVE  PromptAt(d)'
<1>1. PICK from \in Places, input \in Tokens \cup {"Enter"}, to \in Places :
             TypesAt(d, from, input, to) /\ At(d, {from}) /\ Acts(d, input, to)
    BY DEF Acting
<1>2. PICK c : Takes(d, c) /\ ((NoPane(d) /\ Gone(c)) \/ (Acted(d, input) /\ c.at = to))
    BY <1>1, ActMoves
<1>3. cmd'[d] = c /\ cmd[d].at = from
    BY <1>1, <1>2, TakesFacts DEF At
<1>4. d \notin {"clear", "exit", "launch", "draft", "Enter"} /\ d \in Tokens
      /\ {"clear", "exit", "launch"} \subseteq Tokens \ {d}
    BY DispatchAssumption DEF Tokens
<1>5. CASE NoPane(d) /\ Gone(c)
  <2>1. Once(d)
      BY PromptOnce
  <2>2. Once(d)'
      BY <1>5, <2>1 DEF NoPane, paneState, Once, Times
  <2> QED BY <1>3, <1>5, <2>2, LandFailed
<1>6. ASSUME Acted(d, input), input # d, Unsent(d)
      PROVE  Unsent(d)'
  <2>1. CASE input = "Enter"
      BY <1>6, <2>1, UnsentStays DEF Acted
  <2>2. CASE input # "Enter"
    <3>1. input \in Tokens \ {d} /\ Appends(input)
        BY <1>6, <2>2 DEF Acted, Types, Appends
    <3> QED BY <1>6, <3>1, UnsentStays
  <2> QED BY <2>1, <2>2
<1>7. CASE /\ Acted(d, input) /\ c.at = to
           /\ from \in {"accept", "launch", "launchenter", "exit", "exitenter"}
  <2>1. input # d /\ to \in {"trusting", "launchenter", "launched", "exitinput", "shell"}
      BY <1>1, <1>4, <1>7 DEF TypesAt, ActsAt
  <2>2. Unsent(d)
      BY <1>3, <1>7 DEF PromptAt, UnsentPlaces, Before
  <2>3. Unsent(d)'
      BY <1>6, <1>7, <2>1, <2>2
  <2> QED BY <1>3, <1>7, <2>1, <2>3, LandUnsent DEF UnsentPlaces, Before
<1>8. CASE Acted(d, input) /\ c.at = to /\ from = "clear"
  <2>1. input = "clear" /\ to = "clearenter"
      BY <1>1, <1>8 DEF TypesAt, ActsAt
  <2>2. Unsent(d) /\ Idle /\ box = <<>>
      BY <1>3, <1>8 DEF PromptAt, UnsentPlaces, Before
  <2>3. Unsent(d)'
      BY <1>4, <1>6, <1>8, <2>1, <2>2
  <2>4. Types("clear")
      BY <1>8, <2>1 DEF Acted
  <2>5. Idle' /\ (box' = <<>> \/ box' = Append(<<>>, "clear"))
      BY <2>2, <2>4 DEF Types, Idle
  <2>6. Append(<<>>, "clear") = <<"clear">>
      OBVIOUS
  <2> QED BY <1>3, <1>8, <2>1, <2>3, <2>5, <2>6, LandPaste
<1>9. CASE Acted(d, input) /\ c.at = to /\ from = "clearenter"
  <2>1. input = "Enter" /\ to = "paste"
      BY <1>1, <1>9 DEF TypesAt, ActsAt
  <2>2. Unsent(d) /\ Idle /\ (box = <<>> \/ box = <<"clear">>)
      BY <1>3, <1>9 DEF PromptAt, UnsentPlaces, Before
  <2>3. Unsent(d)'
      BY <1>4, <1>6, <1>9, <2>1, <2>2
  <2>4. Enter(d)
      BY <1>9, <2>1 DEF Acted
  <2>5. CASE box # <<>> /\ Submits(d)
    <3>1. UNCHANGED <<prog, view, turn>> /\ box' = <<>>
        BY <2>2, <2>5, SubmitsClear
    <3>2. Idle'
        BY <2>2, <3>1 DEF Idle
    <3> QED BY <1>3, <1>9, <2>1, <2>3, <3>1, <3>2, LandPaste
  <2>6. CASE UNCHANGED <<prog, view, box, shown, turn, turns, submitted>>
    <3>1. Idle'
        BY <2>2, <2>6 DEF Idle
    <3> QED BY <1>3, <1>9, <2>1, <2>2, <2>3, <2>6, <3>1, LandPaste
  <2>7. (box # <<>> /\ Submits(d)) \/ UNCHANGED <<prog, view, box, shown, turn, turns, submitted>>
      BY <2>2, <2>4, IdleEnter
  <2> QED BY <2>5, <2>6, <2>7
<1>10. CASE Acted(d, input) /\ c.at = to /\ from = "paste"
  <2>1. input = d /\ to = "enter"
      BY <1>1, <1>10 DEF TypesAt, ActsAt
  <2>2. Unsent(d) /\ Idle /\ (box = <<>> \/ box = <<"clear">>)
      BY <1>3, <1>10 DEF PromptAt, UnsentPlaces, Before
  <2>3. Types(d)
      BY <1>4, <1>10, <2>1 DEF Acted
  <2>4. Idle' /\ (box' = box \/ box' = Append(box, d)) /\ UNCHANGED <<shown, submitted>>
      BY <2>2, <2>3 DEF Types, Idle
  <2>5. Append(<<>>, d) = <<d>> /\ Append(<<"clear">>, d) = <<"clear", d>>
    <3>1. "clear" \in Tokens
        BY <1>4
    <3> QED BY <1>4, <3>1, AppendTwo
  <2>6. Typed(d)'
      BY <2>2, <2>4, <2>5 DEF Typed, Unsent
  <2> QED BY <1>3, <1>10, <2>1, <2>4, <2>6, LandTyped
<1>11. CASE Acted(d, input) /\ c.at = to /\ from = "enter"
  <2>1. input = "Enter" /\ to = "confirm"
      BY <1>1, <1>11 DEF TypesAt, ActsAt
  <2>2. Typed(d) /\ Idle
      BY <1>3, <1>11 DEF PromptAt
  <2>3. Enter(d)
      BY <1>11, <2>1 DEF Acted
  <2>4. CASE Submits(d) /\ box = <<"clear">>
    <3>1. UNCHANGED <<prog, view, turn>> /\ box' = <<>> /\ shown' = {}
          /\ submitted'[d] = submitted[d] + 0
        BY <2>4, SubmitsClear
    <3>2. Idle' /\ Typed(d)'
        BY <2>2, <3>1 DEF Idle, Typed
    <3> QED BY <1>3, <1>11, <2>1, <3>2, LandTyped
  <2>5. CASE Submits(d) /\ (box = <<d>> \/ box = <<"clear", d>>)
    <3>1. UNCHANGED prog /\ box' = <<>> /\ d \in shown' /\ submitted'[d] = submitted[d] + 1
        BY <2>5, SubmitsPrompt
    <3>2. Sent(d)'
        BY <2>2, <3>1 DEF Idle, Typed, Sent
    <3> QED BY <1>3, <1>11, <2>1, <3>2, LandTyped
  <2>6. CASE UNCHANGED <<prog, view, box, shown, turn, turns, submitted>>
    <3>1. Idle' /\ Typed(d)'
        BY <2>2, <2>6 DEF Idle, Typed
    <3> QED BY <1>3, <1>11, <2>1, <3>1, LandTyped
  <2>7. (box # <<>> /\ Submits(d)) \/ UNCHANGED <<prog, view, box, shown, turn, turns, submitted>>
      BY <2>2, <2>3, IdleEnter
  <2> QED BY <2>2, <2>4, <2>5, <2>6, <2>7 DEF Typed
<1>12. CASE Acted(d, input) /\ c.at = to /\ from = "qpaste"
  <2>1. input = d /\ to = "qpasted"
      BY <1>1, <1>12 DEF TypesAt, ActsAt
  <2>2. submitted[d] = 0 /\ prog \in Agents
      BY <1>3, <1>12 DEF PromptAt, Queueing
  <2>3. Types(d)
      BY <1>4, <1>12, <2>1 DEF Acted
  <2>4. submitted'[d] = 0 /\ prog' \in Agents
      BY <2>2, <2>3 DEF Types
  <2> QED BY <1>3, <1>12, <2>1, <2>4, LandQueue
<1>13. CASE Acted(d, input) /\ c.at = to /\ from = "qenter"
  <2>1. input = "Enter" /\ to = "queued"
      BY <1>1, <1>13 DEF TypesAt, ActsAt
  <2>2. submitted[d] = 0 /\ prog \in Agents /\ box = <<d>>
      BY <1>3, <1>13 DEF PromptAt, Queueing, QueueBox
  <2>3. Enter(d) /\ prog # "shell"
      BY <1>13, <2>1, <2>2 DEF Acted, Agents
  <2>4. Submits(d) \/ UNCHANGED <<prog, box, submitted>>
      BY <2>3 DEF Enter
  <2>5. CASE Submits(d)
    <3>1. UNCHANGED prog /\ box' = <<>> /\ submitted'[d] = 1
        BY <2>2, <2>5, SubmitsPrompt
    <3> QED BY <1>3, <1>13, <2>1, <2>2, <3>1, LandQueue
  <2>6. CASE UNCHANGED <<prog, box, submitted>>
      BY <1>3, <1>13, <2>1, <2>2, <2>6, LandQueue
  <2> QED BY <2>4, <2>5, <2>6
<1>14. from \in {"accept", "launch", "launchenter", "exit", "exitenter", "clear",
                 "clearenter", "paste", "enter", "qpaste", "qenter"}
    BY <1>1 DEF TypesAt, ActsAt
<1> QED BY <1>2, <1>5, <1>7, <1>8, <1>9, <1>10, <1>11, <1>12, <1>13, <1>14

LEMMA PromptMoves ==
    ASSUME PaneInv, CmdTypeOK, NEW d \in Commands, QueueBox(d), PromptAt(d),
           Moving(d) \/ CreateSession(d)
    PROVE  PromptAt(d)'
<1>1. Once(d)
    BY PromptOnce
<1>2. UNCHANGED <<box, shown, submitted>>
    BY MovingMoves DEF paneState, dispatchHistory, CreateSession
<1>3. Once(d)' /\ (Unsent(d) => Unsent(d)')
    BY <1>1, <1>2 DEF Once, Times, Unsent
<1>4. PICK c : Takes(d, c) /\
         \/ cmd[d].at \in {"probe", "probing"} /\ c.at \in {"probing", "look"}
         \/ cmd[d].at \in {"trusting", "launched"} /\ c.at = "ready" /\ c.looks = 0
         \/ cmd[d].at = "create" /\ c.at = "launch"
         \/ Gone(c)
  <2>1. CASE Moving(d)
      BY <2>1, MovingMoves
  <2>2. CASE CreateSession(d)
      BY <2>2, CreateMoves DEF CreateSession, At
  <2> QED BY <2>1, <2>2
<1>5. cmd'[d] = c
    BY <1>4, TakesFacts
<1>6. CASE Gone(c)
    BY <1>3, <1>5, <1>6, LandFailed
<1>7. CASE ~Gone(c)
  <2>1. /\ cmd[d].at \in UnsentPlaces /\ c.at \in {"probing", "look", "ready", "launch"}
        /\ c.at = "ready" => c.looks = 0
      BY <1>4, <1>7 DEF UnsentPlaces, Early, Before
  <2>2. Unsent(d)'
      BY <1>3, <2>1 DEF PromptAt
  <2>3. c.at \in UnsentPlaces
      BY <2>1 DEF UnsentPlaces, Early, Before
  <2> QED BY <1>5, <2>1, <2>2, <2>3, LandUnsent
<1> QED BY <1>6, <1>7

\* A step of somebody else, while nobody has disturbed the command.
LEMMA PromptTyped ==
    ASSUME NEW d \in Commands, PaneInv, PromptAt(d), cmd'[d] = cmd[d],
           cmd[d].at \in Early \cup {"done"}, NEW x,
           \/ \E t \in Tokens \ {d} : Appends(t)
           \/ Enter(x) \/ Submits(x)
           \/ HumanLeaves("shell") \/ HumanLeaves("nosession")
    PROVE  PromptAt(d)'
<1>1. CASE cmd[d].at \in Early
  <2>1. Unsent(d)'
      BY <1>1, UnsentStays DEF PromptAt, UnsentPlaces
  <2>2. cmd'[d].at \in UnsentPlaces /\ cmd'[d].at \in Early
      BY <1>1 DEF UnsentPlaces
  <2> QED BY <2>1, <2>2, LandUnsent DEF Early
<1>2. CASE cmd[d].at = "done"
  <2>1. Once(d) /\ (cmd[d].result = "ok" => submitted[d] = 1)
      BY <1>2 DEF PromptAt
  <2>2. Once(d)' /\ (cmd[d].result = "ok" => submitted'[d] = 1)
      BY <2>1, OnceStays
  <2> QED BY <1>2, <2>2 DEF PromptAt, UnsentPlaces, Early, Before, Queueing
<1> QED BY <1>1, <1>2

LEMMA SomebodyActs ==
    ASSUME PaneInv, CmdTypeOK, QueueInv, NEW x \in Commands, NEW d \in Commands \ {x}, Acting(x),
           PromptAt(d), ~disturbed'[d]
    PROVE  PromptAt(d)'
<1>0. prog \in Progs
    BY DEF PaneInv, PaneTypeOK
<1>1. cmd'[d] = cmd[d]
    BY <1>0, CmdTypes
<1>2. PICK from \in Places, input \in Tokens \cup {"Enter"}, to \in Places :
             TypesAt(x, from, input, to) /\ At(x, {from}) /\ Acts(x, input, to)
    BY DEF Acting
<1>3. NoPane(x) \/ Acted(x, input)
    BY <1>2, ActMoves
<1>4. CASE NoPane(x)
  <2>1. Kept(d)
      BY <1>4 DEF NoPane, paneState, Kept, Idle
  <2> QED BY <1>1, <2>1, PromptKept
<1>5. CASE Acted(x, input)
  <2>1. cmd[d].at \in Early \cup {"done"}
      BY <1>5, Disturbs DEF Acted, QueueInv
  <2>2. input # d
      BY <1>2, DispatchAssumption DEF TypesAt, ActsAt
  <2>3. Enter(x) \/ \E t \in Tokens \ {d} : Appends(t)
    <3>1. CASE input = "Enter"
        BY <1>5, <3>1 DEF Acted
    <3>2. CASE input # "Enter"
      <4>1. input \in Tokens \ {d} /\ Appends(input)
          BY <1>5, <2>2, <3>2 DEF Acted, Types, Appends
      <4> QED BY <4>1
    <3> QED BY <3>1, <3>2
  <2> QED BY <1>1, <2>1, <2>3, PromptTyped
<1> QED BY <1>3, <1>4, <1>5

LEMMA HumanDoes ==
    ASSUME PaneInv, NEW d \in Commands, HumanMoves, cmd[d].at \in Early \cup {"done"}, PromptAt(d)
    PROVE  PromptAt(d)'
<1>1. cmd' = cmd
    BY DEF HumanMoves, HumanTypes, HumanEnters, HumanLeaves, HumanActs, OthersIdle
<1>2. CASE HumanTypes
  <2>1. "draft" \in Tokens \ {d}
      BY DispatchAssumption DEF Tokens
  <2>2. Appends("draft")
      BY <1>2 DEF HumanTypes, Appends
  <2> QED BY <1>1, <2>1, <2>2, PromptTyped
<1>3. CASE HumanEnters
  <2>1. Submits("human")
      BY <1>3 DEF HumanEnters
  <2> QED BY <1>1, <2>1, PromptTyped
<1>4. CASE HumanLeaves("shell") \/ HumanLeaves("nosession")
    BY <1>1, <1>4, PromptTyped
<1> QED BY <1>2, <1>3, <1>4 DEF HumanMoves

LEMMA AgentKeeps ==
    ASSUME NEW d, AgentMoves \/ LeaseMoves
    PROVE  Kept(d) /\ cmd' = cmd
<1>1. CASE LeaseMoves
    BY <1>1 DEF LeaseMoves, LeaseTaken, LeaseReleased, paneState, dispatchHistory, Kept, Idle
<1>2. CASE AgentMoves
  <2>1. /\ UNCHANGED <<box, shown, submitted, prog, glimpsed, cmd>>
        /\ turn' = turn \/ turn' = 0
      BY <1>2 DEF AgentMoves, AgentBoots, AgentAsksTrust, TurnPauses, TurnGoesOn, TurnAsks,
             TurnEnds, HumanAnswers, AgentShows, OthersIdle
  <2>2. ~Idle
      BY <1>2 DEF AgentMoves, AgentBoots, AgentAsksTrust, TurnPauses, TurnGoesOn, TurnAsks,
             TurnEnds, HumanAnswers, AgentShows, Asking, Idle
  <2> QED BY <2>1, <2>2 DEF Kept
<1> QED BY <1>1, <1>2

LEMMA PromptSteps ==
    ASSUME HazardInv, PromptInv, DispatchNext
    PROVE  PromptInv'
<1>0. PaneInv /\ CmdTypeOK /\ QueueInv /\ prog \in Progs /\ disturbed \in [Commands -> BOOLEAN]
    BY DEF HazardInv, PaneInv, PaneTypeOK, QueueInv
<1> SUFFICES ASSUME NEW e \in Commands, ~disturbed'[e] PROVE PromptAt(e)'
    BY DEF PromptInv
<1>1. ~disturbed[e]
    BY <1>0, Alone
<1>2. QueueBox(e) /\ PromptAt(e)
    BY <1>0, <1>1 DEF QueueInv, PromptInv
<1>3. ASSUME NEW d \in Commands, Looking(d)
      PROVE  PromptAt(e)'
  <2>1. CASE d = e
      BY <1>0, <1>2, <1>3, <2>1, PromptLooks
  <2>2. CASE d # e
    <3>1. cmd'[e] = cmd[e] /\ Look(d)
        BY <1>0, <1>3, <2>2, CmdTypes, LookingMoves
    <3>2. Kept(e)
        BY <2>2, <3>1, LookKeeps
    <3> QED BY <1>2, <3>1, <3>2, PromptKept
  <2> QED BY <2>1, <2>2
<1>4. ASSUME NEW d \in Commands, Moving(d) \/ CreateSession(d)
      PROVE  PromptAt(e)'
  <2>1. CASE d = e
      BY <1>0, <1>2, <1>4, <2>1, PromptMoves
  <2>2. CASE d # e
    <3>1. cmd'[e] = cmd[e]
        BY <1>0, <1>4, <2>2, CmdTypes
    <3>2. Kept(e)
      <4>1. CASE Moving(d)
          BY <1>0, <4>1, MovingMoves DEF paneState, dispatchHistory, Kept, Idle
      <4>2. CASE CreateSession(d)
          BY <4>2 DEF CreateSession, dispatchHistory, Kept, Idle, Agents
      <4> QED BY <1>4, <4>1, <4>2
    <3> QED BY <1>2, <3>1, <3>2, PromptKept
  <2> QED BY <2>1, <2>2
<1>5. ASSUME NEW d \in Commands, Acting(d)
      PROVE  PromptAt(e)'
  <2>1. CASE d = e
      BY <1>0, <1>2, <1>5, <2>1, PromptActs
  <2>2. CASE d # e
      BY <1>0, <1>2, <1>5, <2>2, SomebodyActs
  <2> QED BY <2>1, <2>2
<1>6. CASE AgentMoves \/ LeaseMoves
    BY <1>2, <1>6, AgentKeeps, PromptKept
<1>7. CASE HumanMoves /\ cmd[e].at \in Early \cup {"done"}
    BY <1>0, <1>2, <1>7, HumanDoes
<1> QED BY <1>0, <1>3, <1>4, <1>5, <1>6, <1>7, Alone

LEMMA PromptInit == DispatchInit => PromptInv
<1> SUFFICES ASSUME DispatchInit, NEW d \in Commands PROVE PromptAt(d)
    BY DEF PromptInv
<1>1. cmd[d].at = "probe"
    BY DEF DispatchInit, NewCommand
<1>2. Unsent(d)
    BY DEF DispatchInit, Unsent
<1> QED BY <1>1, <1>2 DEF PromptAt, Queueing

LEMMA PromptStep ==
    ASSUME HazardInv, PromptInv, [DispatchNext]_dispatchVars
    PROVE  PromptInv'
<1>1. CASE DispatchNext
    BY <1>1, PromptSteps
<1>2. CASE UNCHANGED dispatchVars
  <2>1. /\ UNCHANGED <<prog, view, box, shown, turn, turns, glimpsed, submitted>>
        /\ UNCHANGED <<cmd, disturbed>>
      BY <1>2 DEF dispatchVars, paneState, dispatchHistory
  <2> SUFFICES ASSUME NEW d \in Commands, ~disturbed'[d] PROVE PromptAt(d)'
      BY DEF PromptInv
  <2>2. PromptAt(d)
      BY <2>1 DEF PromptInv
  <2>3. Kept(d)
      BY <2>1 DEF Kept, Idle
  <2> QED BY <2>1, <2>2, <2>3, PromptKept
<1> QED BY <1>1, <1>2

LEMMA PromptReported ==
    ASSUME HazardInv, PromptInv
    PROVE  SubmittedAsReported
<1>0. PaneInv /\ CmdTypeOK /\ QueueInv
    BY DEF HazardInv
<1> SUFFICES ASSUME NEW d \in Commands, ~disturbed[d]
             PROVE  submitted[d] <= 1 /\ (cmd[d].result = "ok" => submitted[d] = 1)
    BY DEF SubmittedAsReported, SubmittedAtMostOnce, OkMeansSubmitted
<1>1. PromptAt(d) /\ QueueBox(d)
    BY <1>0 DEF PromptInv, QueueInv
<1>2. Once(d)
    BY <1>0, <1>1, PromptOnce
<1>3. submitted[d] \in Nat /\ Times(d) \in Nat
    BY <1>0, TimesNat DEF PaneInv, PaneTypeOK
<1>4. submitted[d] <= 1
    BY <1>2, <1>3 DEF Once
<1>5. cmd[d].result = "ok" => cmd[d].at = "done"
    BY <1>0 DEF CmdTypeOK, GoodProgress
<1> QED BY <1>1, <1>4, <1>5 DEF PromptAt

\* A dispatch that nobody disturbs submits its prompt at most once, and exactly
\* once if it reports success (submitPrompt, submitQueued).
THEOREM AsReported == DispatchSpec => []SubmittedAsReported
<1> DEFINE Inv == HazardInv /\ PromptInv
<1>1. DispatchInit => Inv
    BY HazardInit, PromptInit
<1>2. Inv /\ [DispatchNext]_dispatchVars => Inv'
    BY HazardStep, PromptStep
<1>3. Inv => SubmittedAsReported
    BY PromptReported
<1> HIDE DEF Inv
<1> QED BY <1>1, <1>2, <1>3, PTL DEF DispatchSpec

=============================================================================
