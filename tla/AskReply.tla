------------------------------ MODULE AskReply ------------------------------
(***************************************************************************)
(* The request/reply thread of one question: the asker's commands          *)
(* (tmact ask, ask --thread, --await, --close, and the MCP tools ask_agent,*)
(* ask_followup, get_answer) and the answerer's command (tmact reply, with *)
(* --wait or --final), as two processes that share the files of AskMailbox.*)
(*                                                                         *)
(* There are two parties, so each side runs one command at a time; either  *)
(* process can be killed.  A step is one file operation, one read of the   *)
(* directory, or one call of dispatch (external here: it types the prompt  *)
(* into the answerer's pane or fails).  A timeout or an interrupt of a     *)
(* wait can come at any poll.                                              *)
(***************************************************************************)
EXTENDS AskMailbox

CONSTANTS
    Commands,         \* the asker commands of this instance
    AskTimeout,       \* --timeout of an ask, in clock units; it must be positive
    Allowance,        \* ready timeout, settle delay and dispatch allowance
    ReplyWait,        \* --timeout of reply --wait
    Kills,            \* processes that may be killed, among Roles
    KillMidWrite,     \* a kill may leave a message file half written
    RecheckIsTimely   \* a waiter polls at least once in the recheck delay

ASSUME AskReplyAssumption ==
    /\ Commands \subseteq {"new", "mcpnew", "follow", "mcpfollow", "await",
                           "close", "poll"}
    /\ AskTimeout \in Nat \ {0} /\ Allowance \in Nat /\ ReplyWait \in Nat
    /\ Kills \subseteq Roles
    /\ KillMidWrite \in BOOLEAN /\ RecheckIsTimely \in BOOLEAN

VARIABLES
    apc, cmd,     \* the asker: where it is, in which command
    view,         \*   the messages of its last read
    outcome,      \*   what its last command reported
    after,        \*   the last answer it knew of when it began to wait
    aseq,         \*   the message it last wrote; 0 when none in this command
    deliv,        \*   how the message it is sending travels
    handed,       \*   the answers it has printed, in that order
    prompted,     \*   the question was typed into the answerer's pane
    retyped,      \*   the mailbox messages that were typed there as well
    rpc, rview,   \* the answerer: where it is, the messages of its last read
    rdue,         \*   and the request's deadline in that read
    rseq,         \*   the message it last wrote
    accepted      \*   the messages whose Post returned without an error

askerRest == <<cmd, after, aseq, deliv, handed, prompted, retyped>>
askerVars == <<apc, view, outcome, askerRest>>
answererVars == <<rpc, rview, rdue, rseq, accepted>>
vars == <<mailboxVars, askerVars, answererVars>>

AnswererWaiting == {"wpoll", "wclosed", "wlast", "wack", "wremove"}

\* The bound on the thread: a command that writes starts only while there is
\* room for its messages (two for a follow-up) and the other party's one.
RoomLeft == Len(msgs) + 3 <= MaxMsgs

Init ==
    /\ MailboxInit
    /\ apc = "idle" /\ cmd = "none" /\ view = {} /\ outcome = "none"
    /\ after = 0 /\ aseq = 0 /\ deliv = "none"
    /\ handed = << >> /\ prompted = FALSE /\ retyped = {}
    /\ rpc = "idle" /\ rview = {} /\ rdue = 0 /\ rseq = 0 /\ accepted = {}

-----------------------------------------------------------------------------
(* The asker: starting a command *)

At(p) == apc = p
Goto(p) == apc' = p /\ UNCHANGED <<outcome, view>>
Ends(o) == apc' = "idle" /\ outcome' = o /\ view' = {}

\* Where a command goes once its prompt is on its way: the CLI waits for the
\* next answer, the MCP tools return a ticket.
WaitOrReturn == IF cmd \in {"new", "follow"} THEN Goto("poll") ELSE Ends("sent")

\* startAsk: store.Create, then the dispatch.
AskNew(c) ==
    /\ At("idle") /\ c \in Commands \cap {"new", "mcpnew"}
    /\ expires = 0
    /\ expires' = now + AskTimeout + Allowance
    /\ cmd' = c /\ apc' = "dispatch" /\ outcome' = "none"
    /\ after' = 0 /\ aseq' = 0 /\ deliv' = "pane"
    /\ UNCHANGED <<msgs, closed, waiter, acks, cursor, now, view, handed,
                   prompted, retyped, answererVars>>

\* The commands on an existing question start by reading it.
StartOnThread(c) ==
    /\ At("idle") /\ c \in Commands \ {"new", "mcpnew"}
    /\ expires # 0
    /\ c \in {"follow", "mcpfollow"} => RoomLeft
    /\ cmd' = c /\ apc' = "load" /\ outcome' = "none"
    /\ after' = 0 /\ aseq' = 0 /\ deliv' = "none"
    /\ UNCHANGED <<mailboxVars, view, handed, prompted, retyped, answererVars>>

\* store.Load reads the messages first and the closed marker after them.
LoadMessages ==
    /\ At("load")
    /\ view' = Readable /\ apc' = "loaded"
    /\ UNCHANGED <<mailboxVars, outcome, askerRest, answererVars>>

\* deliverAskFollowUp after its Load: a closed question is refused.
LoadedFollowUp ==
    /\ At("loaded") /\ cmd \in {"follow", "mcpfollow"}
    /\ after' = LastAnswer(view)
    /\ IF closed = "open" THEN Goto("waiter") ELSE Ends("closed")
    /\ UNCHANGED <<mailboxVars, cmd, aseq, deliv, handed, prompted, retyped,
                   answererVars>>

\* runAskAwait after its Load: wait after the last answer handed out, or,
\* without a cursor, after the last one there is.  A closed question is only
\* waited on when it holds an answer not handed out yet.
LoadedAwait ==
    /\ At("loaded") /\ cmd = "await"
    /\ after' = IF cursor = 0 THEN LastAnswer(view) ELSE cursor
    /\ \/ closed = "open" /\ Goto("extend")
       \/ closed # "open" /\ LastAnswer(view) > after' /\ Goto("poll")
       \/ closed # "open" /\ LastAnswer(view) <= after' /\ Ends("closed")
    /\ UNCHANGED <<mailboxVars, cmd, aseq, deliv, handed, prompted, retyped,
                   answererVars>>

\* Waiting again pushes the deadline out: before the wait of --await, after
\* the one of get_answer.
ExtendDeadline ==
    /\ At("extend")
    /\ Extend(now + AskTimeout)
    /\ IF cmd = "await" THEN Goto("poll") ELSE Ends("pending")
    /\ UNCHANGED <<msgs, closed, waiter, acks, cursor, now, askerRest,
                   answererVars>>

\* ask --thread --close
LoadedClose ==
    /\ At("loaded") /\ cmd = "close"
    /\ Close("asker")
    /\ Ends(IF closed = "open" THEN "closed" ELSE "failed")
    /\ UNCHANGED <<msgs, waiter, acks, expires, cursor, now, askerRest,
                   answererVars>>

-----------------------------------------------------------------------------
(* The asker: delivering a prompt *)

\* dispatch.Run types the prompt into the pane and confirms that it was
\* submitted, or fails, before typing or after.  A failed new ask cancels the
\* question; a failed follow-up leaves it open.
TypePrompt ==
    /\ At("dispatch")
    /\ prompted' = TRUE
    /\ retyped' = IF aseq # 0 THEN retyped \cup {aseq} ELSE retyped
    /\ Goto("pcheck")
    /\ UNCHANGED <<mailboxVars, cmd, after, aseq, deliv, handed, answererVars>>

DispatchFails ==
    /\ At("dispatch") \/ (At("pcheck") /\ deliv = "pane")
    /\ Ends("failed")
    /\ IF cmd \in {"new", "mcpnew"} THEN Close("asker") ELSE UNCHANGED closed
    /\ UNCHANGED <<msgs, waiter, acks, expires, cursor, now, askerRest,
                   answererVars>>

\* HasWaiter: a marker that counts means mailbox delivery.  The second call,
\* after a mailbox post, comes askWaiterRecheckDelay later: three polls of a
\* waiter that is still there to see the post, and longer than a write takes.
HasWaiter ==
    /\ At("waiter")
    /\ (RecheckIsTimely /\ deliv = "mailbox")
          => ~(rpc \in AnswererWaiting \cup {"rwrite"} /\ rseq < aseq)
    /\ \/ waiter.proc = "none" /\ Goto("nowaiter")
       \/ waiter.proc # "none" /\ ~WaiterCounts /\ Goto("stale")
       \/ WaiterCounts /\ deliv = "mailbox" /\ WaitOrReturn
       \/ WaiterCounts /\ deliv # "mailbox" /\ Goto("pcheck")
    /\ deliv' = IF WaiterCounts THEN "mailbox" ELSE deliv
    /\ UNCHANGED <<mailboxVars, cmd, after, aseq, handed, prompted, retyped,
                   answererVars>>

\* HasWaiter removes the marker it found stale, whichever is there by now.
RemoveStaleWaiter ==
    /\ At("stale")
    /\ waiter' = NoWaiter
    /\ Goto("nowaiter")
    /\ UNCHANGED <<msgs, closed, acks, expires, cursor, now, askerRest,
                   answererVars>>

\* Mutant: a missing marker is taken for a waiter that gave up.
NoWaiterUnacked ==
    /\ At("nowaiter")
    /\ IF deliv = "none" THEN Goto("dispatch") /\ deliv' = "pane"
                         ELSE Goto("recheck") /\ UNCHANGED deliv
    /\ UNCHANGED <<mailboxVars, cmd, after, aseq, handed, prompted, retyped,
                   answererVars>>

\* No waiter: dispatch into the pane, unless this is the recheck and the
\* follow-up was acknowledged ...
NoWaiterFound ==
    /\ At("nowaiter")
    /\ \/ deliv = "none" /\ Goto("dispatch")
       \/ deliv = "mailbox" /\ aseq \in acks /\ WaitOrReturn
       \/ deliv = "mailbox" /\ aseq \notin acks /\ Goto("recheck")
    /\ deliv' = IF deliv = "none" THEN "pane" ELSE deliv
    /\ UNCHANGED <<mailboxVars, cmd, after, aseq, handed, prompted, retyped,
                   answererVars>>

\* ... or was overtaken by an answer or a close.
Recheck ==
    /\ At("recheck")
    /\ IF LastAnswer(Readable) # after \/ closed # "open"
       THEN WaitOrReturn /\ UNCHANGED deliv
       ELSE Goto("dispatch") /\ deliv' = "pane"
    /\ UNCHANGED <<mailboxVars, cmd, after, aseq, handed, prompted, retyped,
                   answererVars>>

\* Post by the asker, up to the open check.  A question closed meanwhile is
\* tolerated for a prompt that was typed already, and an error for the mailbox.
PostCheck ==
    /\ At("pcheck")
    /\ \/ closed = "open" /\ Goto("pcreate")
       \/ closed # "open" /\ deliv = "pane" /\ WaitOrReturn
       \/ closed # "open" /\ deliv = "mailbox" /\ Ends("failed")
    /\ UNCHANGED <<mailboxVars, askerRest, answererVars>>

PostCreate ==
    /\ At("pcreate")
    /\ CreateMessage("asker", "prompt", deliv,
                     IF cmd \in {"follow", "mcpfollow"}
                     THEN now + AskTimeout + Allowance ELSE 0)
    /\ aseq' = Len(msgs) + 1
    /\ Goto("pwrite")
    /\ UNCHANGED <<closed, waiter, acks, expires, cursor, now, cmd, after,
                   deliv, handed, prompted, retyped, answererVars>>

\* Mutant: a mailbox post is not rechecked.
PostWriteTrusted ==
    /\ At("pwrite")
    /\ FinishMessage(aseq)
    /\ WaitOrReturn
    /\ UNCHANGED <<closed, waiter, acks, expires, cursor, now, askerRest,
                   answererVars>>

PostWrite ==
    /\ At("pwrite")
    /\ FinishMessage(aseq)
    /\ IF deliv = "mailbox" THEN Goto("waiter") ELSE WaitOrReturn
    /\ UNCHANGED <<closed, waiter, acks, expires, cursor, now, askerRest,
                   answererVars>>

-----------------------------------------------------------------------------
(* The asker: waiting for an answer *)

\* AwaitAnswer's loop reads the messages ...
PollMessages ==
    /\ At("poll")
    /\ view' = Readable
    /\ apc' = IF Answers(Readable, after) # {} THEN "mark" ELSE "polled"
    /\ UNCHANGED <<mailboxVars, outcome, askerRest, answererVars>>

\* ... and, when none is an answer, the closed marker ...
PollFindsClosed ==
    /\ At("polled") /\ closed # "open"
    /\ Ends("closed")
    /\ UNCHANGED <<mailboxVars, askerRest, answererVars>>

PollAgain ==
    /\ At("polled") /\ closed = "open" /\ ~PastDeadline(expires, view)
    /\ Goto("poll")
    /\ UNCHANGED <<mailboxVars, askerRest, answererVars>>

\* ... the deadline, and the context of the wait.  closeOrReadAnswer closes
\* first (a close by the answerer may just have won) ...
PollGivesUp ==
    /\ At("polled")
    /\ Close("asker")
    /\ Goto("lastread")
    /\ UNCHANGED <<msgs, waiter, acks, expires, cursor, now, askerRest,
                   answererVars>>

\* Mutant: gives up without the read after the close.
LastReadSkipped ==
    /\ At("lastread")
    /\ Ends(IF closed = "answerer" THEN "closed" ELSE "timeout")
    /\ UNCHANGED <<mailboxVars, askerRest, answererVars>>

\* ... and reads once more after it.
LastRead ==
    /\ At("lastread")
    /\ IF Answers(Readable, after) # {}
       THEN view' = Readable /\ apc' = "mark" /\ UNCHANGED outcome
       ELSE Ends(IF closed = "answerer" THEN "closed" ELSE "timeout")
    /\ UNCHANGED <<mailboxVars, askerRest, answererVars>>

\* pollAskAnswer (get_answer): the first answer past the cursor, or else the
\* state of the thread ...
PollMcp ==
    /\ At("loaded") /\ cmd = "poll"
    /\ after' = cursor
    /\ \/ Answers(view, cursor) # {} /\ Goto("mark")
       \/ /\ Answers(view, cursor) = {}
          /\ closed # "open" \/ LastIsFinal(view)
          /\ Ends("closed")
       \/ /\ Answers(view, cursor) = {} /\ closed = "open" /\ ~LastIsFinal(view)
          /\ IF PastDeadline(expires, view) THEN Ends("expired") ELSE Goto("between")
    /\ UNCHANGED <<mailboxVars, cmd, aseq, deliv, handed, prompted, retyped,
                   answererVars>>

\* ... which it reads again until its own wait elapses or its caller goes.
PollMcpAgain ==
    /\ At("between")
    /\ Goto("load") \/ Ends("failed")
    /\ UNCHANGED <<mailboxVars, askerRest, answererVars>>


PollMcpElapses ==
    /\ At("between")
    /\ Goto("extend")
    /\ UNCHANGED <<mailboxVars, askerRest, answererVars>>

\* The cursor is moved before the answer is printed or returned.
Mark ==
    /\ At("mark")
    /\ MarkAnswerRead(Min(Answers(view, after)))
    /\ Goto("print")
    /\ UNCHANGED <<msgs, closed, waiter, acks, expires, now, askerRest,
                   answererVars>>

PrintAnswer ==
    /\ At("print")
    /\ handed' = Append(handed, Min(Answers(view, after)))
    /\ Ends("answered")
    /\ UNCHANGED <<mailboxVars, cmd, after, aseq, deliv, prompted, retyped,
                   answererVars>>

KillAsker ==
    /\ "asker" \in Kills /\ apc # "idle"
    /\ apc = "pwrite" => KillMidWrite
    /\ Ends("killed")
    /\ UNCHANGED <<mailboxVars, askerRest, answererVars>>

-----------------------------------------------------------------------------
(* The answerer: tmact reply *)

Reply ==
    /\ rpc = "idle" /\ prompted /\ RoomLeft
    /\ rpc' = "rload"
    /\ UNCHANGED <<mailboxVars, askerVars, rview, rdue, rseq, accepted>>

\* Post by the answerer: the request and the messages are read ...
ReplyLoad ==
    /\ rpc = "rload"
    /\ rview' = Readable /\ rdue' = expires /\ rpc' = "rcheck"
    /\ UNCHANGED <<mailboxVars, askerVars, rseq, accepted>>

\* ... a closed one is refused, one past its deadline is closed and refused ...
ReplyCheck ==
    /\ rpc = "rcheck"
    /\ rview' = {} /\ rdue' = 0
    /\ \/ closed # "open" /\ rpc' = "idle" /\ UNCHANGED closed
       \/ /\ closed = "open" /\ PastDeadline(rdue, rview)
          /\ Close("asker") /\ rpc' = "idle"
       \/ /\ closed = "open" /\ ~PastDeadline(rdue, rview)
          /\ rpc' = "rcreate" /\ UNCHANGED closed
    /\ UNCHANGED <<msgs, waiter, acks, expires, cursor, now, askerVars, rseq,
                   accepted>>

\* ... and the message, a plain reply, --wait or --final, is the next file.
ReplyCreate(kind) ==
    /\ rpc = "rcreate"
    /\ CreateMessage("answerer", kind, "mailbox", 0)
    /\ rseq' = Len(msgs) + 1 /\ rpc' = "rwrite"
    /\ UNCHANGED <<closed, waiter, acks, expires, cursor, now, askerVars,
                   rview, rdue, accepted>>

ReplyWrite ==
    /\ rpc = "rwrite"
    /\ FinishMessage(rseq)
    /\ rpc' = "rrecheck"
    /\ UNCHANGED <<closed, waiter, acks, expires, cursor, now, askerVars,
                   rview, rdue, rseq, accepted>>

\* The asker may have given up since the check: the message counts as accepted
\* only if the thread is still open after it was written.
ReplyRecheck ==
    /\ rpc = "rrecheck"
    /\ \/ closed # "open" /\ rpc' = "idle" /\ UNCHANGED accepted
       \/ /\ closed = "open"
          /\ accepted' = accepted \cup {rseq}
          /\ rpc' = CASE msgs[rseq].kind = "final" -> "rclose"
                      [] msgs[rseq].kind = "question" -> "wregister"
                      [] OTHER -> "idle"
    /\ UNCHANGED <<mailboxVars, askerVars, rview, rdue, rseq>>

\* reply --final
ReplyClose ==
    /\ rpc = "rclose"
    /\ Close("answerer") /\ rpc' = "idle"
    /\ UNCHANGED <<msgs, waiter, acks, expires, cursor, now, askerVars,
                   rview, rdue, rseq, accepted>>

\* reply --wait: AwaitPrompt advertises the waiter, polls the thread ...
WaitRegister ==
    /\ rpc = "wregister"
    /\ waiter' = [proc |-> "live", until |-> now + ReplyWait]
    /\ rpc' = "wpoll"
    /\ UNCHANGED <<msgs, closed, acks, expires, cursor, now, askerVars,
                   rview, rdue, rseq, accepted>>

WaitPoll ==
    /\ rpc = "wpoll"
    /\ rpc' = IF FollowUps(Readable, rseq) # {} THEN "wack" ELSE "wclosed"
    /\ UNCHANGED <<mailboxVars, askerVars, rview, rdue, rseq, accepted>>

WaitClosed ==
    /\ rpc = "wclosed"
    /\ rpc' = IF closed # "open" THEN "wremove" ELSE "wpoll"
    /\ UNCHANGED <<mailboxVars, askerVars, rview, rdue, rseq, accepted>>

\* Mutant: the end of the wait is only one more poll.
WaitForever ==
    /\ rpc = "wclosed" /\ closed = "open"
    /\ rpc' = "wpoll"
    /\ UNCHANGED <<mailboxVars, askerVars, rview, rdue, rseq, accepted>>

\* ... and reads it once more when its own wait is over.
WaitGivesUp ==
    /\ rpc = "wclosed" /\ closed = "open"
    /\ rpc' = "wlast"
    /\ UNCHANGED <<mailboxVars, askerVars, rview, rdue, rseq, accepted>>

WaitLast ==
    /\ rpc = "wlast"
    /\ rpc' = IF FollowUps(Readable, rseq) # {} THEN "wack" ELSE "wremove"
    /\ UNCHANGED <<mailboxVars, askerVars, rview, rdue, rseq, accepted>>

\* Mutant: the acknowledgement names the next message.
WaitAckNext ==
    /\ rpc = "wack"
    /\ acks' = acks \cup {Min(FollowUps(Readable, rseq)) + 1}
    /\ rpc' = "wremove"
    /\ UNCHANGED <<msgs, closed, waiter, expires, cursor, now, askerVars,
                   rview, rdue, rseq, accepted>>

\* The follow-up it returns is acknowledged before the marker is removed.
WaitAck ==
    /\ rpc = "wack"
    /\ acks' = acks \cup {Min(FollowUps(Readable, rseq))}
    /\ rpc' = "wremove"
    /\ UNCHANGED <<msgs, closed, waiter, expires, cursor, now, askerVars,
                   rview, rdue, rseq, accepted>>

WaitRemove ==
    /\ rpc = "wremove"
    /\ waiter' = NoWaiter /\ rpc' = "idle"
    /\ UNCHANGED <<msgs, closed, acks, expires, cursor, now, askerVars,
                   rview, rdue, rseq, accepted>>

\* A killed waiter leaves its marker, whose process is gone.
KillAnswerer ==
    /\ "answerer" \in Kills /\ rpc # "idle"
    /\ rpc = "rwrite" => KillMidWrite
    /\ waiter' = IF waiter.proc = "live" THEN [waiter EXCEPT !.proc = "dead"]
                                         ELSE waiter
    /\ rpc' = "idle" /\ rview' = {} /\ rdue' = 0
    /\ UNCHANGED <<msgs, closed, acks, expires, cursor, now, askerVars, rseq,
                   accepted>>

-----------------------------------------------------------------------------
Tick ==
    /\ now < MaxNow
    /\ now' = now + 1
    /\ UNCHANGED <<msgs, closed, waiter, acks, expires, cursor, askerVars,
                   answererVars>>

AskerStep ==
    \/ LoadMessages \/ LoadedFollowUp \/ LoadedAwait \/ ExtendDeadline
    \/ LoadedClose \/ TypePrompt \/ DispatchFails
    \/ HasWaiter \/ RemoveStaleWaiter \/ NoWaiterFound \/ Recheck
    \/ PostCheck \/ PostCreate \/ PostWrite
    \/ PollMessages \/ PollFindsClosed \/ PollAgain \/ PollGivesUp \/ LastRead
    \/ PollMcp \/ PollMcpAgain \/ PollMcpElapses \/ Mark \/ PrintAnswer

AnswererStep ==
    \/ ReplyLoad \/ ReplyCheck \/ ReplyWrite \/ ReplyRecheck \/ ReplyClose
    \/ \E kind \in Kinds \ {"prompt"} : ReplyCreate(kind)
    \/ WaitRegister \/ WaitPoll \/ WaitClosed \/ WaitGivesUp
    \/ WaitLast \/ WaitAck \/ WaitRemove

Next ==
    \/ \E c \in Commands : AskNew(c) \/ StartOnThread(c)
    \/ Reply
    \/ AskerStep \/ AnswererStep
    \/ KillAsker \/ KillAnswerer \/ Tick

Spec == Init /\ [][Next]_vars

\* A process that runs takes its next step, and a wait does not poll forever:
\* its context ends.  Nobody has to start a command or to reply, and the clock
\* may stand still.
Fairness ==
    /\ WF_vars(AskerStep) /\ WF_vars(AnswererStep)
    /\ SF_vars(PollGivesUp) /\ SF_vars(PollMcpElapses) /\ SF_vars(WaitGivesUp)
FairSpec == Spec /\ Fairness

-----------------------------------------------------------------------------
(* Properties *)

\* Every variable stays in its type, in particular the acknowledgements and
\* the read cursor name messages that exist.
TypeOK ==
    /\ MailboxTypeOK
    /\ apc \in {"idle", "load", "loaded", "extend", "dispatch", "waiter",
                "stale", "nowaiter", "recheck", "pcheck", "pcreate", "pwrite",
                "poll", "polled", "lastread", "between", "mark", "print"}
    /\ cmd \in Commands \cup {"none"}
    /\ after \in Nat /\ view \subseteq 1..Len(msgs) /\ aseq \in 0..Len(msgs)
    /\ deliv \in Deliveries \cup {"none"}
    /\ outcome \in {"none", "sent", "answered", "closed", "timeout", "expired",
                    "pending", "failed", "killed"}
    /\ handed \in Seq(Nat)
    /\ prompted \in BOOLEAN /\ retyped \subseteq 1..Len(msgs)
    /\ rpc \in AnswererWaiting \cup {"idle", "rload", "rcheck", "rcreate",
                                     "rwrite", "rrecheck", "rclose", "wregister"}
    /\ rview \subseteq 1..Len(msgs) /\ rdue \in Nat /\ rseq \in 0..Len(msgs)
    /\ accepted \subseteq 1..Len(msgs)

\* A wait that reports a timeout has missed nothing: no reply that the answerer
\* was told had been accepted is waiting after the answer the asker knew of.
\* The asker closes and then reads; the answerer writes and then looks for the
\* close (closeOrReadAnswer against the end of Post).
TimeoutMeansNoAcceptedReply ==
    outcome = "timeout" => \A s \in accepted : s <= after

\* The same promise for a wait that reports that the question was closed.
ClosedMeansNoAcceptedReply ==
    (outcome = "closed" /\ cmd = "new") => \A s \in accepted : s <= after

\* The answers come out in the order they were written and none comes twice,
\* whichever commands fetch them and whichever of them are killed.
RepliesHandedInOrder ==
    \A i, j \in 1..Len(handed) : i < j => handed[i] < handed[j]

\* A follow-up is not given to the answerer twice: what its waiter took from
\* the mailbox is never typed into the pane as well.
NoDoubleDelivery == retyped \cap acks = {}

\* Either way, a message reaches the other side once, and in order.
MessagesArriveOnce == RepliesHandedInOrder /\ NoDoubleDelivery

\* An asker that settled for the mailbox copy of a follow-up waits for somebody:
\* the follow-up was taken, or overtaken by a reply or a close.
NotStranded ==
    (apc \in {"poll", "polled"} /\ deliv = "mailbox") =>
        \/ aseq \in acks
        \/ \E i \in 1..Len(msgs) : i > after /\ msgs[i].from = "answerer"
        \/ closed # "open"

\* A waiting asker gets the reply that the answerer was told was accepted, even
\* when its wait ends first; only a close by the answerer may come between.
WaitingAskerIsAnswered ==
    (apc \in {"poll", "polled", "lastread"} /\ \E s \in accepted : s > after)
        ~> (apc = "mark" \/ closed = "answerer")

\* A command on either side returns, whatever the other side does.
CommandsReturn ==
    /\ (apc # "idle") ~> (apc = "idle")
    /\ (rpc # "idle") ~> (rpc = "idle")
=============================================================================
