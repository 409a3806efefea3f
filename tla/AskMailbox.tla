----------------------------- MODULE AskMailbox -----------------------------
(***************************************************************************)
(* The question directory of internal/askreply: one thread of messages in  *)
(* numbered files, a closed marker, a waiter marker, acknowledgements, the *)
(* request deadline and the asker's read cursor.  Every operator below is  *)
(* one file operation or one read of the store; the processes that call    *)
(* them, and the order they call them in, are in module AskReply.          *)
(*                                                                         *)
(* A message file is created with O_EXCL, is visible while it is empty or  *)
(* half written (done = FALSE), and is complete after its writer's fsync.  *)
(* No message file is ever removed, so the next free number is always      *)
(* Len(msgs) + 1 and the exclusive create is an Append.  Texts, pane names *)
(* and the request's metadata are left out: no decision reads them.        *)
(***************************************************************************)
EXTENDS Naturals, Sequences, FiniteSetsExt

CONSTANTS
    MaxMsgs,    \* bound on the messages of the thread
    MaxNow      \* bound on the clock

ASSUME MailboxAssumption == MaxMsgs \in Nat /\ MaxNow \in Nat

VARIABLES
    msgs,       \* the message files, msg-000001.json first
    closed,     \* who wrote closed.json, or "open" when there is none
    waiter,     \* waiter.json: its process ("none": no file) and its deadline
    acks,       \* the numbers of the ack files
    expires,    \* ExpiresAt of request.json; 0 before the question exists
    cursor,     \* asker-read.json, 0 when there is none
    now         \* the clock every process reads

mailboxVars == <<msgs, closed, waiter, acks, expires, cursor, now>>

Roles == {"asker", "answerer"}
Kinds == {"prompt", "answer", "question", "final"}
Deliveries == {"mailbox", "pane"}

Message == [from : Roles, kind : Kinds, delivery : Deliveries,
            until : Nat, done : BOOLEAN]

NoWaiter == [proc |-> "none", until |-> 0]

MailboxInit ==
    /\ msgs = << >>
    /\ closed = "open"
    /\ waiter = NoWaiter
    /\ acks = {}
    /\ expires = 0
    /\ cursor = 0
    /\ now = 0

MailboxTypeOK ==
    /\ msgs \in Seq(Message)
    /\ closed \in {"open"} \cup Roles
    /\ waiter \in [proc : {"none", "live", "dead"}, until : Nat]
    /\ acks \subseteq 1..Len(msgs)
    /\ expires \in Nat
    /\ cursor \in 0..Len(msgs)
    /\ now \in 0..MaxNow

-----------------------------------------------------------------------------
(* Reads *)

\* readMessages stops at the first file that is still being written.
Readable == {n \in 1..Len(msgs) : \A i \in 1..n : msgs[i].done}

\* nextFrom's candidates among the messages of a read: those of `who`
\* numbered above `after` that travelled through `deliveries`.
From(view, who, after, deliveries) ==
    {i \in view : /\ i > after
                  /\ msgs[i].from = who
                  /\ msgs[i].delivery \in deliveries}

Answers(view, after) == From(view, "answerer", after, Deliveries)
FollowUps(view, after) == From(view, "asker", after, {"mailbox"})

\* Thread.LastSeq(RoleAnswerer)
LastAnswer(view) == Max(Answers(view, 0) \cup {0})

\* lastAnswerKind(thread) == KindFinal
LastIsFinal(view) ==
    LastAnswer(view) # 0 /\ msgs[LastAnswer(view)].kind = "final"

\* The effective deadline has passed: the request's own, as it was read with
\* the messages, extended by the WaitUntil of every message of the read.
PastDeadline(due, view) == due <= now /\ \A i \in view : msgs[i].until <= now

-----------------------------------------------------------------------------
(* Writes *)

\* The exclusive create of the next message file, still empty.
CreateMessage(who, kind, delivery, until) ==
    /\ Len(msgs) < MaxMsgs
    /\ msgs' = Append(msgs, [from |-> who, kind |-> kind, delivery |-> delivery,
                             until |-> until, done |-> FALSE])

\* The write and fsync that complete message file i.
FinishMessage(i) == msgs' = [msgs EXCEPT ![i].done = TRUE]

\* The closed marker is created exclusively: the first writer wins.
Close(who) == closed' = IF closed = "open" THEN who ELSE closed

\* Extend only ever moves the request's deadline forward.
Extend(until) == expires' = IF until > expires THEN until ELSE expires


\* MarkAnswerRead ignores a number the cursor has passed.
MarkAnswerRead(i) == cursor' = IF i <= cursor THEN cursor ELSE i

\* A marker counts only while its process runs and its deadline is ahead.
WaiterCounts == waiter.proc = "live" /\ now < waiter.until
=============================================================================
