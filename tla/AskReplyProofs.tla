--------------------------- MODULE AskReplyProofs ---------------------------
(***************************************************************************)
(* Proofs about AskReply for every bound, every set of commands and every  *)
(* set of kills, as long as no kill leaves a message file half written.    *)
(* The invariant IInv says who may hold an unfinished message file, which  *)
(* is what makes a read of the thread complete up to the answers that its  *)
(* writer was told were accepted.  SeenInv says what the asker knows of    *)
(* the replies, and DeliveryInv how a follow-up travels, from which it     *)
(* follows that messages arrive once and that nobody is stranded.          *)
(***************************************************************************)
EXTENDS AskReply, MinMaxLemmas, TLAPS

-----------------------------------------------------------------------------
(* The reads and writes of the mailbox *)

\* A read sees existing messages, and the last answer of a read is a number of
\* the thread.
LEMMA ReadsInRange ==
    ASSUME MailboxTypeOK
    PROVE  /\ Readable \subseteq 1..Len(msgs)
           /\ \A v \in SUBSET (1..Len(msgs)) :
                /\ LastAnswer(v) \in 0..Len(msgs) /\ LastAnswer(v) \in Nat
                /\ \A a \in Nat :
                     /\ Answers(v, a) # {} => Min(Answers(v, a)) \in 1..Len(msgs)
                     /\ FollowUps(v, a) # {} => Min(FollowUps(v, a)) \in 1..Len(msgs)
<1>1. Len(msgs) \in Nat
  BY DEF MailboxTypeOK
<1>2. Readable \subseteq 1..Len(msgs)
  BY DEF Readable
<1>3. ASSUME NEW v \in SUBSET (1..Len(msgs))
      PROVE  LastAnswer(v) \in 0..Len(msgs)
  <2>1. Answers(v, 0) \subseteq v
    BY DEF Answers, From
  <2>2. Answers(v, 0) \cup {0} \subseteq 0..Len(msgs)
    <3>1. \A i \in 1..Len(msgs) : i \in 0..Len(msgs)
      OBVIOUS
    <3>2. 0 \in 0..Len(msgs)
      BY <1>1
    <3>. QED
      BY <2>1, <3>1, <3>2
  <2>3. Max(Answers(v, 0) \cup {0}) \in Answers(v, 0) \cup {0}
    BY <1>1, <2>2, MaxIn
  <2>. QED
    BY <2>2, <2>3 DEF LastAnswer
<1>4. ASSUME NEW S \in SUBSET (1..Len(msgs)), S # {}
      PROVE  Min(S) \in 1..Len(msgs)
  <2>1. S \subseteq Nat
    BY <1>1
  <2>. QED
    BY <1>4, <2>1, MinIn
<1>5. ASSUME NEW v \in SUBSET (1..Len(msgs)), NEW a \in Nat
      PROVE  /\ Answers(v, a) # {} => Min(Answers(v, a)) \in 1..Len(msgs)
             /\ FollowUps(v, a) # {} => Min(FollowUps(v, a)) \in 1..Len(msgs)
  <2>1. Answers(v, a) \subseteq v /\ FollowUps(v, a) \subseteq v
    BY DEF Answers, FollowUps, From
  <2>. QED
    BY <1>4, <2>1
<1>6. 0..Len(msgs) \subseteq Nat
  BY <1>1
<1>. QED
  BY <1>2, <1>3, <1>5, <1>6

\* A new message file is the last one and unfinished; the others stay.
LEMMA Created ==
    ASSUME msgs \in Seq(Message), NEW who \in Roles, NEW kind \in Kinds,
           NEW delivery \in Deliveries, NEW until \in Nat,
           CreateMessage(who, kind, delivery, until)
    PROVE  /\ msgs' \in Seq(Message) /\ Len(msgs') = Len(msgs) + 1
           /\ \A i \in 1..Len(msgs) : msgs'[i] = msgs[i]
           /\ msgs'[Len(msgs) + 1].from = who
BY DEF CreateMessage, Message

\* Finishing a message file changes nothing else of the thread.
LEMMA Finished ==
    ASSUME msgs \in Seq(Message), NEW n \in 1..Len(msgs), FinishMessage(n)
    PROVE  /\ msgs' \in Seq(Message) /\ Len(msgs') = Len(msgs)
           /\ \A i \in 1..Len(msgs) :
                /\ msgs'[i].from = msgs[i].from
                /\ msgs'[i].delivery = msgs[i].delivery
                /\ msgs[i].done => msgs'[i].done
                /\ ~msgs'[i].done => ~msgs[i].done /\ i # n
<1>1. msgs[n] \in Message
  OBVIOUS
<1>2. PICK m \in Message : m = [msgs[n] EXCEPT !.done = TRUE]
  BY <1>1 DEF Message
<1>3. msgs' = [msgs EXCEPT ![n] = m]
  BY <1>2 DEF FinishMessage
<1>4. msgs' \in Seq(Message) /\ Len(msgs') = Len(msgs)
  BY <1>3
<1>5. m.from = msgs[n].from /\ m.delivery = msgs[n].delivery /\ m.done
  BY <1>1, <1>2 DEF Message
<1>6. ASSUME NEW i \in 1..Len(msgs)
      PROVE  /\ msgs'[i].from = msgs[i].from
             /\ msgs'[i].delivery = msgs[i].delivery
             /\ msgs[i].done => msgs'[i].done
             /\ ~msgs'[i].done => ~msgs[i].done /\ i # n
  <2>1. CASE i = n
    <3>1. msgs'[i] = m
      BY <1>3, <2>1
    <3>. QED
      BY <1>1, <1>5, <2>1, <3>1 DEF Message
  <2>2. CASE i # n
    <3>1. msgs'[i] = msgs[i]
      BY <1>3, <2>2
    <3>2. msgs[i] \in Message
      OBVIOUS
    <3>3. msgs[i].done \in BOOLEAN
      BY <3>2 DEF Message
    <3>. QED
      BY <2>2, <3>1, <3>3
  <2>. QED
    BY <2>1, <2>2
<1>. QED
  BY <1>4, <1>6

-----------------------------------------------------------------------------
(* The inductive invariant *)

\* What a program counter says about the local variables read after it.
Located ==
    /\ apc \in {"mark", "print"} => Answers(view, after) # {}
    /\ apc \in {"dispatch", "pcheck", "pcreate"} => deliv \in Deliveries
    /\ apc = "pwrite" => aseq # 0
    /\ rpc = "wack" => FollowUps(Readable, rseq) # {}
    /\ rpc \in {"rwrite", "rrecheck"} => rseq # 0
    /\ apc # "idle" => outcome = "none"

\* An unfinished message file has a writer that is still at it.
Writers ==
    /\ \A i \in 1..Len(msgs) :
         ~msgs[i].done => \/ rpc = "rwrite" /\ i = rseq
                          \/ apc = "pwrite" /\ i = aseq
    /\ apc = "pwrite" => msgs[aseq].from = "asker"
    /\ rpc \in {"rwrite", "rrecheck"} => msgs[rseq].from = "answerer"

\* An accepted message is a reply, and older than the one being written.
Accepted ==
    /\ \A s \in accepted : msgs[s].from = "answerer"
    /\ rpc = "rwrite" => \A s \in accepted : s < rseq

\* The last read comes after the close, and so does a timeout.
ClosedBefore == (apc = "lastread" \/ outcome = "timeout") => closed # "open"

IInv == /\ TypeOK /\ Located /\ Writers /\ Accepted /\ ClosedBefore
        /\ TimeoutMeansNoAcceptedReply

\* Steps that add or finish a message leave everything that could be read.
LEMMA ReadsGrow ==
    ASSUME IInv, Len(msgs') \in Nat, Len(msgs) <= Len(msgs'),
           \A i \in 1..Len(msgs) :
              /\ msgs'[i].from = msgs[i].from
              /\ msgs'[i].delivery = msgs[i].delivery
              /\ msgs[i].done => msgs'[i].done
    PROVE  /\ Readable \subseteq Readable'
           /\ UNCHANGED <<view, after>>
                => Answers(view, after)' = Answers(view, after)
           /\ UNCHANGED rseq
                => FollowUps(Readable, rseq) \subseteq FollowUps(Readable, rseq)'
<1>. USE DEF IInv, TypeOK, MailboxTypeOK
<1>1. Len(msgs) \in Nat
  OBVIOUS
<1>2. Readable \subseteq Readable'
  <2>1. SUFFICES ASSUME NEW n \in Readable
                 PROVE  n \in Readable'
    OBVIOUS
  <2>2. n \in 1..Len(msgs) /\ n \in 1..Len(msgs') /\ \A i \in 1..n : msgs[i].done
    BY <1>1 DEF Readable
  <2>3. \A i \in 1..n : i \in 1..Len(msgs) /\ msgs'[i].done
    BY <1>1, <2>2
  <2>. QED
    BY <2>2, <2>3 DEF Readable
<1>3. UNCHANGED <<view, after>> => Answers(view, after)' = Answers(view, after)
  BY DEF Answers, From
<1>4. UNCHANGED rseq
        => FollowUps(Readable, rseq) \subseteq FollowUps(Readable, rseq)'
  <2>1. Readable \subseteq 1..Len(msgs)
    BY ReadsInRange
  <2>. QED
    BY <1>2, <2>1 DEF FollowUps, From
<1>. QED
  BY <1>2, <1>3, <1>4

\* Steps that leave the thread's messages alone leave its reads alone.
LEMMA SameReads ==
    ASSUME UNCHANGED msgs
    PROVE  /\ Readable' = Readable
           /\ \A v, a : Answers(v, a)' = Answers(v, a)
           /\ \A v, a : FollowUps(v, a)' = FollowUps(v, a)
BY DEF Readable, Answers, FollowUps, From

\* A message that an accepted reply was written to is read by anyone who is
\* not writing: no unfinished file comes before it.
LEMMA AcceptedIsReadable ==
    ASSUME IInv, apc # "pwrite", NEW s \in accepted
    PROVE  s \in Readable /\ (s > after => s \in Answers(Readable, after))
<1>. USE DEF IInv, TypeOK, MailboxTypeOK
<1>1. s \in 1..Len(msgs) /\ Len(msgs) \in Nat /\ rseq \in Nat
  OBVIOUS
<1>2. \A i \in 1..s : msgs[i].done
  <2>1. TAKE i \in 1..s
  <2>2. i \in 1..Len(msgs)
    BY <1>1
  <2>3. ~(rpc = "rwrite" /\ i = rseq)
    BY <1>1, <2>2 DEF Accepted
  <2>. QED
    BY <2>2, <2>3 DEF Writers
<1>3. s \in Readable
  BY <1>1, <1>2 DEF Readable
<1>4. msgs[s] \in Message
  BY <1>1
<1>5. msgs[s].from = "answerer" /\ msgs[s].delivery \in Deliveries
  BY <1>4, SMTT(60) DEF Message, Accepted
<1>. QED
  BY <1>3, <1>5 DEF Answers, From

-----------------------------------------------------------------------------
(* Every step keeps the invariant *)

\* The asker keeps the invariant; LastRead is the step that needs it: it reads
\* every accepted reply.
LEMMA AskerStepKeepsIInv ==
    ASSUME IInv, AskerStep
    PROVE  IInv'
<1>a. Len(msgs) \in Nat /\ cursor \in Nat /\ after \in Nat
  BY DEF IInv, TypeOK, MailboxTypeOK
<1>b. accepted \subseteq 1..Len(msgs) /\ (\A s \in accepted : s \in Nat)
  BY <1>a DEF IInv, TypeOK
<1>c. LastAnswer(view) \in Nat
  BY ReadsInRange DEF IInv, TypeOK
<1>. USE DEF IInv, TypeOK, MailboxTypeOK, Located, Writers, Accepted,
             ClosedBefore, TimeoutMeansNoAcceptedReply, At, Goto, Ends,
             WaitOrReturn, mailboxVars, askerVars, askerRest, answererVars,
             Roles, Kinds, Deliveries, NoWaiter, AnswererWaiting
<1>1. CASE LoadMessages
  BY <1>1, SameReads, ReadsInRange DEF LoadMessages
<1>2. CASE LoadedFollowUp
  <2>1. LastAnswer(view) \in Nat
    BY ReadsInRange
  <2>2. TypeOK'
    BY <1>2, <2>1, SameReads, ReadsInRange DEF LoadedFollowUp
  <2>3. Located' /\ Writers' /\ Accepted'
    BY <1>2, <2>1, SameReads, ReadsInRange DEF LoadedFollowUp
  <2>4. ClosedBefore' /\ TimeoutMeansNoAcceptedReply'
    BY <1>2, <2>1, SameReads DEF LoadedFollowUp
  <2>. QED
    BY <2>2, <2>3, <2>4
<1>3. CASE LoadedAwait
  <2>1. LastAnswer(view) \in Nat /\ cursor \in Nat
    BY <1>a, <1>c
  <2>2. TypeOK'
    BY <1>3, <2>1, SameReads, ReadsInRange, ZenonT(60) DEF LoadedAwait
  <2>3. Located' /\ Writers' /\ Accepted'
    BY <1>3, <2>1, SameReads, ReadsInRange DEF LoadedAwait
  <2>4. ClosedBefore' /\ TimeoutMeansNoAcceptedReply'
    BY <1>3, <2>1, SameReads DEF LoadedAwait
  <2>. QED
    BY <2>2, <2>3, <2>4
<1>4. CASE ExtendDeadline
  <2>1. expires' \in Nat
    BY <1>4, AskReplyAssumption DEF ExtendDeadline, Extend
  <2>2. TypeOK'
    BY <1>4, <2>1, SameReads, ReadsInRange, ZenonT(60) DEF ExtendDeadline, Extend
  <2>3. Located' /\ Writers' /\ Accepted'
    BY <1>4, <2>1, SameReads, ReadsInRange DEF ExtendDeadline, Extend
  <2>4. ClosedBefore' /\ TimeoutMeansNoAcceptedReply'
    BY <1>4, <2>1, SameReads DEF ExtendDeadline, Extend
  <2>. QED
    BY <2>2, <2>3, <2>4
<1>5. CASE LoadedClose
  BY <1>5, SameReads, ReadsInRange DEF LoadedClose, Close
<1>6. CASE TypePrompt
  BY <1>6, SameReads, ReadsInRange DEF TypePrompt
<1>7. CASE DispatchFails
  BY <1>7, SameReads, ReadsInRange DEF DispatchFails, Close
<1>8. CASE HasWaiter
  <2>1. TypeOK'
    BY <1>8, SameReads, ReadsInRange, ZenonT(60) DEF HasWaiter
  <2>2. Located' /\ Writers' /\ Accepted'
    BY <1>8, SameReads, ReadsInRange DEF HasWaiter
  <2>3. ClosedBefore' /\ TimeoutMeansNoAcceptedReply'
    BY <1>8, SameReads DEF HasWaiter
  <2>. QED
    BY <2>1, <2>2, <2>3
<1>9. CASE RemoveStaleWaiter
  BY <1>9, SameReads, ReadsInRange DEF RemoveStaleWaiter
<1>10. CASE NoWaiterFound
  <2>1. TypeOK'
    BY <1>10, SameReads, ReadsInRange, ZenonT(60) DEF NoWaiterFound
  <2>2. Located' /\ Writers' /\ Accepted'
    BY <1>10, SameReads, ReadsInRange DEF NoWaiterFound
  <2>3. ClosedBefore' /\ TimeoutMeansNoAcceptedReply'
    BY <1>10, SameReads DEF NoWaiterFound
  <2>. QED
    BY <2>1, <2>2, <2>3
<1>11. CASE Recheck
  <2>1. TypeOK'
    <3>1. CASE LastAnswer(Readable) # after \/ closed # "open"
      BY <1>11, <3>1, ZenonT(60) DEF Recheck
    <3>2. CASE ~(LastAnswer(Readable) # after \/ closed # "open")
      BY <1>11, <3>2, ZenonT(60) DEF Recheck
    <3>. QED
      BY <3>1, <3>2
  <2>2. Located' /\ Writers' /\ Accepted'
    BY <1>11, SameReads, ReadsInRange DEF Recheck
  <2>3. ClosedBefore' /\ TimeoutMeansNoAcceptedReply'
    BY <1>11, SameReads DEF Recheck
  <2>. QED
    BY <2>1, <2>2, <2>3
<1>12. CASE PostCheck
  <2>1. TypeOK'
    BY <1>12, SameReads, ReadsInRange, ZenonT(60) DEF PostCheck
  <2>2. Located' /\ Writers' /\ Accepted'
    BY <1>12, SameReads, ReadsInRange DEF PostCheck
  <2>3. ClosedBefore' /\ TimeoutMeansNoAcceptedReply'
    BY <1>12, SameReads DEF PostCheck
  <2>. QED
    BY <2>1, <2>2, <2>3
<1>13. CASE PollMessages
  <2>1. TypeOK'
    BY <1>13, SameReads, ReadsInRange DEF PollMessages
  <2>2. Located' /\ Writers' /\ Accepted'
    BY <1>13, SameReads, ReadsInRange DEF PollMessages
  <2>3. ClosedBefore' /\ TimeoutMeansNoAcceptedReply'
    BY <1>13, SameReads DEF PollMessages
  <2>. QED
    BY <2>1, <2>2, <2>3
<1>14. CASE PollFindsClosed
  BY <1>14, SameReads, ReadsInRange DEF PollFindsClosed
<1>15. CASE PollAgain
  BY <1>15, SameReads, ReadsInRange DEF PollAgain
<1>16. CASE PollGivesUp
  BY <1>16, SameReads, ReadsInRange, SMTT(60) DEF PollGivesUp, Close
<1>17. CASE LastRead
  <2>1. Writers' /\ Accepted' /\ ClosedBefore'
    BY <1>17 DEF LastRead
  <2>2. CASE Answers(Readable, after) # {}
    <3>1. TypeOK'
      BY <1>17, <2>2, ReadsInRange DEF LastRead
    <3>2. Located' /\ TimeoutMeansNoAcceptedReply'
      BY <1>17, <2>2, SameReads DEF LastRead
    <3>. QED
      BY <2>1, <3>1, <3>2
  <2>3. CASE Answers(Readable, after) = {}
    <3>1. \A s \in accepted : ~(s > after)
      BY <1>17, <2>3, AcceptedIsReadable DEF LastRead
    <3>2. \A s \in accepted : s \in Nat
      BY <1>b
    <3>3. TimeoutMeansNoAcceptedReply'
      BY <1>17, <3>1, <3>2 DEF LastRead
    <3>4. TypeOK'
      BY <1>17, <2>3 DEF LastRead
    <3>5. Located'
      BY <1>17, <2>3, SameReads DEF LastRead
    <3>. QED
      BY <2>1, <3>3, <3>4, <3>5
  <2>. QED
    BY <2>2, <2>3
<1>18. CASE PollMcp
  <2>1. cursor \in Nat
    OBVIOUS
  <2>2. TypeOK'
    <3>1. /\ after' = cursor
          /\ UNCHANGED <<mailboxVars, cmd, aseq, deliv, handed, prompted,
                         retyped, answererVars>>
      BY <1>18 DEF PollMcp
    <3>2. \/ Goto("mark") \/ Ends("closed") \/ Ends("expired")
          \/ Goto("between")
      BY <1>18 DEF PollMcp
    <3>3. CASE Goto("mark")
      BY <2>1, <3>1, <3>3
    <3>4. CASE Goto("between")
      BY <2>1, <3>1, <3>4
    <3>5. CASE Ends("closed")
      BY <2>1, <3>1, <3>5
    <3>6. CASE Ends("expired")
      BY <2>1, <3>1, <3>6
    <3>. QED
      BY <3>2, <3>3, <3>4, <3>5, <3>6
  <2>3. Located' /\ Writers' /\ Accepted'
    BY <1>18, <2>1, SameReads, ReadsInRange DEF PollMcp
  <2>4. ClosedBefore' /\ TimeoutMeansNoAcceptedReply'
    BY <1>18, <2>1, SameReads DEF PollMcp
  <2>. QED
    BY <2>2, <2>3, <2>4
<1>19. CASE PollMcpAgain
  <2>1. TypeOK'
    <3>1. CASE Goto("load")
      BY <1>19, <3>1 DEF PollMcpAgain
    <3>2. CASE Ends("failed")
      BY <1>19, <3>2 DEF PollMcpAgain
    <3>. QED
      BY <1>19, <3>1, <3>2 DEF PollMcpAgain
  <2>2. Located' /\ Writers' /\ Accepted'
    BY <1>19, SameReads, ReadsInRange DEF PollMcpAgain
  <2>3. ClosedBefore' /\ TimeoutMeansNoAcceptedReply'
    BY <1>19, SameReads DEF PollMcpAgain
  <2>. QED
    BY <2>1, <2>2, <2>3
<1>20. CASE PollMcpElapses
  BY <1>20, SameReads, ReadsInRange DEF PollMcpElapses
<1>21. CASE Mark
  <2>1. Min(Answers(view, after)) \in 1..Len(msgs)
    BY <1>21, ReadsInRange DEF Mark
  <2>2. TypeOK'
    BY <1>21, <2>1, SameReads, ReadsInRange, SMTT(60) DEF Mark, MarkAnswerRead
  <2>3. Located' /\ Writers' /\ Accepted'
    BY <1>21, <2>1, SameReads, ReadsInRange DEF Mark, MarkAnswerRead
  <2>4. ClosedBefore' /\ TimeoutMeansNoAcceptedReply'
    BY <1>21, <2>1, SameReads DEF Mark, MarkAnswerRead
  <2>. QED
    BY <2>2, <2>3, <2>4
<1>22. CASE PrintAnswer
  <2>1. Min(Answers(view, after)) \in 1..Len(msgs)
    BY <1>22, ReadsInRange DEF PrintAnswer
  <2>2. TypeOK'
    BY <1>22, <2>1, SameReads, ReadsInRange DEF PrintAnswer
  <2>3. Located' /\ Writers' /\ Accepted'
    BY <1>22, <2>1, SameReads, ReadsInRange DEF PrintAnswer
  <2>4. ClosedBefore' /\ TimeoutMeansNoAcceptedReply'
    BY <1>22, <2>1, SameReads DEF PrintAnswer
  <2>. QED
    BY <2>2, <2>3, <2>4
<1>23. CASE PostCreate
  <2>1. PICK d \in Deliveries, u \in Nat :
           CreateMessage("asker", "prompt", d, u)
    <3>1. deliv \in Deliveries /\ now + AskTimeout + Allowance \in Nat
      BY <1>23, AskReplyAssumption, MailboxAssumption DEF PostCreate
    <3>. QED
      BY <1>23, <3>1 DEF PostCreate
  <2>2. /\ msgs' \in Seq(Message) /\ Len(msgs') = Len(msgs) + 1
        /\ \A i \in 1..Len(msgs) : msgs'[i] = msgs[i]
        /\ msgs'[Len(msgs) + 1].from = "asker"
    BY <2>1, Created
  <2>3. TypeOK'
    BY <1>23, <2>2, SMTT(60) DEF PostCreate
  <2>4. Located'
    <3>0. /\ Len(msgs') \in Nat /\ Len(msgs) <= Len(msgs')
          /\ \A i \in 1..Len(msgs) :
               /\ msgs'[i].from = msgs[i].from
               /\ msgs'[i].delivery = msgs[i].delivery
               /\ msgs[i].done => msgs'[i].done
      <4>. HIDE DEF IInv, TypeOK, Located, Writers, Accepted, ClosedBefore
      <4>. QED
        BY <1>a, <2>2
    <3>01. IInv
      OBVIOUS
    <3>1. /\ UNCHANGED <<view, after>>
               => Answers(view, after)' = Answers(view, after)
          /\ UNCHANGED rseq
               => FollowUps(Readable, rseq) \subseteq FollowUps(Readable, rseq)'
      <4>. HIDE DEF IInv
      <4>. QED
        BY <3>0, <3>01, ReadsGrow
    <3>. QED
      BY <1>23, <2>2, <3>1 DEF PostCreate
  <2>5. Writers' /\ Accepted'
    <3>1. \A i \in 1..Len(msgs') : i \in 1..Len(msgs) \/ i = Len(msgs) + 1
      BY <2>2
    <3>2. Len(msgs) \in Nat /\ accepted \subseteq 1..Len(msgs)
      BY <1>a, <1>b
    <3>3. Writers'
      <4>1. \A i \in 1..Len(msgs) : msgs'[i] = msgs[i]
        BY <2>2
      <4>2. aseq' = Len(msgs) + 1 /\ apc' = "pwrite" /\ rpc' = rpc /\ rseq' = rseq
        BY <1>23 DEF PostCreate
      <4>3. rpc \in {"rwrite", "rrecheck"} => rseq \in 1..Len(msgs)
        OBVIOUS
      <4>4. msgs'[aseq'].from = "asker"
        BY <2>2, <4>2
      <4>5. \A i \in 1..Len(msgs') :
              ~msgs'[i].done => \/ rpc' = "rwrite" /\ i = rseq'
                                \/ apc' = "pwrite" /\ i = aseq'
        BY <3>1, <4>1, <4>2, <1>23 DEF PostCreate
      <4>6. rpc' \in {"rwrite", "rrecheck"} => msgs'[rseq'].from = "answerer"
        BY <4>1, <4>2, <4>3
      <4>. QED
        BY <4>2, <4>4, <4>5, <4>6
    <3>4. Accepted'
      BY <1>23, <2>2, <3>2 DEF PostCreate
    <3>. QED
      BY <3>3, <3>4
  <2>6. ClosedBefore' /\ TimeoutMeansNoAcceptedReply'
    BY <1>23 DEF PostCreate
  <2>. QED
    BY <2>3, <2>4, <2>5, <2>6
<1>24. CASE PostWrite
  <2>1. aseq \in 1..Len(msgs)
    BY <1>24 DEF PostWrite
  <2>2. /\ msgs' \in Seq(Message) /\ Len(msgs') = Len(msgs)
        /\ \A i \in 1..Len(msgs) :
             /\ msgs'[i].from = msgs[i].from
             /\ msgs'[i].delivery = msgs[i].delivery
             /\ msgs[i].done => msgs'[i].done
             /\ ~msgs'[i].done => ~msgs[i].done /\ i # aseq
    BY <1>24, <2>1, Finished DEF PostWrite
  <2>3. TypeOK'
    BY <1>24, <2>2, ZenonT(60) DEF PostWrite
  <2>4. Located'
    <3>0. /\ Len(msgs') \in Nat /\ Len(msgs) <= Len(msgs')
          /\ \A i \in 1..Len(msgs) :
               /\ msgs'[i].from = msgs[i].from
               /\ msgs'[i].delivery = msgs[i].delivery
               /\ msgs[i].done => msgs'[i].done
      <4>. HIDE DEF IInv, TypeOK, Located, Writers, Accepted, ClosedBefore
      <4>. QED
        BY <1>a, <2>2
    <3>01. IInv
      OBVIOUS
    <3>1. /\ UNCHANGED <<view, after>>
               => Answers(view, after)' = Answers(view, after)
          /\ UNCHANGED rseq
               => FollowUps(Readable, rseq) \subseteq FollowUps(Readable, rseq)'
      <4>. HIDE DEF IInv
      <4>. QED
        BY <3>0, <3>01, ReadsGrow
    <3>. QED
      BY <1>24, <2>2, <3>1 DEF PostWrite
  <2>5. Writers' /\ Accepted'
    <3>1. Writers'
      <4>1. \A i \in 1..Len(msgs') : ~msgs'[i].done => ~msgs[i].done /\ i # aseq
        BY <2>2
      <4>. QED
        BY <1>24, <2>1, <2>2, <4>1 DEF PostWrite
    <3>2. Accepted'
      BY <1>24, <2>2 DEF PostWrite
    <3>. QED
      BY <3>1, <3>2
  <2>6. ClosedBefore' /\ TimeoutMeansNoAcceptedReply'
    BY <1>24 DEF PostWrite
  <2>. QED
    BY <2>3, <2>4, <2>5, <2>6
<1>. QED
  BY <1>1, <1>2, <1>3, <1>4, <1>5, <1>6, <1>7, <1>8, <1>9, <1>10, <1>11, <1>12, <1>13, <1>14, <1>15, <1>16, <1>17, <1>18, <1>19, <1>20, <1>21, <1>22, <1>23, <1>24
     DEF AskerStep

\* The answerer keeps the invariant; ReplyRecheck accepts nothing once the
\* thread is closed.
LEMMA AnswererStepKeepsIInv ==
    ASSUME IInv, AnswererStep
    PROVE  IInv'
<1>. USE DEF IInv, TypeOK, MailboxTypeOK, Located, Writers, Accepted,
             ClosedBefore, TimeoutMeansNoAcceptedReply, At, Goto, Ends,
             WaitOrReturn, mailboxVars, askerVars, askerRest, answererVars,
             Roles, Kinds, Deliveries, NoWaiter, AnswererWaiting
<1>1. CASE ReplyLoad
  BY <1>1, SameReads, ReadsInRange DEF ReplyLoad
<1>2. CASE ReplyCheck
  BY <1>2, SameReads, ReadsInRange, SMTT(60) DEF ReplyCheck, Close
<1>3. CASE ReplyWrite
  <2>1. rseq \in 1..Len(msgs)
    BY <1>3 DEF ReplyWrite
  <2>2. /\ msgs' \in Seq(Message) /\ Len(msgs') = Len(msgs)
        /\ \A i \in 1..Len(msgs) :
             /\ msgs'[i].from = msgs[i].from
             /\ msgs'[i].delivery = msgs[i].delivery
             /\ msgs[i].done => msgs'[i].done
             /\ ~msgs'[i].done => ~msgs[i].done /\ i # rseq
    BY <1>3, <2>1, Finished DEF ReplyWrite
  <2>3. TypeOK'
    BY <1>3, <2>2 DEF ReplyWrite
  <2>4. Located'
    <3>0. /\ Len(msgs') \in Nat /\ Len(msgs) <= Len(msgs')
          /\ \A i \in 1..Len(msgs) :
               /\ msgs'[i].from = msgs[i].from
               /\ msgs'[i].delivery = msgs[i].delivery
               /\ msgs[i].done => msgs'[i].done
      BY <2>2
    <3>01. IInv
      OBVIOUS
    <3>1. /\ UNCHANGED <<view, after>>
               => Answers(view, after)' = Answers(view, after)
          /\ UNCHANGED rseq
               => FollowUps(Readable, rseq) \subseteq FollowUps(Readable, rseq)'
      <4>. HIDE DEF IInv
      <4>. QED
        BY <3>0, <3>01, ReadsGrow
    <3>. QED
      BY <1>3, <2>2, <3>1 DEF ReplyWrite
  <2>5. Writers' /\ Accepted'
    <3>1. Writers'
      <4>1. \A i \in 1..Len(msgs') : ~msgs'[i].done => ~msgs[i].done /\ i # rseq
        BY <2>2
      <4>. QED
        BY <1>3, <2>1, <2>2, <4>1 DEF ReplyWrite
    <3>2. Accepted'
      BY <1>3, <2>2, SMTT(60) DEF ReplyWrite
    <3>. QED
      BY <3>1, <3>2
  <2>6. ClosedBefore' /\ TimeoutMeansNoAcceptedReply'
    BY <1>3 DEF ReplyWrite
  <2>. QED
    BY <2>3, <2>4, <2>5, <2>6
<1>4. CASE ReplyRecheck
  BY <1>4, SameReads, ReadsInRange, SMTT(60) DEF ReplyRecheck
<1>5. CASE ReplyClose
  BY <1>5, SameReads, ReadsInRange DEF ReplyClose, Close
<1>6. CASE \E kind \in Kinds \ {"prompt"} : ReplyCreate(kind)
  <2>0. PICK kind \in Kinds : ReplyCreate(kind)
    BY <1>6
  <2>1. PICK d \in Deliveries, u \in Nat :
           CreateMessage("answerer", kind, d, u)
    BY <2>0 DEF ReplyCreate
  <2>2. /\ msgs' \in Seq(Message) /\ Len(msgs') = Len(msgs) + 1
        /\ \A i \in 1..Len(msgs) : msgs'[i] = msgs[i]
        /\ msgs'[Len(msgs) + 1].from = "answerer"
    BY <2>1, Created
  <2>3. TypeOK'
    BY <2>0, <2>2, SMTT(60) DEF ReplyCreate
  <2>4. Located'
    <3>0. /\ Len(msgs') \in Nat /\ Len(msgs) <= Len(msgs')
          /\ \A i \in 1..Len(msgs) :
               /\ msgs'[i].from = msgs[i].from
               /\ msgs'[i].delivery = msgs[i].delivery
               /\ msgs[i].done => msgs'[i].done
      BY <2>2
    <3>01. IInv
      OBVIOUS
    <3>1. /\ UNCHANGED <<view, after>>
               => Answers(view, after)' = Answers(view, after)
          /\ UNCHANGED rseq
               => FollowUps(Readable, rseq) \subseteq FollowUps(Readable, rseq)'
      <4>. HIDE DEF IInv
      <4>. QED
        BY <3>0, <3>01, ReadsGrow
    <3>. QED
      BY <2>0, <2>2, <3>1 DEF ReplyCreate
  <2>5. Writers' /\ Accepted'
    <3>1. \A i \in 1..Len(msgs') : i \in 1..Len(msgs) \/ i = Len(msgs) + 1
      BY <2>2
    <3>2. Len(msgs) \in Nat /\ accepted \subseteq 1..Len(msgs)
      OBVIOUS
    <3>3. ASSUME NEW i \in 1..Len(msgs'), ~msgs'[i].done
          PROVE  i = rseq' \/ (apc = "pwrite" /\ i = aseq)
      BY <2>0, <2>2, <3>1, <3>3 DEF ReplyCreate
    <3>4. apc = "pwrite" => msgs'[aseq].from = "asker"
      <4>1. apc = "pwrite" => aseq \in 1..Len(msgs) /\ msgs[aseq].from = "asker"
        OBVIOUS
      <4>2. \A i \in 1..Len(msgs) : msgs'[i].from = msgs[i].from
        BY <2>2
      <4>. QED
        BY <4>1, <4>2
    <3>5. Writers'
      BY <2>0, <2>2, <3>3, <3>4 DEF ReplyCreate
    <3>6. Accepted'
      BY <2>0, <2>2, <3>2, SMTT(60) DEF ReplyCreate
    <3>. QED
      BY <3>5, <3>6
  <2>6. ClosedBefore' /\ TimeoutMeansNoAcceptedReply'
    BY <2>0 DEF ReplyCreate
  <2>. QED
    BY <2>3, <2>4, <2>5, <2>6
<1>7. CASE WaitRegister
  <2>1. now + ReplyWait \in Nat
    BY AskReplyAssumption, MailboxAssumption
  <2>2. TypeOK'
    BY <1>7, <2>1, SameReads, ReadsInRange DEF WaitRegister
  <2>3. Located' /\ Writers' /\ Accepted'
    BY <1>7, <2>1, SameReads, ReadsInRange DEF WaitRegister
  <2>4. ClosedBefore' /\ TimeoutMeansNoAcceptedReply'
    BY <1>7, <2>1, SameReads DEF WaitRegister
  <2>. QED
    BY <2>2, <2>3, <2>4
<1>8. CASE WaitPoll
  <2>1. TypeOK'
    BY <1>8, SameReads, ReadsInRange DEF WaitPoll
  <2>2. Located' /\ Writers' /\ Accepted'
    BY <1>8, SameReads, ReadsInRange DEF WaitPoll
  <2>3. ClosedBefore' /\ TimeoutMeansNoAcceptedReply'
    BY <1>8, SameReads DEF WaitPoll
  <2>. QED
    BY <2>1, <2>2, <2>3
<1>9. CASE WaitClosed
  BY <1>9, SameReads, ReadsInRange DEF WaitClosed
<1>10. CASE WaitGivesUp
  BY <1>10, SameReads, ReadsInRange DEF WaitGivesUp
<1>11. CASE WaitLast
  <2>1. TypeOK'
    BY <1>11, SameReads, ReadsInRange DEF WaitLast
  <2>2. Located' /\ Writers' /\ Accepted'
    BY <1>11, SameReads, ReadsInRange DEF WaitLast
  <2>3. ClosedBefore' /\ TimeoutMeansNoAcceptedReply'
    BY <1>11, SameReads DEF WaitLast
  <2>. QED
    BY <2>1, <2>2, <2>3
<1>12. CASE WaitAck
  <2>1. Min(FollowUps(Readable, rseq)) \in 1..Len(msgs)
    <3>1. rseq \in Nat /\ FollowUps(Readable, rseq) # {}
      BY <1>12 DEF WaitAck
    <3>. QED
      BY <3>1, ReadsInRange
  <2>2. TypeOK'
    <3>1. acks' \subseteq 1..Len(msgs)
      BY <1>12, <2>1 DEF WaitAck
    <3>2. msgs' = msgs /\ rpc' = "wremove"
      BY <1>12 DEF WaitAck
    <3>3. UNCHANGED <<closed, waiter, expires, cursor, now, askerVars, rview,
                      rdue, rseq, accepted>>
      BY <1>12 DEF WaitAck
    <3>. QED
      BY <3>1, <3>2, <3>3
  <2>3. Located' /\ Writers' /\ Accepted'
    BY <1>12, <2>1, SameReads, ReadsInRange DEF WaitAck
  <2>4. ClosedBefore' /\ TimeoutMeansNoAcceptedReply'
    BY <1>12, <2>1, SameReads DEF WaitAck
  <2>. QED
    BY <2>2, <2>3, <2>4
<1>13. CASE WaitRemove
  BY <1>13, SameReads, ReadsInRange, SMTT(60) DEF WaitRemove
<1>. QED
  BY <1>1, <1>2, <1>3, <1>4, <1>5, <1>6, <1>7, <1>8, <1>9, <1>10, <1>11, <1>12, <1>13
     DEF AnswererStep

\* So do the starts of commands, the kills and the clock.
LEMMA OtherStepsKeepIInv ==
    ASSUME IInv, KillMidWrite = FALSE,
           \/ \E c \in Commands : AskNew(c) \/ StartOnThread(c)
           \/ Reply \/ KillAsker \/ KillAnswerer \/ Tick \/ UNCHANGED vars
    PROVE  IInv'
<1>. USE DEF IInv, TypeOK, MailboxTypeOK, Located, Writers, Accepted,
             ClosedBefore, TimeoutMeansNoAcceptedReply, At, Goto, Ends,
             WaitOrReturn, mailboxVars, askerVars, askerRest, answererVars,
             Roles, Kinds, Deliveries, NoWaiter, AnswererWaiting
<1>1. CASE \E c \in Commands : AskNew(c) \/ StartOnThread(c)
  <2>1. ASSUME NEW c \in Commands, AskNew(c)
        PROVE  IInv'
    BY <2>1, SameReads, AskReplyAssumption, MailboxAssumption, SMTT(60) DEF AskNew
  <2>2. ASSUME NEW c \in Commands, StartOnThread(c)
        PROVE  IInv'
    BY <2>2, SameReads DEF StartOnThread
  <2>. QED
    BY <1>1, <2>1, <2>2
<1>2. CASE Reply
  BY <1>2, SameReads, ReadsInRange, SMTT(60) DEF Reply
<1>3. CASE KillAsker
  BY <1>3, SameReads, ReadsInRange DEF KillAsker
<1>4. CASE KillAnswerer
  <2>1. waiter' \in [proc : {"none", "live", "dead"}, until : Nat]
    BY <1>4 DEF KillAnswerer
  <2>. QED
    BY <1>4, <2>1, SameReads, SMTT(60) DEF KillAnswerer
<1>5. CASE Tick
  BY <1>5, SameReads, MailboxAssumption, SMTT(60) DEF Tick
<1>6. CASE UNCHANGED vars
  BY <1>6, SameReads, SMTT(60) DEF vars
<1>. QED
  BY <1>1, <1>2, <1>3, <1>4, <1>5, <1>6

-----------------------------------------------------------------------------
(* The theorems *)

\* The invariant holds in every reachable state.
THEOREM Invariant == ASSUME KillMidWrite = FALSE PROVE Spec => []IInv
<1>1. ASSUME Init
      PROVE  IInv
  <2>1. msgs \in Seq(Message) /\ Len(msgs) = 0
    BY <1>1 DEF Init, MailboxInit
  <2>2. MailboxTypeOK
    BY <1>1, <2>1, MailboxAssumption DEF Init, MailboxInit, MailboxTypeOK,
       NoWaiter
  <2>3. TypeOK
    <3>1. handed \in Seq(Nat)
      BY <1>1 DEF Init
    <3>2. /\ view \subseteq 1..Len(msgs) /\ retyped \subseteq 1..Len(msgs)
          /\ rview \subseteq 1..Len(msgs) /\ accepted \subseteq 1..Len(msgs)
      BY <1>1 DEF Init
    <3>3. aseq \in 0..Len(msgs) /\ rseq \in 0..Len(msgs) /\ after \in Nat
      BY <1>1, <2>1 DEF Init
    <3>4. /\ apc = "idle" /\ cmd = "none" /\ outcome = "none" /\ deliv = "none"
          /\ prompted = FALSE /\ rpc = "idle" /\ rdue = 0
      BY <1>1 DEF Init
    <3>. QED
      BY <2>2, <3>1, <3>2, <3>3, <3>4 DEF TypeOK
  <2>4. Located /\ Writers /\ Accepted /\ ClosedBefore
    BY <1>1, <2>1 DEF Init, Located, Writers, Accepted, ClosedBefore
  <2>. QED
    BY <1>1, <2>3, <2>4 DEF Init, IInv, TimeoutMeansNoAcceptedReply
<1>2. IInv /\ [Next]_vars => IInv'
  BY AskerStepKeepsIInv, AnswererStepKeepsIInv, OtherStepsKeepIInv DEF Next
<1>. QED
  BY <1>1, <1>2, PTL DEF Spec

\* The types of the mailbox and of its two processes.
THEOREM TypeCorrect == ASSUME KillMidWrite = FALSE PROVE Spec => []TypeOK
<1>1. IInv => TypeOK
  BY DEF IInv
<1>. QED
  BY <1>1, Invariant, PTL

\* A wait that reports a timeout leaves no accepted reply behind, whatever the
\* commands, the bounds and the kills between two file operations.
THEOREM TimeoutIsHonest ==
    ASSUME KillMidWrite = FALSE PROVE Spec => []TimeoutMeansNoAcceptedReply
<1>1. IInv => TimeoutMeansNoAcceptedReply
  BY DEF IInv
<1>. QED
  BY <1>1, Invariant, PTL

-----------------------------------------------------------------------------
(* Delivery: what the asker knows of the replies *)

\* The replies that can be read, and whether the asker's command knows where to
\* wait from.
Replies == Answers(Readable, 0)
Knows == apc \notin {"idle", "load", "loaded"}
HandedIn(S) == \A i \in 1..Len(handed) : handed[i] \in S
HandedUpTo(n) == \A i \in 1..Len(handed) : handed[i] <= n

\* What the asker read stays readable; where it waits from, and the cursor, are
\* replies or nothing; and there is no command before the question.
ThreadSeen ==
    /\ view \subseteq Readable
    /\ after \in Replies \cup {0} /\ cursor \in Replies \cup {0}
    /\ apc # "idle" => expires # 0

\* What was handed out lies below the cursor and below where a command waits
\* from, which a command that has just read the thread will find.
HandedSeen ==
    /\ HandedIn(Replies) /\ HandedUpTo(cursor)
    /\ Knows => HandedUpTo(after)
    /\ apc = "loaded" => HandedIn(Answers(view, 0))
    /\ apc = "print" => Min(Answers(view, after)) <= cursor
    /\ expires = 0 => handed = << >>

SeenInv == ThreadSeen /\ HandedSeen /\ RepliesHandedInOrder

\* No message is lost, renamed or undone.
Grows ==
    /\ Len(msgs') \in Nat /\ Len(msgs) <= Len(msgs')
    /\ \A i \in 1..Len(msgs) :
         /\ msgs'[i].from = msgs[i].from
         /\ msgs'[i].delivery = msgs[i].delivery
         /\ msgs[i].done => msgs'[i].done

\* Answers of messages that exist are replies above a number.
LEMMA AnswersAre ==
    ASSUME MailboxTypeOK, NEW v \in SUBSET (1..Len(msgs)), NEW a \in Nat
    PROVE  \A i : i \in Answers(v, a) <=> i \in v /\ i > a /\ msgs[i].from = "answerer"
<1>1. ASSUME NEW i \in v PROVE msgs[i].delivery \in Deliveries
  <2>1. msgs[i] \in Message
    BY DEF MailboxTypeOK
  <2>. QED
    BY <2>1 DEF Message
<1>. QED
  BY <1>1 DEF Answers, From

\* The next answer is one of them, and the last one has them all below it.
LEMMA NextAndLast ==
    ASSUME MailboxTypeOK, NEW v \in SUBSET (1..Len(msgs)), NEW a \in Nat
    PROVE  /\ Answers(v, a) # {} => Min(Answers(v, a)) \in Answers(v, a)
           /\ LastAnswer(v) \in Answers(v, 0) \cup {0}
           /\ \A i \in Answers(v, 0) : i <= LastAnswer(v)
<1>1. Len(msgs) \in Nat
  BY DEF MailboxTypeOK
<1>2. Answers(v, a) \subseteq Nat /\ Answers(v, 0) \cup {0} \subseteq 0..Len(msgs)
  <2>1. Answers(v, a) \subseteq v /\ Answers(v, 0) \subseteq v
    BY DEF Answers, From
  <2>2. \A i \in v : i \in Nat /\ i \in 0..Len(msgs)
    BY <1>1
  <2>3. 0 \in 0..Len(msgs)
    BY <1>1
  <2>. HIDE DEF Answers
  <2>. QED
    BY <2>1, <2>2, <2>3
<1>3. Answers(v, a) # {} => Min(Answers(v, a)) \in Answers(v, a)
  BY <1>2, MinIn
<1>4. /\ LastAnswer(v) \in Answers(v, 0) \cup {0}
      /\ \A i \in Answers(v, 0) \cup {0} : LastAnswer(v) >= i
  BY <1>1, <1>2, MaxIn DEF LastAnswer
<1>5. LastAnswer(v) \in Nat /\ \A i \in Answers(v, 0) : i \in Nat
  BY <1>1, <1>2, <1>4
<1>. QED
  BY <1>3, <1>4, <1>5

\* Every step lets the thread grow.
LEMMA ThreadGrows ==
    ASSUME IInv, [Next]_vars
    PROVE  Grows
<1>. USE DEF IInv, TypeOK, MailboxTypeOK
<1>1. Len(msgs) \in Nat
  OBVIOUS
<1>2. CASE UNCHANGED msgs
  BY <1>1, <1>2 DEF Grows
<1>3. CASE PostCreate
  <2>1. PICK kind \in Kinds, d \in Deliveries, u \in Nat :
           CreateMessage("asker", kind, d, u)
    <3>1. "prompt" \in Kinds /\ deliv \in Deliveries
      BY <1>3 DEF PostCreate, Kinds, Located, At
    <3>2. (IF cmd \in {"follow", "mcpfollow"} THEN now + AskTimeout + Allowance ELSE 0) \in Nat
      BY AskReplyAssumption, MailboxAssumption
    <3>. QED
      BY <1>3, <3>1, <3>2 DEF PostCreate
  <2>. QED
    BY <1>1, <2>1, Created, SMTT(60) DEF Grows, Roles
<1>4. CASE \E kind \in Kinds \ {"prompt"} : ReplyCreate(kind)
  BY <1>1, <1>4, Created DEF Grows, Roles, Deliveries, ReplyCreate
<1>5. CASE PostWrite
  <2>1. aseq \in 1..Len(msgs)
    BY <1>5 DEF PostWrite, Located, At
  <2>. QED
    BY <1>1, <1>5, <2>1, Finished DEF Grows, PostWrite
<1>6. CASE ReplyWrite
  <2>1. rseq \in 1..Len(msgs)
    BY <1>6 DEF ReplyWrite, Located
  <2>2. msgs \in Seq(Message) /\ FinishMessage(rseq)
    BY <1>6 DEF ReplyWrite
  <2>. HIDE DEF IInv, TypeOK, MailboxTypeOK
  <2>. QED
    BY <1>1, <2>1, <2>2, Finished DEF Grows
<1>7. CASE AskerStep
  <2>. HIDE DEF IInv, TypeOK, MailboxTypeOK
  <2>. QED
  BY <1>2, <1>3, <1>5, <1>7
     DEF AskerStep, mailboxVars, LoadMessages, LoadedFollowUp, LoadedAwait, ExtendDeadline,
         LoadedClose, TypePrompt, DispatchFails, HasWaiter, RemoveStaleWaiter, NoWaiterFound,
         Recheck, PostCheck, PollMessages, PollFindsClosed, PollAgain, PollGivesUp, LastRead,
         PollMcp, PollMcpAgain, PollMcpElapses, Mark, PrintAnswer
<1>8. CASE AnswererStep
  <2>. HIDE DEF IInv, TypeOK, MailboxTypeOK
  <2>. QED
  BY <1>2, <1>4, <1>6, <1>8
     DEF AnswererStep, mailboxVars, ReplyLoad, ReplyCheck, ReplyRecheck, ReplyClose,
         WaitRegister, WaitPoll, WaitClosed, WaitGivesUp, WaitLast, WaitAck, WaitRemove
<1>9. CASE \/ \E c \in Commands : AskNew(c) \/ StartOnThread(c)
           \/ Reply \/ KillAsker \/ KillAnswerer \/ Tick \/ UNCHANGED vars
  <2>. HIDE DEF IInv, TypeOK, MailboxTypeOK
  <2>. QED
  BY <1>2, <1>9 DEF AskNew, StartOnThread, Reply, KillAsker, KillAnswerer, Tick, vars,
     mailboxVars
<1>. QED
  BY <1>7, <1>8, <1>9 DEF Next

\* A thread that grows keeps what was read of it.
LEMMA GrownReads ==
    ASSUME IInv, Grows
    PROVE  /\ Readable \subseteq Readable' /\ Replies \subseteq Replies'
           /\ \A v \in SUBSET (1..Len(msgs)) : \A a : Answers(v, a)' = Answers(v, a)
<1>1. Readable \subseteq Readable'
  <2>. USE DEF Grows
  <2>. QED
  BY ReadsGrow
<1>2. Readable \subseteq 1..Len(msgs)
  BY ReadsInRange DEF IInv, TypeOK
<1>3. ASSUME NEW v \in SUBSET (1..Len(msgs)), NEW a
      PROVE  Answers(v, a)' = Answers(v, a)
  BY DEF Answers, From, Grows
<1>4. Replies \subseteq Replies'
  BY <1>1, <1>2 DEF Replies, Answers, From, Grows
<1>. QED
  BY <1>1, <1>3, <1>4

\* A step that reads nothing and hands nothing out.
Quiet ==
    /\ view' \in {view, {}} /\ UNCHANGED <<after, cursor, handed>>
    /\ expires' = 0 => expires = 0
    /\ apc' # "idle" => apc # "idle"
    /\ Knows' => Knows
    /\ apc' \in {"loaded", "print"} => apc' = apc /\ view' = view

LEMMA QuietKeeps ==
    ASSUME IInv, SeenInv, Grows, Quiet
    PROVE  SeenInv'
<1>1. view \in SUBSET (1..Len(msgs)) /\ after \in Nat /\ cursor \in Nat
  BY DEF IInv, TypeOK, MailboxTypeOK
<1>2. /\ Readable \subseteq Readable' /\ Replies \subseteq Replies'
      /\ view' = view => \A a : Answers(view, a)' = Answers(view, a)
  BY <1>1, GrownReads DEF Quiet
<1>3. ThreadSeen'
  BY <1>1, <1>2 DEF Quiet, SeenInv, ThreadSeen
<1>4. RepliesHandedInOrder'
  BY DEF Quiet, SeenInv, RepliesHandedInOrder
<1>5. HandedIn(Replies)' /\ HandedUpTo(cursor)' /\ (expires' = 0 => handed' = << >>)
      /\ (Knows' => HandedUpTo(after)')
  BY <1>2 DEF Quiet, SeenInv, HandedSeen, HandedIn, HandedUpTo
<1>6. apc' = "loaded" => HandedIn(Answers(view, 0))'
  BY <1>2 DEF Quiet, SeenInv, HandedSeen, HandedIn
<1>7. apc' = "print" => Min(Answers(view, after))' <= cursor'
  <2>1. SUFFICES ASSUME apc' = "print" PROVE Min(Answers(view, after))' <= cursor'
    OBVIOUS
  <2>2. view' = view /\ after' = after /\ cursor' = cursor /\ apc = "print"
    BY <2>1 DEF Quiet
  <2>3. Answers(view, after)' = Answers(view, after)
    BY <1>1, <2>2, GrownReads
  <2>4. Min(Answers(view, after)) <= cursor
    BY <2>2 DEF SeenInv, HandedSeen
  <2>. QED
    BY <2>2, <2>3, <2>4
<1>. QED
  BY <1>3, <1>4, <1>5, <1>6, <1>7 DEF SeenInv, HandedSeen

\* A step that sets where its command waits from.
LEMMA SetsOut ==
    ASSUME IInv, SeenInv, UNCHANGED <<msgs, cursor, handed>>, view' \in {view, {}},
           after' \in Replies \cup {0}, Knows' => HandedUpTo(after'),
           apc' \notin {"loaded", "print"}, apc' # "idle" => expires' # 0,
           expires' = 0 => expires = 0
    PROVE  SeenInv'
<1>1. Readable' = Readable /\ Replies' = Replies
  BY SameReads DEF Replies
<1>2. ThreadSeen'
  BY <1>1 DEF SeenInv, ThreadSeen
<1>3. RepliesHandedInOrder'
  BY DEF SeenInv, RepliesHandedInOrder
<1>4. HandedIn(Replies)' /\ HandedUpTo(cursor)' /\ (expires' = 0 => handed' = << >>)
      /\ (Knows' => HandedUpTo(after)')
  BY <1>1 DEF SeenInv, HandedSeen, HandedIn, HandedUpTo
<1>. QED
  BY <1>2, <1>3, <1>4 DEF SeenInv, HandedSeen

\* A step that reads the thread.
LEMMA ReadsThread ==
    ASSUME IInv, SeenInv, UNCHANGED <<msgs, after, cursor, handed, expires>>,
           view' = Readable, Knows' => Knows, apc # "idle", apc' # "print"
    PROVE  SeenInv'
<1>1. Readable' = Readable /\ Replies' = Replies /\ Answers(view, 0)' = Replies
  BY SameReads DEF Replies
<1>2. ThreadSeen'
  BY <1>1 DEF SeenInv, ThreadSeen
<1>3. RepliesHandedInOrder'
  BY DEF SeenInv, RepliesHandedInOrder
<1>4. HandedIn(Replies)' /\ HandedUpTo(cursor)' /\ (expires' = 0 => handed' = << >>)
      /\ (Knows' => HandedUpTo(after)') /\ HandedIn(Answers(view, 0))'
  BY <1>1 DEF SeenInv, HandedSeen, HandedIn, HandedUpTo
<1>. QED
  BY <1>2, <1>3, <1>4 DEF SeenInv, HandedSeen

\* What a command that has read the thread can wait from.
LEMMA LastIsKnown ==
    ASSUME IInv, SeenInv
    PROVE  /\ {LastAnswer(view), cursor} \subseteq Replies \cup {0}
           /\ apc = "loaded" => HandedUpTo(LastAnswer(view))
           /\ HandedUpTo(cursor)
           /\ Answers(view, after) \subseteq Replies
<1>1. view \in SUBSET (1..Len(msgs)) /\ Readable \in SUBSET (1..Len(msgs))
      /\ after \in Nat /\ MailboxTypeOK
  BY ReadsInRange DEF IInv, TypeOK
<1>2. Answers(view, 0) \subseteq Replies /\ Answers(view, after) \subseteq Replies
  <2>1. \A i : i \in Replies <=> i \in Readable /\ i > 0 /\ msgs[i].from = "answerer"
    BY <1>1, AnswersAre DEF Replies
  <2>2. \A i : i \in Answers(view, after) => i \in view /\ i > after /\ msgs[i].from = "answerer"
    BY <1>1, AnswersAre
  <2>3. \A i : i \in Answers(view, 0) => i \in view /\ i > 0 /\ msgs[i].from = "answerer"
    BY <1>1, AnswersAre
  <2>4. view \subseteq Readable /\ \A i \in view : i \in Nat /\ i > 0
    BY <1>1 DEF SeenInv, ThreadSeen
  <2>. QED
    BY <2>1, <2>2, <2>3, <2>4
<1>3. /\ LastAnswer(view) \in Answers(view, 0) \cup {0}
      /\ \A i \in Answers(view, 0) : i <= LastAnswer(view)
  BY <1>1, NextAndLast
<1>4. apc = "loaded" => HandedUpTo(LastAnswer(view))
  BY <1>3 DEF SeenInv, HandedSeen, HandedIn, HandedUpTo
<1>. QED
  BY <1>2, <1>3, <1>4 DEF SeenInv, HandedSeen, ThreadSeen

\* The answer that is about to be handed out.
LEMMA NextIsNew ==
    ASSUME IInv, SeenInv, apc \in {"mark", "print"}
    PROVE  /\ Min(Answers(view, after)) \in Replies \cap Nat
           /\ Min(Answers(view, after)) > after
<1>1. view \in SUBSET (1..Len(msgs)) /\ after \in Nat /\ MailboxTypeOK /\ Len(msgs) \in Nat
      /\ Answers(view, after) # {}
  BY DEF IInv, TypeOK, Located, MailboxTypeOK
<1>2. Min(Answers(view, after)) \in Answers(view, after)
  BY <1>1, NextAndLast
<1>3. Min(Answers(view, after)) \in view /\ Min(Answers(view, after)) > after
  BY <1>1, <1>2, AnswersAre
<1>4. Answers(view, after) \subseteq Replies
  BY LastIsKnown
<1>5. Min(Answers(view, after)) \in Nat
  <2>1. \A i \in view : i \in Nat
    BY <1>1
  <2>. QED
    BY <1>3, <2>1
<1>. QED
  BY <1>2, <1>3, <1>4, <1>5

\* The cursor moves up, to the answer at least.
LEMMA MarkKeepsSeen ==
    ASSUME IInv, SeenInv, Mark
    PROVE  SeenInv'
<1>. DEFINE m == Min(Answers(view, after))
<1>0. apc = "mark" /\ apc' = "print"
      /\ UNCHANGED <<msgs, view, after, handed, expires>>
      /\ cursor' = IF m <= cursor THEN cursor ELSE m
  BY DEF Mark, At, Goto, MarkAnswerRead, askerRest
<1>1. Readable' = Readable /\ Replies' = Replies /\ Answers(view, after)' = Answers(view, after)
  BY <1>0, SameReads DEF Replies
<1>2. m \in Replies /\ m \in Nat /\ cursor \in Nat /\ Len(handed) \in Nat
      /\ \A i \in 1..Len(handed) : handed[i] \in Nat
  <2>1. m \in Replies /\ m \in Nat
    BY <1>0, NextIsNew
  <2>2. cursor \in 0..Len(msgs) /\ msgs \in Seq(Message) /\ handed \in Seq(Nat)
    BY DEF IInv, TypeOK, MailboxTypeOK
  <2>. QED
    BY <2>1, <2>2
<1>3. Min(Answers(view, after))' = m
  BY <1>0, <1>1
<1>. HIDE DEF m
<1>4. cursor' \in Replies \cup {0} /\ cursor <= cursor' /\ m <= cursor' /\ cursor' \in Nat
  BY <1>0, <1>2 DEF SeenInv, ThreadSeen
<1>5. ThreadSeen'
  BY <1>0, <1>1, <1>4 DEF SeenInv, ThreadSeen
<1>6. RepliesHandedInOrder'
  BY <1>0 DEF SeenInv, RepliesHandedInOrder
<1>7. HandedIn(Replies)' /\ HandedUpTo(cursor)' /\ (expires' = 0 => handed' = << >>)
      /\ HandedUpTo(after)'
  BY <1>0, <1>1, <1>2, <1>4 DEF SeenInv, HandedSeen, HandedIn, HandedUpTo, Knows
<1>. QED
  BY <1>0, <1>3, <1>4, <1>5, <1>6, <1>7 DEF SeenInv, HandedSeen

\* The answer is printed after all those below it.
LEMMA PrintKeepsSeen ==
    ASSUME IInv, SeenInv, PrintAnswer
    PROVE  SeenInv'
<1>. DEFINE m == Min(Answers(view, after))
<1>0. apc = "print" /\ apc' = "idle" /\ view' = {}
      /\ UNCHANGED <<msgs, after, cursor, expires>>
      /\ handed' = Append(handed, m)
  BY DEF PrintAnswer, At, Ends, mailboxVars
<1>1. Readable' = Readable /\ Replies' = Replies
  BY <1>0, SameReads DEF Replies
<1>2. m \in Replies /\ m \in Nat /\ m > after /\ after \in Nat
      /\ handed \in Seq(Nat)
  BY <1>0, NextIsNew DEF IInv, TypeOK
<1>3. m <= cursor /\ HandedUpTo(after) /\ HandedUpTo(cursor) /\ HandedIn(Replies)
      /\ expires # 0
  BY <1>0 DEF SeenInv, HandedSeen, ThreadSeen, Knows
<1>. HIDE DEF m
<1>4. /\ Len(handed') = Len(handed) + 1 /\ Len(handed) \in Nat
      /\ \A i \in 1..Len(handed') : i \in 1..Len(handed) \/ i = Len(handed) + 1
      /\ \A i \in 1..Len(handed) : handed'[i] = handed[i] /\ handed[i] \in Nat
      /\ handed'[Len(handed) + 1] = m
  BY <1>0, <1>2
<1>5. ThreadSeen'
  BY <1>0, <1>1 DEF SeenInv, ThreadSeen
<1>6. RepliesHandedInOrder'
  <2>1. SUFFICES ASSUME NEW i \in 1..Len(handed'), NEW j \in 1..Len(handed'), i < j
                 PROVE  handed'[i] < handed'[j]
    BY DEF RepliesHandedInOrder
  <2>2. i \in 1..Len(handed)
    BY <1>4, <2>1
  <2>3. CASE j \in 1..Len(handed)
    BY <1>4, <2>1, <2>2, <2>3 DEF SeenInv, RepliesHandedInOrder
  <2>4. CASE j = Len(handed) + 1
    <3>1. handed[i] <= after /\ handed[i] \in Nat
      BY <1>3, <1>4, <2>2 DEF HandedUpTo
    <3>. QED
      BY <1>2, <1>4, <2>2, <2>4, <3>1
  <2>. QED
    BY <1>4, <2>3, <2>4
<1>7. HandedIn(Replies)'
  BY <1>1, <1>2, <1>3, <1>4 DEF HandedIn
<1>8. HandedUpTo(cursor)'
  BY <1>0, <1>3, <1>4 DEF HandedUpTo
<1>. QED
  BY <1>0, <1>3, <1>5, <1>6, <1>7, <1>8 DEF SeenInv, HandedSeen, Knows

\* Every step keeps what the asker knows of the replies.
LEMMA SeenStep ==
    ASSUME IInv, SeenInv, [Next]_vars
    PROVE  SeenInv'
<1>0. Grows /\ expires \in Nat
  BY ThreadGrows DEF IInv, TypeOK, MailboxTypeOK
<1>1. ASSUME \/ ExtendDeadline \/ LoadedClose \/ TypePrompt \/ DispatchFails
             \/ HasWaiter \/ RemoveStaleWaiter \/ NoWaiterFound \/ Recheck
             \/ PostCheck \/ PostCreate \/ PostWrite
             \/ PollFindsClosed \/ PollAgain \/ PollGivesUp
             \/ PollMcpAgain \/ PollMcpElapses \/ KillAsker
      PROVE  Quiet
  BY <1>0, <1>1 DEF Quiet, Knows, ExtendDeadline, Extend, LoadedClose, TypePrompt, DispatchFails,
     HasWaiter, RemoveStaleWaiter, NoWaiterFound, Recheck, PostCheck, PostCreate,
     PostWrite, PollFindsClosed, PollAgain, PollGivesUp, PollMcpAgain, PollMcpElapses, KillAsker,
     At, Goto, Ends, WaitOrReturn, mailboxVars, askerRest
<1>2. ASSUME AnswererStep \/ Reply \/ KillAnswerer \/ Tick \/ UNCHANGED vars
      PROVE  Quiet
  <2>1. UNCHANGED <<askerVars, cursor, expires>>
    BY <1>2 DEF AnswererStep, ReplyLoad, ReplyCheck, ReplyWrite, ReplyRecheck, ReplyClose,
       ReplyCreate, WaitRegister, WaitPoll, WaitClosed, WaitGivesUp, WaitLast, WaitAck,
       WaitRemove, Reply, KillAnswerer, Tick, vars, mailboxVars
  <2>. QED
    BY <2>1 DEF Quiet, Knows, askerVars, askerRest
<1>3. CASE \E c \in Commands : AskNew(c) \/ StartOnThread(c)
  <2>1. ASSUME NEW c \in Commands, AskNew(c)
        PROVE  SeenInv'
    <3>1. expires' # 0 /\ HandedUpTo(0)
      <4>1. expires' \in Nat /\ expires' # 0
        BY <2>1, AskReplyAssumption, MailboxAssumption DEF AskNew, IInv, TypeOK, MailboxTypeOK
      <4>2. handed = << >>
        BY <2>1 DEF AskNew, SeenInv, HandedSeen
      <4>. QED
        BY <4>1, <4>2 DEF HandedUpTo
    <3>. QED
      BY <2>1, <3>1, SetsOut DEF AskNew
  <2>2. ASSUME NEW c \in Commands, StartOnThread(c)
        PROVE  SeenInv'
    BY <2>2, SetsOut DEF StartOnThread, mailboxVars, Knows
  <2>. QED
    BY <1>3, <2>1, <2>2
<1>4. CASE LoadMessages
  BY <1>4, ReadsThread DEF LoadMessages, At, mailboxVars, askerRest, Knows
<1>5. CASE LoadedFollowUp \/ LoadedAwait \/ PollMcp
  <2>1. /\ UNCHANGED <<msgs, cursor, handed, expires>> /\ view' \in {view, {}}
        /\ apc = "loaded" /\ apc' \notin {"loaded", "print"}
        /\ after' \in {LastAnswer(view), cursor}
    BY <1>5 DEF LoadedFollowUp, LoadedAwait, PollMcp, At, Goto, Ends, mailboxVars
  <2>2. after' \in Replies \cup {0} /\ HandedUpTo(after') /\ expires # 0
    BY <2>1, LastIsKnown DEF SeenInv, ThreadSeen
  <2>. QED
    BY <2>1, <2>2, SetsOut
<1>6. CASE PollMessages
  BY <1>6, ReadsThread DEF PollMessages, At, mailboxVars, askerRest, Knows
<1>7. CASE LastRead
  <2>1. CASE Answers(Readable, after) # {}
    BY <1>7, <2>1, ReadsThread DEF LastRead, At, mailboxVars, askerRest, Knows
  <2>2. CASE Answers(Readable, after) = {}
    <3>1. Quiet
      BY <1>7, <2>2 DEF LastRead, At, Ends, mailboxVars, askerRest, Knows, Quiet
    <3>. QED
      BY <1>0, <3>1, QuietKeeps
  <2>. QED
    BY <2>1, <2>2
<1>. QED
  BY <1>0, <1>1, <1>2, <1>3, <1>4, <1>5, <1>6, <1>7, QuietKeeps, MarkKeepsSeen, PrintKeepsSeen
     DEF Next, AskerStep

-----------------------------------------------------------------------------
(* Delivery: what travels through the mailbox *)

\* An answerer that replies, and one that may still take a message from the
\* mailbox: it waits for what comes after its last reply, or is about to.
Replying == {"rwrite", "rrecheck", "rclose", "wregister"}
MayTake(n) == rpc \in AnswererWaiting \cup Replying /\ rseq < n
Overtaken == \E i \in 1..Len(msgs) : i > after /\ msgs[i].from = "answerer"

\* How the message of a command travels, place by place, and that it comes after
\* the answer the command knows of.
Sent ==
    /\ apc \in {"load", "loaded", "extend", "between"} => deliv = "none" /\ aseq = 0
    /\ apc = "dispatch" => deliv = "pane"
    /\ apc \in {"waiter", "stale", "nowaiter"} =>
          deliv = (IF aseq = 0 THEN "none" ELSE "mailbox")
    /\ apc = "recheck" => deliv = "mailbox" /\ aseq # 0
    /\ apc # "idle" /\ aseq # 0 => aseq > after

\* A live marker is that of a process that waits, and whoever waits has replied.
Waits ==
    /\ waiter.proc = "live" => rpc \in AnswererWaiting
    /\ rpc \in AnswererWaiting \cup Replying => rseq # 0 /\ msgs[rseq].from = "answerer"

\* A mailbox was chosen because somebody waited: who replies now replies later.
Late ==
    (deliv = "mailbox" /\ apc \in {"pcheck", "pcreate", "pwrite", "waiter", "stale",
                                   "nowaiter", "recheck"})
        => (rpc \in Replying => rseq > after)

\* After the recheck delay, who may still take the follow-up has sent a reply that
\* overtakes it; so what is typed into the pane instead is nobody's to take.
Rechecked ==
    /\ apc \in {"stale", "nowaiter", "recheck"} /\ aseq # 0 /\ MayTake(aseq)
          => rpc # "rwrite" /\ rseq > after
    /\ apc = "recheck" /\ aseq \in acks => Answers(Readable, after) # {}
    /\ apc = "dispatch" /\ aseq # 0 => aseq \notin acks /\ ~MayTake(aseq)
    /\ \A r \in retyped : r \notin acks /\ ~MayTake(r)

DeliveryInv == Sent /\ Waits /\ Late /\ Rechecked /\ NotStranded

\* What a step of the answerer's side does.
Answering ==
    /\ UNCHANGED askerVars
    /\ closed # "open" => closed' # "open"
    /\ \/ /\ rseq' = rseq /\ (rpc' = "rwrite" => rpc = "rwrite")
          /\ rpc' \in Replying => rpc \in Replying
          /\ rpc' \in AnswererWaiting => rpc \in AnswererWaiting \cup Replying
       \/ rseq' = Len(msgs) + 1 /\ rpc' = "rwrite" /\ msgs'[Len(msgs) + 1].from = "answerer"
    /\ \/ acks' = acks
       \/ rpc = "wack" /\ \E n \in Readable : acks' = acks \cup {n} /\ rseq < n
    /\ waiter'.proc = "live" => rpc' \in AnswererWaiting

LEMMA AnswererSteps ==
    ASSUME IInv, Waits, AnswererStep \/ Reply \/ KillAnswerer \/ Tick \/ UNCHANGED vars
    PROVE  Answering
<1>1. ASSUME NEW kind \in Kinds, ReplyCreate(kind)
      PROVE  Answering
  <2>1. msgs'[Len(msgs) + 1].from = "answerer"
    BY <1>1, Created DEF ReplyCreate, Roles, Deliveries, IInv, TypeOK, MailboxTypeOK
  <2>. QED
    BY <1>1, <2>1 DEF ReplyCreate, Answering, Waits, Replying, AnswererWaiting
<1>2. CASE WaitAck
  <2>1. /\ FollowUps(Readable, rseq) # {} /\ rseq \in Nat
        /\ FollowUps(Readable, rseq) \subseteq Readable /\ Readable \subseteq Nat
    BY <1>2, ReadsInRange
       DEF WaitAck, IInv, Located, TypeOK, MailboxTypeOK, FollowUps, From
  <2>2. Min(FollowUps(Readable, rseq)) \in FollowUps(Readable, rseq)
    BY <2>1, MinIn
  <2>3. Min(FollowUps(Readable, rseq)) \in Readable /\ rseq < Min(FollowUps(Readable, rseq))
    BY <2>1, <2>2 DEF FollowUps, From
  <2>. QED
    BY <1>2, <2>3 DEF WaitAck, Answering, Waits, Replying, AnswererWaiting
<1>3. CASE KillAnswerer
  <2>1. waiter'.proc # "live"
    BY <1>3 DEF KillAnswerer, IInv, TypeOK, MailboxTypeOK
  <2>. QED
    BY <1>3, <2>1 DEF KillAnswerer, Answering, Replying, AnswererWaiting
<1>4. CASE ReplyLoad \/ ReplyCheck \/ ReplyWrite \/ ReplyRecheck \/ ReplyClose \/ Reply
  BY <1>4 DEF ReplyLoad, ReplyCheck, ReplyWrite, ReplyRecheck, ReplyClose, Reply, Close,
     mailboxVars, Answering, Waits, Replying, AnswererWaiting
<1>5. CASE WaitRegister \/ WaitPoll \/ WaitClosed \/ WaitGivesUp \/ WaitLast \/ WaitRemove
  BY <1>5 DEF WaitRegister, WaitPoll, WaitClosed, WaitGivesUp, WaitLast, WaitRemove, NoWaiter,
     mailboxVars, Answering, Waits, Replying, AnswererWaiting
<1>6. CASE Tick \/ UNCHANGED vars
  BY <1>6 DEF Tick, vars, mailboxVars, answererVars, Answering, Waits, Replying, AnswererWaiting
<1>. QED
  BY <1>1, <1>2, <1>3, <1>4, <1>5, <1>6 DEF AnswererStep

\* A message stays overtaken.
LEMMA OvertakenStays ==
    ASSUME IInv, Grows, after' = after, Overtaken
    PROVE  Overtaken'
<1>1. PICK i \in 1..Len(msgs) : i > after /\ msgs[i].from = "answerer"
  BY DEF Overtaken
<1>2. i \in 1..Len(msgs') /\ msgs'[i].from = "answerer"
  BY <1>1 DEF Grows, IInv, TypeOK, MailboxTypeOK
<1>. QED
  BY <1>1, <1>2 DEF Overtaken

\* The answerer's side takes from the mailbox only what MayTake allows.
LEMMA AnsweringKeepsDelivery ==
    ASSUME IInv, SeenInv, DeliveryInv, Grows, Answering
    PROVE  DeliveryInv'
<1>0. /\ Len(msgs) \in Nat /\ aseq \in 0..Len(msgs) /\ rseq \in 0..Len(msgs)
      /\ after \in 0..Len(msgs) /\ after \in Nat /\ retyped \subseteq 1..Len(msgs)
      /\ Readable \subseteq 1..Len(msgs) /\ MailboxTypeOK
  BY ReadsInRange, AnswersAre DEF IInv, TypeOK, MailboxTypeOK, SeenInv, ThreadSeen, Replies
<1>1. UNCHANGED <<apc, deliv, aseq, after, retyped>>
  BY DEF Answering, askerVars, askerRest
<1>2. ASSUME NEW n \in 0..Len(msgs), MayTake(n)'
      PROVE  MayTake(n) /\ rseq' = rseq /\ (rpc' = "rwrite" => rpc = "rwrite")
  BY <1>0, <1>2 DEF MayTake, Answering
<1>3. ASSUME NEW n \in acks', n \notin acks
      PROVE  n \in Readable /\ MayTake(n) /\ rpc = "wack"
  BY <1>3 DEF Answering, MayTake, AnswererWaiting
<1>4. Sent'
  BY <1>1 DEF DeliveryInv, Sent
<1>5. Waits'
  <2>1. CASE rseq' = rseq
    <3>1. rpc' \in AnswererWaiting \cup Replying => rpc \in AnswererWaiting \cup Replying
      BY <1>0, <2>1 DEF Answering
    <3>2. rseq # 0 => msgs'[rseq].from = msgs[rseq].from
      BY <1>0 DEF Grows
    <3>. QED
      BY <2>1, <3>1, <3>2 DEF DeliveryInv, Waits, Answering
  <2>2. CASE rseq' # rseq
    BY <1>0, <2>2 DEF Waits, Answering
  <2>. QED
    BY <2>1, <2>2
<1>6. Late'
  BY <1>0, <1>1 DEF DeliveryInv, Late, Answering
<1>7. Rechecked'
  <2>1. apc' \in {"stale", "nowaiter", "recheck"} /\ aseq' # 0 /\ MayTake(aseq)'
           => rpc' # "rwrite" /\ rseq' > after'
    <3>1. MayTake(aseq)' => MayTake(aseq) /\ rseq' = rseq /\ (rpc' = "rwrite" => rpc = "rwrite")
      BY <1>0, <1>1, <1>2 DEF MayTake
    <3>. QED
      BY <1>1, <3>1 DEF DeliveryInv, Rechecked
  <2>2. ASSUME apc' = "recheck", aseq' \in acks'
        PROVE  (Answers(Readable, after) # {})'
    <3>1. Answers(Readable, after) # {}
      <4>1. CASE aseq \in acks
        BY <1>1, <2>2, <4>1 DEF DeliveryInv, Rechecked
      <4>2. CASE aseq \notin acks
        <5>1. aseq \in Readable /\ MayTake(aseq) /\ rpc = "wack"
          BY <1>1, <1>3, <2>2, <4>2
        <5>2. rseq > after /\ rseq # 0 /\ rseq < aseq /\ msgs[rseq].from = "answerer"
          BY <1>1, <2>2, <5>1, <1>0 DEF DeliveryInv, Rechecked, Waits, MayTake, AnswererWaiting
        <5>3. rseq \in Readable
          BY <1>0, <5>1, <5>2 DEF Readable
        <5>4. rseq \in Answers(Readable, after)
          BY <1>0, <5>2, <5>3, AnswersAre
        <5>. QED
          BY <5>4
      <4>. QED
        BY <4>1, <4>2
    <3>2. PICK i \in Readable : i > after /\ msgs[i].from = "answerer"
                                /\ msgs[i].delivery \in Deliveries
      BY <3>1 DEF Answers, From
    <3>3. i \in Readable' /\ msgs'[i].from = "answerer" /\ msgs'[i].delivery \in Deliveries
      BY <1>0, <3>2, GrownReads DEF Grows
    <3>. QED
      BY <1>1, <3>2, <3>3 DEF Answers, From
  <2>3. apc' = "dispatch" /\ aseq' # 0 => aseq' \notin acks' /\ ~MayTake(aseq)'
    <3>1. MayTake(aseq)' => MayTake(aseq)
      BY <1>0, <1>1, <1>2 DEF MayTake
    <3>. QED
      BY <1>1, <1>3, <3>1 DEF DeliveryInv, Rechecked
  <2>4. ASSUME NEW r \in retyped'
        PROVE  r \notin acks' /\ ~MayTake(r)'
    <3>1. r \in retyped /\ r \in 0..Len(msgs)
      BY <1>0, <1>1
    <3>. QED
      BY <1>2, <1>3, <3>1 DEF DeliveryInv, Rechecked
  <2>. QED
    BY <2>1, <2>2, <2>3, <2>4 DEF Rechecked
<1>8. NotStranded'
  <2>1. acks \subseteq acks' /\ (closed # "open" => closed' # "open")
    BY DEF Answering
  <2>2. Overtaken => Overtaken'
    BY <1>1, OvertakenStays
  <2>. QED
    BY <1>1, <2>1, <2>2 DEF DeliveryInv, NotStranded, Overtaken
<1>. QED
  BY <1>4, <1>5, <1>6, <1>7, <1>8 DEF DeliveryInv

\* What every step of the asker's side leaves alone.
LEMMA AskerFrame ==
    ASSUME IInv, Waits, Grows,
           AskerStep \/ KillAsker \/ \E c \in Commands : AskNew(c) \/ StartOnThread(c)
    PROVE  /\ UNCHANGED <<acks, rpc, rseq>> /\ Waits'
           /\ closed # "open" => closed' # "open"
<1>1. UNCHANGED <<acks, rpc, rseq>> /\ waiter' \in {waiter, NoWaiter}
      /\ (closed # "open" => closed' # "open")
  BY DEF AskerStep, LoadMessages, LoadedFollowUp, LoadedAwait, ExtendDeadline,
     LoadedClose, TypePrompt, DispatchFails, HasWaiter, RemoveStaleWaiter, NoWaiterFound,
     Recheck, PostCheck, PostCreate, PostWrite, PollMessages, PollFindsClosed, PollAgain,
     PollGivesUp, LastRead, PollMcp, PollMcpAgain, PollMcpElapses, Mark, PrintAnswer,
     KillAsker, AskNew, StartOnThread, Close, mailboxVars, answererVars
<1>2. waiter'.proc = "live" => waiter.proc = "live"
  BY <1>1 DEF NoWaiter
<1>3. rseq # 0 => msgs'[rseq].from = msgs[rseq].from
  BY DEF Grows, IInv, TypeOK, MailboxTypeOK
<1>. QED
  BY <1>1, <1>2, <1>3 DEF Waits

\* A waiter that is still there after the recheck delay has replied meanwhile.
LEMMA WaiterReplied ==
    ASSUME IInv, SeenInv, DeliveryInv, HasWaiter, RecheckIsTimely = TRUE, deliv = "mailbox"
    PROVE  /\ WaiterCounts => Overtaken
           /\ MayTake(aseq) => rpc # "rwrite" /\ rseq > after
<1>1. /\ aseq # 0 /\ aseq > after /\ rseq \in 0..Len(msgs) /\ aseq \in 0..Len(msgs)
      /\ Len(msgs) \in Nat /\ after \in Nat
  BY DEF HasWaiter, At, DeliveryInv, Sent, IInv, TypeOK, MailboxTypeOK
<1>2. ~(rpc \in AnswererWaiting \cup {"rwrite"} /\ rseq < aseq)
  BY DEF HasWaiter
<1>3. WaiterCounts => Overtaken
  <2>1. SUFFICES ASSUME WaiterCounts PROVE Overtaken
    OBVIOUS
  <2>2. rpc \in AnswererWaiting /\ rseq # 0 /\ msgs[rseq].from = "answerer"
    BY <2>1 DEF WaiterCounts, DeliveryInv, Waits
  <2>. QED
    BY <1>1, <1>2, <2>2 DEF Overtaken
<1>4. MayTake(aseq) => rpc # "rwrite" /\ rseq > after
  BY <1>2 DEF MayTake, HasWaiter, At, DeliveryInv, Late, Replying, AnswererWaiting
<1>. QED
  BY <1>3, <1>4

\* When the recheck finds no answer, nobody took the follow-up and nobody will.
LEMMA RecheckFindsAnswer ==
    ASSUME IInv, SeenInv, DeliveryInv, Recheck
    PROVE  /\ LastAnswer(Readable) # after => Overtaken
           /\ LastAnswer(Readable) = after => aseq \notin acks /\ ~MayTake(aseq)
<1>1. /\ aseq # 0 /\ aseq > after /\ rseq \in 0..Len(msgs) /\ aseq \in 0..Len(msgs)
      /\ Len(msgs) \in Nat /\ after \in Nat /\ MailboxTypeOK
      /\ Readable \in SUBSET (1..Len(msgs)) /\ after \in Replies \cup {0}
      /\ apc = "recheck"
  BY ReadsInRange DEF Recheck, At, DeliveryInv, Sent, IInv, TypeOK, MailboxTypeOK,
     SeenInv, ThreadSeen
<1>2. /\ LastAnswer(Readable) \in Replies \cup {0}
      /\ \A i \in Replies : i <= LastAnswer(Readable)
  BY <1>1, NextAndLast DEF Replies
<1>3. \A i \in Replies : i \in 1..Len(msgs) /\ i \in Nat /\ msgs[i].from = "answerer"
  BY <1>1, AnswersAre DEF Replies
<1>4. LastAnswer(Readable) # after => Overtaken
  <2>1. SUFFICES ASSUME LastAnswer(Readable) # after PROVE Overtaken
    OBVIOUS
  <2>2. LastAnswer(Readable) \in Nat /\ LastAnswer(Readable) >= after
    <3>1. after \in Replies => after <= LastAnswer(Readable)
      BY <1>2
    <3>2. LastAnswer(Readable) \in Nat /\ after \in Nat
      <4>1. \A i \in Replies \cup {0} : i \in Nat
        BY <1>3
      <4>. QED
        BY <1>1, <1>2, <4>1
    <3>. HIDE DEF Replies
    <3>. QED
      BY <1>1, <3>1, <3>2
  <2>3. LastAnswer(Readable) > after /\ LastAnswer(Readable) \in Replies
    BY <1>1, <1>2, <2>1, <2>2
  <2>. QED
    BY <1>3, <2>3 DEF Overtaken
<1>5. LastAnswer(Readable) = after => Answers(Readable, after) = {}
  <2>1. \A i \in Answers(Readable, after) : i \in Replies /\ i > after
    BY <1>1, AnswersAre DEF Replies
  <2>2. \A i \in Replies : i \in Nat /\ i <= LastAnswer(Readable)
    BY <1>2, <1>3
  <2>3. after \in Nat
    BY <1>1
  <2>. QED
    BY <2>1, <2>2, <2>3
<1>6. Answers(Readable, after) = {} => aseq \notin acks
  BY <1>1 DEF DeliveryInv, Rechecked
<1>7. Answers(Readable, after) = {} => ~MayTake(aseq)
  <2>1. SUFFICES ASSUME MayTake(aseq) PROVE Answers(Readable, after) # {}
    OBVIOUS
  <2>2. rpc # "rwrite" /\ rseq > after /\ rseq < aseq /\ rseq # 0
        /\ msgs[rseq].from = "answerer"
    BY <1>1, <2>1 DEF DeliveryInv, Rechecked, Waits, MayTake
  <2>3. rseq \in 1..Len(msgs)
    BY <1>1, <2>2
  <2>4. \A i \in 1..rseq : msgs[i].done
    BY <1>1, <2>2, <2>3 DEF IInv, Writers
  <2>5. rseq \in Readable
    BY <2>3, <2>4 DEF Readable
  <2>. QED
    BY <1>1, <2>2, <2>5, AnswersAre
<1>. QED
  BY <1>4, <1>5, <1>6, <1>7

\* The asker's side keeps it.
LEMMA AskingKeepsDelivery ==
    ASSUME IInv, SeenInv, DeliveryInv, Grows, RecheckIsTimely = TRUE,
           AskerStep \/ KillAsker \/ \E c \in Commands : AskNew(c) \/ StartOnThread(c)
    PROVE  DeliveryInv'
<1>0. /\ UNCHANGED <<acks, rpc, rseq>> /\ Waits'
      /\ closed # "open" => closed' # "open"
      /\ \A n : MayTake(n)' <=> MayTake(n)
      /\ after' = after /\ Overtaken => Overtaken'
  <2>1. UNCHANGED <<acks, rpc, rseq>> /\ Waits' /\ (closed # "open" => closed' # "open")
    BY AskerFrame DEF DeliveryInv
  <2>. QED
    BY <2>1, OvertakenStays DEF MayTake
<1>. DEFINE Delivered == Sent /\ Late /\ Rechecked /\ NotStranded
            Aims == UNCHANGED <<aseq, deliv, after, retyped>>
<1>s. /\ Delivered
      /\ NotStranded <=> ((apc \in {"poll", "polled"} /\ deliv = "mailbox")
                            => aseq \in acks \/ Overtaken \/ closed # "open")
      /\ NotStranded' <=> ((apc' \in {"poll", "polled"} /\ deliv' = "mailbox")
                            => aseq' \in acks' \/ Overtaken' \/ closed' # "open")
  BY DEF DeliveryInv, NotStranded, Overtaken
<1>. SUFFICES Delivered'
  BY <1>0 DEF DeliveryInv
<1>i. CASE apc' = "idle" /\ UNCHANGED retyped
  BY <1>0, <1>s, <1>i DEF Sent, Late, Rechecked
<1>m. CASE apc' \in {"lastread", "mark", "print"} /\ UNCHANGED retyped
           /\ Aims /\ apc \notin {"load", "loaded", "idle"}
  BY <1>0, <1>s, <1>m DEF Sent, Late, Rechecked
<1>1. CASE \E c \in Commands : AskNew(c) \/ StartOnThread(c)
  BY <1>0, <1>s, <1>1 DEF AskNew, StartOnThread, Sent, Late, Rechecked
<1>2. CASE LoadMessages
  BY <1>0, <1>s, <1>2 DEF LoadMessages, At, askerRest, Sent, Late, Rechecked
<1>3. CASE LoadedFollowUp \/ LoadedAwait \/ PollMcp
  <2>1. /\ apc = "loaded" /\ apc' \in {"waiter", "idle", "extend", "poll", "mark", "between"}
        /\ UNCHANGED <<aseq, deliv, retyped>>
    BY <1>3 DEF LoadedFollowUp, LoadedAwait, PollMcp, At, Goto, Ends
  <2>. QED
    BY <1>0, <1>s, <2>1 DEF Sent, Late, Rechecked
<1>4. CASE ExtendDeadline \/ PollMcpAgain \/ PollMcpElapses
  <2>1. /\ apc \in {"extend", "between"} /\ apc' \in {"poll", "idle", "load", "extend"} /\ Aims
    BY <1>4 DEF ExtendDeadline, PollMcpAgain, PollMcpElapses, At, Goto, Ends, askerRest
  <2>. QED
    BY <1>0, <1>s, <2>1 DEF Sent, Late, Rechecked
<1>5. CASE LoadedClose \/ DispatchFails \/ PollFindsClosed \/ PrintAnswer \/ KillAsker
  BY <1>i, <1>5 DEF LoadedClose, DispatchFails, PollFindsClosed, PrintAnswer, KillAsker,
     Ends, askerRest
<1>6. CASE TypePrompt
  <2>1. /\ apc = "dispatch" /\ apc' = "pcheck" /\ UNCHANGED <<aseq, deliv, after>>
        /\ \A r \in retyped' : r \in retyped \/ (r = aseq /\ aseq # 0)
    BY <1>6 DEF TypePrompt, At, Goto
  <2>. QED
    BY <1>0, <1>s, <2>1 DEF Sent, Late, Rechecked
<1>7. CASE HasWaiter
  <2>1. apc = "waiter" /\ UNCHANGED <<aseq, after, retyped, closed>>
    BY <1>7 DEF HasWaiter, At, mailboxVars
  <2>2. CASE ~WaiterCounts
    <3>1. apc' \in {"nowaiter", "stale"} /\ deliv' = deliv
      BY <1>7, <2>2 DEF HasWaiter, Goto
    <3>2. aseq # 0 /\ MayTake(aseq) => rpc # "rwrite" /\ rseq > after
      BY <1>s, <1>7, <2>1, WaiterReplied DEF Sent
    <3>. QED
      BY <1>0, <1>s, <2>1, <3>1, <3>2 DEF Sent, Late, Rechecked
  <2>3. CASE WaiterCounts /\ deliv = "mailbox"
    <3>1. apc' \in {"poll", "idle"} /\ deliv' = deliv /\ Overtaken'
      BY <1>0, <1>7, <2>1, <2>3, WaiterReplied DEF HasWaiter, WaitOrReturn, Goto, Ends, WaiterCounts
    <3>. QED
      BY <1>0, <1>s, <2>1, <3>1 DEF Sent, Late, Rechecked
  <2>4. CASE WaiterCounts /\ deliv # "mailbox"
    <3>1. apc' = "pcheck" /\ deliv' = "mailbox" /\ aseq = 0
      BY <1>7, <1>s, <2>1, <2>4 DEF HasWaiter, Goto, WaiterCounts, Sent
    <3>2. rpc \notin Replying
      BY <2>4 DEF WaiterCounts, DeliveryInv, Waits, AnswererWaiting, Replying
    <3>. QED
      BY <1>0, <1>s, <2>1, <3>1, <3>2 DEF Sent, Late, Rechecked
  <2>. QED
    BY <2>2, <2>3, <2>4
<1>8. CASE RemoveStaleWaiter
  <2>1. apc = "stale" /\ apc' = "nowaiter" /\ Aims
    BY <1>8 DEF RemoveStaleWaiter, At, Goto, askerRest
  <2>. QED
    BY <1>0, <1>s, <2>1 DEF Sent, Late, Rechecked
<1>9. CASE NoWaiterFound
  <2>1. /\ apc = "nowaiter" /\ UNCHANGED <<aseq, after, retyped>>
        /\ \/ deliv = "none" /\ apc' = "dispatch" /\ deliv' = "pane"
           \/ deliv' = "mailbox" /\ aseq \in acks /\ apc' \in {"poll", "idle"}
           \/ deliv = "mailbox" /\ deliv' = deliv /\ aseq \notin acks /\ apc' = "recheck"
    BY <1>9 DEF NoWaiterFound, At, Goto, WaitOrReturn, Ends
  <2>. QED
    BY <1>0, <1>s, <2>1 DEF Sent, Late, Rechecked
<1>10. CASE Recheck
  <2>1. apc = "recheck" /\ UNCHANGED <<aseq, after, retyped, closed>>
    BY <1>10 DEF Recheck, At, mailboxVars
  <2>2. CASE LastAnswer(Readable) # after \/ closed # "open"
    <3>1. apc' \in {"poll", "idle"} /\ deliv' = deliv /\ (Overtaken' \/ closed' # "open")
      BY <1>0, <1>10, <2>1, <2>2, RecheckFindsAnswer DEF Recheck, WaitOrReturn, Goto, Ends
    <3>. QED
      BY <1>0, <1>s, <2>1, <3>1 DEF Sent, Late, Rechecked
  <2>3. CASE ~(LastAnswer(Readable) # after \/ closed # "open")
    <3>1. apc' = "dispatch" /\ deliv' = "pane" /\ aseq \notin acks /\ ~MayTake(aseq)
      BY <1>10, <2>3, RecheckFindsAnswer DEF Recheck, Goto
    <3>. QED
      BY <1>0, <1>s, <2>1, <3>1 DEF Sent, Late, Rechecked
  <2>. QED
    BY <2>2, <2>3
<1>11. CASE PostCheck
  <2>1. /\ apc = "pcheck" /\ Aims /\ closed' = closed
        /\ apc' \in {"pcreate", "idle"} \/ (apc' = "poll" /\ closed # "open")
    BY <1>11 DEF PostCheck, At, Goto, WaitOrReturn, Ends, mailboxVars, askerRest
  <2>. QED
    BY <1>0, <1>s, <2>1 DEF Sent, Late, Rechecked
<1>12. CASE PostCreate
  <2>1. apc = "pcreate" /\ apc' = "pwrite" /\ UNCHANGED <<deliv, after, retyped>>
        /\ aseq' = Len(msgs) + 1
    BY <1>12 DEF PostCreate, At, Goto
  <2>2. aseq' > after
    BY <2>1, ReadsInRange, AnswersAre, SMTT(60)
       DEF IInv, TypeOK, MailboxTypeOK, SeenInv, ThreadSeen, Replies
  <2>. QED
    BY <1>0, <1>s, <2>1, <2>2 DEF Sent, Late, Rechecked
<1>13. CASE PostWrite
  <2>1. /\ apc = "pwrite" /\ Aims /\ aseq # 0
        /\ \/ deliv = "mailbox" /\ apc' = "waiter"
           \/ deliv # "mailbox" /\ apc' \in {"poll", "idle"}
    BY <1>13 DEF PostWrite, At, Goto, WaitOrReturn, Ends, askerRest, IInv, Located
  <2>. QED
    BY <1>0, <1>s, <2>1 DEF Sent, Late, Rechecked
<1>14. CASE PollMessages \/ PollAgain
  <2>1. apc \in {"poll", "polled"} /\ apc' \in {"poll", "polled", "mark"} /\ Aims
    BY <1>14 DEF PollMessages, PollAgain, At, Goto, askerRest
  <2>. QED
    BY <1>0, <1>s, <2>1 DEF Sent, Late, Rechecked
<1>15. CASE PollGivesUp \/ LastRead \/ Mark
  <2>1. apc \in {"polled", "lastread", "mark"} /\ apc' \in {"lastread", "mark", "print", "idle"}
        /\ Aims
    BY <1>15 DEF PollGivesUp, LastRead, Mark, At, Goto, Ends, askerRest
  <2>. QED
    BY <1>i, <1>m, <2>1
<1>. QED
  BY <1>1, <1>2, <1>3, <1>4, <1>5, <1>6, <1>7, <1>8, <1>9, <1>10, <1>11, <1>12, <1>13, <1>14,
     <1>15 DEF AskerStep

\* Answers come out once and in order, whatever the bounds, the commands that fetch
\* them, the timing of a recheck and the kills between two file operations.
THEOREM OrderKept ==
    ASSUME KillMidWrite = FALSE PROVE Spec => []RepliesHandedInOrder
<1>1. Init => SeenInv
  BY DEF Init, MailboxInit, SeenInv, ThreadSeen, HandedSeen, RepliesHandedInOrder, HandedIn,
     HandedUpTo, Knows
<1>2. IInv /\ SeenInv /\ [Next]_vars => SeenInv'
  BY SeenStep
<1>3. SeenInv => RepliesHandedInOrder
  BY DEF SeenInv
<1>. QED
  BY <1>1, <1>2, <1>3, Invariant, PTL DEF Spec

\* The inductive invariant of delivery.
LEMMA DeliveryInvariant ==
    ASSUME KillMidWrite = FALSE, RecheckIsTimely = TRUE
    PROVE  Spec => [](SeenInv /\ DeliveryInv)
<1>1. Init => SeenInv /\ DeliveryInv
  BY DEF Init, MailboxInit, SeenInv, ThreadSeen, HandedSeen, RepliesHandedInOrder, HandedIn,
     HandedUpTo, Knows, DeliveryInv, Sent, Waits, Late, Rechecked, NotStranded, NoWaiter,
     AnswererWaiting, Replying
<1>2. IInv /\ SeenInv /\ DeliveryInv /\ [Next]_vars => SeenInv' /\ DeliveryInv'
  <2>1. SUFFICES ASSUME IInv, SeenInv, DeliveryInv, [Next]_vars
                 PROVE  SeenInv' /\ DeliveryInv'
    OBVIOUS
  <2>2. Grows /\ SeenInv'
    BY <2>1, ThreadGrows, SeenStep
  <2>3. CASE AnswererStep \/ Reply \/ KillAnswerer \/ Tick \/ UNCHANGED vars
    <3>1. Answering
      BY <2>1, <2>3, AnswererSteps DEF DeliveryInv
    <3>. QED
      BY <2>1, <2>2, <3>1, AnsweringKeepsDelivery
  <2>4. CASE AskerStep \/ KillAsker \/ \E c \in Commands : AskNew(c) \/ StartOnThread(c)
    BY <2>1, <2>2, <2>4, AskingKeepsDelivery
  <2>. QED
    BY <2>1, <2>2, <2>3, <2>4 DEF Next
<1>. QED
  BY <1>1, <1>2, Invariant, PTL DEF Spec

\* With a waiter that polls within the recheck delay: no follow-up that its waiter
\* took, or may still take, is typed into the pane, and no answer comes twice.
THEOREM ArriveOnce ==
    ASSUME KillMidWrite = FALSE, RecheckIsTimely = TRUE
    PROVE  Spec => []MessagesArriveOnce
<1>1. SeenInv /\ DeliveryInv => MessagesArriveOnce
  BY DEF SeenInv, DeliveryInv, Rechecked, MessagesArriveOnce, NoDoubleDelivery
<1>. QED
  BY <1>1, DeliveryInvariant, PTL

\* With such a waiter, an asker that settled for the mailbox copy was heard,
\* overtaken or closed, and does not wait for nobody.
THEOREM NobodyStranded ==
    ASSUME KillMidWrite = FALSE, RecheckIsTimely = TRUE PROVE Spec => []NotStranded
<1>1. SeenInv /\ DeliveryInv => NotStranded
  BY DEF DeliveryInv
<1>. QED
  BY <1>1, DeliveryInvariant, PTL
=============================================================================
