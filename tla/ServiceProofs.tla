--------------------------- MODULE ServiceProofs -----------------------------
(***************************************************************************)
(* Proofs about the services around the panes, which share no state: the   *)
(* daemons' idle times, the pushes of credential requests, the saves and   *)
(* restores of sessions, the history of closed ones, a wait for a pane,    *)
(* credential requests and the subscriptions by which browsers are told of *)
(* them.  Each holds for any hosts, requests, sessions, commands, browsers *)
(* and options, and whatever the bounds are.                               *)
(***************************************************************************)
EXTENDS HumanActivity, SnapshotStream, SessionSnapshots, SessionHistory, PaneWait,
        CredentialRequests, PushSubscriptions, MinMaxLemmas, FiniteSetTheorems, TLAPS

(***************************************************************************)
(* The daemons' idle times.                                                *)
(***************************************************************************)
Ages == 0..Old
FetchKinds == {"no", "sent", "served"}
Fetches == [at : FetchKinds, from : Hosts \cup {"nobody"}, carries : Ages, age : 0..FetchTakes]

ActivityTypeOK ==
    /\ local \in [Hosts -> Ages] /\ federated \in [Hosts -> Ages]
    /\ stamp \in [Hosts -> Ages] /\ stampAge \in [Hosts -> 0..ScanEvery]
    /\ fetch \in [Hosts -> Fetches] /\ sinceHuman \in Ages
    /\ \A h \in Hosts : fetch[h].at # "no" => fetch[h].from \in Hosts

\* How old news may be, by where it is: a daemon knows its own human at once; a
\* stamp is as late as the last scan; a fetch adds the time it takes, to what its
\* sender knew on the way there and to the stamp on the way back.
LocalIsTrue == \A h \in Hosts : sinceHuman <= local[h]
StampIsLate == \A h \in Hosts : sinceHuman <= stamp[h] + stampAge[h]
FetchIsLate ==
    \A h \in Hosts :
        /\ fetch[h].at = "sent" => sinceHuman <= fetch[h].carries + fetch[h].age
        /\ fetch[h].at = "served" =>
               sinceHuman <= fetch[h].carries + ScanEvery + fetch[h].age
FederatedIsLate == \A h \in Hosts : sinceHuman <= federated[h] + ScanEvery + FetchTakes

ActivityInv ==
    ActivityTypeOK /\ LocalIsTrue /\ StampIsLate /\ FetchIsLate /\ FederatedIsLate

\* Ages stay ages, and what is older by a tick is younger than what is old.
LEMMA AgeFacts ==
    ASSUME NEW a \in Ages, NEW b \in Ages
    PROVE  /\ Younger(a, b) \in Ages /\ Younger(a, b) \in {a, b}
           /\ Older(a) \in Ages /\ (Older(a) = a + 1 \/ Older(a) = Old)
           /\ Older(a) <= a + 1
           /\ Old \in Nat /\ Old > IdleAfter + ScanEvery + FetchTakes
           /\ 0 \in Ages /\ Old \in Ages
BY ActivityAssumption DEF Ages, Old, Younger, Older

\* What is recorded of another daemon is as late as news may be.
LEMMA RecordedIsLate ==
    ASSUME ActivityInv, NEW h \in Hosts, NEW idle \in Ages, Records(h, idle),
           sinceHuman' = sinceHuman, sinceHuman <= idle + ScanEvery + FetchTakes
    PROVE  FederatedIsLate' /\ federated' \in [Hosts -> Ages]
<1>1. /\ federated \in [Hosts -> Ages] /\ Younger(federated[h], idle) \in Ages
      /\ Younger(federated[h], idle) \in {federated[h], idle}
  BY AgeFacts DEF ActivityInv, ActivityTypeOK
<1>2. federated' = [federated EXCEPT ![h] = Younger(federated[h], idle)]
  BY DEF Records
<1>3. ASSUME NEW k \in Hosts
      PROVE  sinceHuman <= federated'[k] + ScanEvery + FetchTakes
  <2>1. sinceHuman <= federated[k] + ScanEvery + FetchTakes
    BY DEF ActivityInv, FederatedIsLate
  <2>2. federated'[k] \in {federated[k], idle}
    BY <1>1, <1>2
  <2>. QED
    BY <2>1, <2>2
<1>. QED
  BY <1>1, <1>2, <1>3 DEF FederatedIsLate

\* At first nobody has seen a human.
LEMMA ActivityStarts == ActivityInit => ActivityInv
<1>. SUFFICES ASSUME ActivityInit PROVE ActivityInv
  OBVIOUS
<1>. USE ActivityAssumption
<1>1. Old \in Nat /\ 0 \in Ages /\ Old \in Ages
  BY DEF Ages, Old
<1>2. NoFetch \in Fetches /\ NoFetch.at = "no"
  BY <1>1 DEF NoFetch, Fetches, FetchKinds
<1>3. ActivityTypeOK
  BY <1>1, <1>2 DEF ActivityInit, ActivityTypeOK
<1>. QED
  BY <1>1, <1>2, <1>3
  DEF ActivityInit, ActivityInv, LocalIsTrue, StampIsLate, FetchIsLate, FederatedIsLate

\* Every step of the daemons and the clock keeps the news as late as that at most.
LEMMA ActivityStays == ActivityInv /\ [ActivityNext]_actVars => ActivityInv'
<1>. SUFFICES ASSUME ActivityInv, [ActivityNext]_actVars PROVE ActivityInv'
  OBVIOUS
<1>. USE ActivityAssumption DEF ActivityInv, ActivityTypeOK
<1>0. Old \in Nat /\ 0 \in Ages /\ Old \in Ages /\ sinceHuman \in Nat
  BY DEF Ages, Old
<1>1. ASSUME NEW h \in Hosts, SomebodyActs(h)
      PROVE  ActivityInv'
  BY <1>0, <1>1
  DEF SomebodyActs, Ages, Fetches, LocalIsTrue, StampIsLate, FetchIsLate, FederatedIsLate
<1>2. ASSUME NEW h \in Hosts, Scans(h)
      PROVE  ActivityInv'
  BY <1>0, <1>2
  DEF Scans, LocalHumanIdle, Ages, LocalIsTrue, StampIsLate, FetchIsLate, FederatedIsLate
<1>3. ASSUME NEW h \in Hosts, NEW p \in Hosts, FetchSends(h, p)
      PROVE  ActivityInv'
  <2>. DEFINE f == [at |-> "sent", from |-> p, carries |-> local[h], age |-> 0]
  <2>1. f \in Fetches /\ f.at = "sent" /\ f.from = p /\ f.carries = local[h] /\ f.age = 0
    BY <1>0 DEF Fetches, FetchKinds
  <2>2. fetch' = [fetch EXCEPT ![h] = f]
        /\ UNCHANGED <<local, federated, stamp, stampAge, sinceHuman>>
    BY <1>3 DEF FetchSends, LocalHumanIdle
  <2>. HIDE DEF f
  <2>3. FetchIsLate'
    BY <1>0, <2>1, <2>2 DEF FetchIsLate, LocalIsTrue, Ages
  <2>4. ActivityTypeOK'
    BY <2>1, <2>2
  <2>. QED
    BY <2>2, <2>3, <2>4 DEF LocalIsTrue, StampIsLate, FederatedIsLate
<1>4. ASSUME NEW h \in Hosts, Serves(h)
      PROVE  ActivityInv'
  <2>. DEFINE p == fetch[h].from
              f == [fetch[h] EXCEPT !.at = "served", !.carries = stamp[p]]
  <2>1. p \in Hosts /\ fetch[h] \in Fetches /\ fetch[h].at = "sent"
    BY <1>4 DEF Serves
  <2>2. /\ f \in Fetches /\ f.at = "served" /\ f.from = p
        /\ f.carries = stamp[p] /\ f.age = fetch[h].age
    BY <2>1 DEF Fetches, FetchKinds
  <2>3. /\ fetch' = [fetch EXCEPT ![h] = f]
        /\ federated' = [federated EXCEPT ![p] = Younger(federated[p], fetch[h].carries)]
        /\ UNCHANGED <<local, stamp, stampAge, sinceHuman>>
    BY <1>4 DEF Serves, Records
  <2>4. fetch[h].age \in 0..FetchTakes /\ fetch[h].carries \in Ages
    BY <2>1 DEF Fetches
  <2>. HIDE DEF f, p
  <2>5. FetchIsLate'
    BY <1>0, <2>1, <2>2, <2>3, <2>4 DEF FetchIsLate, StampIsLate, Ages
  <2>6. ActivityTypeOK'
    BY <2>1, <2>2, <2>3, <2>4, AgeFacts
  <2>7. FederatedIsLate'
    <3>1. sinceHuman <= fetch[h].carries + fetch[h].age
      BY <2>1 DEF FetchIsLate
    <3>2. sinceHuman <= fetch[h].carries + ScanEvery + FetchTakes
      BY <1>0, <2>4, <3>1 DEF Ages
    <3>. QED
      BY <1>4, <2>1, <2>3, <2>4, <3>2, RecordedIsLate DEF Serves, p
  <2>. QED
    BY <2>3, <2>5, <2>6, <2>7 DEF LocalIsTrue, StampIsLate
<1>5. ASSUME NEW h \in Hosts, FetchEnds(h)
      PROVE  ActivityInv'
  <2>1. fetch[h] \in Fetches /\ fetch[h].at = "served"
    BY <1>5 DEF FetchEnds
  <2>2. fetch[h].age \in 0..FetchTakes /\ fetch[h].carries \in Ages
    BY <2>1 DEF Fetches
  <2>3. NoFetch \in Fetches /\ NoFetch.at = "no"
    BY <1>0 DEF NoFetch, Fetches, FetchKinds
  <2>4. /\ fetch' = [fetch EXCEPT ![h] = NoFetch]
        /\ federated' = [federated EXCEPT ![h] = Younger(federated[h], fetch[h].carries)]
        /\ UNCHANGED <<local, stamp, stampAge, sinceHuman>>
    BY <1>5 DEF FetchEnds, Records
  <2>5. ActivityTypeOK' /\ FetchIsLate'
    BY <2>2, <2>3, <2>4, AgeFacts DEF FetchIsLate
  <2>6. FederatedIsLate'
    <3>1. sinceHuman <= fetch[h].carries + ScanEvery + fetch[h].age
      BY <2>1 DEF FetchIsLate
    <3>2. sinceHuman <= fetch[h].carries + ScanEvery + FetchTakes
      BY <1>0, <2>2, <3>1 DEF Ages
    <3>. QED
      BY <1>5, <2>2, <2>4, <3>2, RecordedIsLate DEF FetchEnds
  <2>. QED
    BY <2>4, <2>5, <2>6 DEF LocalIsTrue, StampIsLate
<1>6. ASSUME NEW h \in Hosts, FetchFails(h)
      PROVE  ActivityInv'
  <2>1. NoFetch \in Fetches /\ NoFetch.at = "no"
    BY <1>0 DEF NoFetch, Fetches, FetchKinds
  <2>. QED
    BY <1>6, <2>1
    DEF FetchFails, LocalIsTrue, StampIsLate, FetchIsLate, FederatedIsLate
<1>7. ASSUME Tick
      PROVE  ActivityInv'
  <2>1. NoFetch \in Fetches /\ NoFetch.at = "no"
    BY <1>0 DEF NoFetch, Fetches, FetchKinds
  <2>2. /\ local' = [h \in Hosts |-> Older(local[h])]
        /\ federated' = [h \in Hosts |-> Older(federated[h])]
        /\ stampAge' = [h \in Hosts |-> stampAge[h] + 1]
        /\ sinceHuman' = Older(sinceHuman) /\ stamp' = stamp
    BY <1>7 DEF Tick
  <2>3. ASSUME NEW h \in Hosts
        PROVE  /\ fetch'[h] \in Fetches /\ fetch'[h].at = fetch[h].at
               /\ fetch[h].at # "no" => /\ fetch'[h].from = fetch[h].from
                                        /\ fetch'[h].carries = fetch[h].carries
                                        /\ fetch'[h].age = fetch[h].age + 1
    <3>1. fetch[h] \in Fetches
      OBVIOUS
    <3>2. CASE fetch[h].at = "no"
      BY <1>7, <2>1, <3>2 DEF Tick
    <3>3. CASE fetch[h].at # "no"
      <4>1. fetch[h].age < FetchTakes /\ fetch'[h] = [fetch[h] EXCEPT !.age = @ + 1]
        BY <1>7, <3>3 DEF Tick
      <4>. QED
        BY <3>1, <3>3, <4>1 DEF Fetches
    <3>. QED
      BY <3>2, <3>3
  <2>4. ASSUME NEW h \in Hosts
        PROVE  stampAge'[h] \in 0..ScanEvery
    BY <1>7, <2>2 DEF Tick
  <2>5. ActivityTypeOK'
    <3>1. fetch' \in [Hosts -> Fetches]
      BY <1>7, <2>3 DEF Tick
    <3>. QED
      BY <2>2, <2>3, <2>4, <3>1, AgeFacts
  <2>6. sinceHuman' <= sinceHuman + 1 /\ sinceHuman' \in Ages /\ sinceHuman' <= Old
    BY <2>2, AgeFacts DEF Ages
  <2>7. LocalIsTrue' /\ FederatedIsLate'
    <3>. SUFFICES ASSUME NEW h \in Hosts
                  PROVE  /\ sinceHuman' <= local'[h]
                         /\ sinceHuman' <= federated'[h] + ScanEvery + FetchTakes
      BY DEF LocalIsTrue, FederatedIsLate
    <3>1. local[h] \in Ages /\ federated[h] \in Ages
      OBVIOUS
    <3>2. /\ local'[h] = local[h] + 1 \/ local'[h] = Old
          /\ federated'[h] = federated[h] + 1 \/ federated'[h] = Old
      BY <2>2, <3>1, AgeFacts
    <3>3. sinceHuman <= local[h] /\ sinceHuman <= federated[h] + ScanEvery + FetchTakes
      BY DEF LocalIsTrue, FederatedIsLate
    <3>. QED
      BY <1>0, <2>6, <3>1, <3>2, <3>3 DEF Ages
  <2>8. StampIsLate'
    BY <1>0, <2>2, <2>6 DEF StampIsLate, Ages
  <2>9. FetchIsLate'
    <3>. SUFFICES ASSUME NEW h \in Hosts
                  PROVE  /\ fetch'[h].at = "sent" =>
                                sinceHuman' <= fetch'[h].carries + fetch'[h].age
                         /\ fetch'[h].at = "served" =>
                                sinceHuman' <= fetch'[h].carries + ScanEvery + fetch'[h].age
      BY DEF FetchIsLate
    <3>1. fetch[h].carries \in Nat /\ fetch[h].age \in Nat
      BY <1>0 DEF Fetches, Ages
    <3>. QED
      BY <1>0, <2>3, <2>6, <3>1 DEF FetchIsLate, Ages
  <2>. QED
    BY <2>5, <2>7, <2>8, <2>9
<1>8. CASE UNCHANGED actVars
  BY <1>8 DEF actVars, LocalIsTrue, StampIsLate, FetchIsLate, FederatedIsLate
<1>. QED
  BY <1>1, <1>2, <1>3, <1>4, <1>5, <1>6, <1>7, <1>8 DEF ActivityNext

\* For any number of daemons and any of the three times: none takes a human for
\* active longer after the last action anywhere than IdleAfter and the time the
\* news takes on one way (statusd/activity.go, statusd/peers.go).
THEOREM DaemonsFallIdle == ActivitySpec => []FallsIdle
<1>1. ActivityInv => FallsIdle
  <2>. SUFFICES ASSUME ActivityInv, NEW h \in Hosts, Active(h)
                PROVE  sinceHuman <= IdleAfter + ScanEvery + FetchTakes
    BY DEF FallsIdle
  <2>1. /\ local[h] \in Nat /\ federated[h] \in Nat /\ sinceHuman \in Nat
        /\ sinceHuman <= local[h] /\ sinceHuman <= federated[h] + ScanEvery + FetchTakes
    BY ActivityAssumption
    DEF ActivityInv, ActivityTypeOK, Ages, Old, LocalIsTrue, FederatedIsLate
  <2>. QED
    BY <2>1, ActivityAssumption DEF Active, Younger
<1>. QED
  BY <1>1, ActivityStarts, ActivityStays, PTL DEF ActivitySpec

(***************************************************************************)
(* The pushes.                                                             *)
(***************************************************************************)
\* What was pushed is known, and what is not known was not pushed.
PushInv ==
    /\ pushes \in [Requests -> Nat]
    /\ \A r \in Requests : pushes[r] <= 1 /\ (r \notin seen => pushes[r] = 0)

\* For any requests of the host and of its peer and any failures of the peer: a
\* request is pushed once (web/cred_push.go, newCredRequests).
THEOREM PushedAtMostOnce == StreamSpec => []PushedOnce
<1>1. StreamInit => PushInv
  BY DEF StreamInit, PushInv
<1>2. PushInv /\ [StreamNext]_streamVars => PushInv'
  <2>. SUFFICES ASSUME PushInv, [StreamNext]_streamVars PROVE PushInv'
    OBVIOUS
  <2>1. CASE Notifies
    BY <2>1 DEF Notifies, Known, PushInv
  <2>2. CASE UNCHANGED <<seen, pushes>>
    BY <2>2 DEF PushInv
  <2>3. CASE (\E r \in Requests : Asked(r) \/ Resolved(r)) \/ PeerAnswers \/ PeerFails
    BY <2>2, <2>3 DEF Asked, Resolved, PeerAnswers, PeerFails
  <2>4. CASE Builds \/ PublishStores \/ PublishOffers
    BY <2>2, <2>4 DEF Builds, PublishStores, PublishOffers
  <2>5. CASE Connects \/ Primes \/ Sends \/ Disconnects
    BY <2>2, <2>5 DEF Connects, Primes, Sends, Disconnects
  <2>6. CASE UNCHANGED streamVars
    BY <2>2, <2>6 DEF streamVars
  <2>. QED
    BY <2>1, <2>3, <2>4, <2>5, <2>6 DEF StreamNext
<1>3. PushInv => PushedOnce
  BY DEF PushInv, PushedOnce
<1>. QED
  BY <1>1, <1>2, <1>3, PTL DEF StreamSpec

(***************************************************************************)
(* Saves and restores.                                                     *)
(***************************************************************************)
SaverPlaces == {"start", "idle", "file", "pointer", "prune", "create", "windows", "rollback"}
Restoring == saver.at \in {"create", "windows", "rollback"}
Savers == [at : SaverPlaces, holds : SUBSET Saved, plan : Seq(Saved), made : Seq(Saved),
           outcome : {"none", "restored", "failed"}]
Files == [no : Nat \ {0}, holds : SUBSET Saved, valid : BOOLEAN]

SnapTypeOK ==
    /\ tmux \in [Saved -> {"no", "user", "restored"}]
    /\ files \subseteq Files /\ \A f \in files : f.no <= saves
    /\ saver \in Savers /\ saves \in Nat /\ last \in 0..saves
    /\ completed \subseteq 1..saves /\ leftover \subseteq Saved
    /\ saver.at = "windows" => saver.plan # <<>>
    /\ saver.at = "pointer" => saves > 0
    /\ ~Restoring => saver.made = <<>>

\* What a restore made, it knows, until it could not be killed; it never takes for
\* its own what somebody else made; and one that failed has nothing left.
MadeIsKnown ==
    Restoring => \A n \in Saved : tmux[n] = "restored" => n \in ToSet(saver.made) \cup leftover
MadeIsOwn == \A n \in ToSet(saver.made) : tmux[n] # "user"
FailedLeftNothing ==
    saver.outcome = "failed" =>
        /\ ~Restoring /\ saver.at # "start"
        /\ \A n \in Saved \ leftover : tmux[n] # "restored"

RollbackInv == MadeIsKnown /\ MadeIsOwn /\ FailedLeftNothing
-----------------------------------------------------------------------------
\* A snapshot's sessions, in an order.
LEMMA PlanOf ==
    ASSUME NEW S, S \subseteq Saved
    PROVE  SetToSeq(S) \in Seq(Saved)
<1>1. IsFiniteSet(S)
  BY SnapshotsAssumption, FS_Subset
<1>2. Cardinality(S) \in Nat /\ ExistsBijection(1..Cardinality(S), S)
  BY <1>1, FS_CardinalityType
<1>3. \E f \in [1..Cardinality(S) -> S] : IsInjective(f)
  BY <1>2, Zenon DEF ExistsBijection, Bijection, Injection
<1>4. SetToSeq(S) \in [1..Cardinality(S) -> S]
  BY <1>3, Zenon DEF SetToSeq
<1>. QED
  BY <1>2, <1>4

\* What a save that can be loaded is, and that there is one whenever Loads finds it.
LEMMA LoadsOne ==
    ASSUME SnapTypeOK
    PROVE  /\ Loads \in 0..saves
           /\ Loads # 0 => \E f \in Valid : f.no = Loads
           /\ \A f \in Valid : f.no = last \/ ~(\E g \in Valid : g.no = last) => Loads >= f.no
           /\ (\E g \in Valid : g.no = last) => Loads = last
<1>. DEFINE nos == Numbers(Valid)
<1>1. Valid \subseteq files /\ \A f \in files : f.no \in 1..saves
  BY DEF Valid, SnapTypeOK, Files
<1>2. nos \subseteq 0..saves /\ \A f \in Valid : f.no \in nos
  BY <1>1 DEF Numbers, SnapTypeOK
<1>3. CASE \E f \in Valid : f.no = last
  <2>1. Loads = last
    BY <1>3 DEF Loads
  <2>. QED
    BY <1>1, <1>3, <2>1 DEF SnapTypeOK
<1>4. CASE ~(\E f \in Valid : f.no = last) /\ Valid # {}
  <2>1. Loads = Max(nos)
    BY <1>4 DEF Loads
  <2>2. nos # {}
    BY <1>2, <1>4
  <2>3. Max(nos) \in nos /\ \A y \in nos : Max(nos) >= y
    BY <1>2, <2>2, MaxIn DEF SnapTypeOK
  <2>4. \E f \in Valid : f.no = Max(nos)
    BY <2>3 DEF Numbers
  <2>. HIDE DEF nos
  <2>. QED
    BY <1>2, <1>4, <2>1, <2>3, <2>4
<1>5. CASE Valid = {}
  <2>1. Loads = 0
    BY <1>5 DEF Loads
  <2>. QED
    BY <1>5, <2>1 DEF SnapTypeOK
<1>. QED
  BY <1>3, <1>4, <1>5
-----------------------------------------------------------------------------
(* Types. *)
\* Types hold at first.
LEMMA SnapStarts == SnapshotsInit => SnapTypeOK
<1>. SUFFICES ASSUME SnapshotsInit PROVE SnapTypeOK
  OBVIOUS
<1>1. Starting \in Savers
  BY DEF Starting, Savers, SaverPlaces
<1>2. saver.at = "start" /\ saver.made = <<>>
  BY DEF SnapshotsInit, Starting
<1>. QED
  BY <1>1, <1>2 DEF SnapshotsInit, SnapTypeOK, Restoring

\* A saver whose place changes.
LEMMA SaverAt ==
    ASSUME saver \in Savers, NEW p \in SaverPlaces
    PROVE  /\ [saver EXCEPT !.at = p] \in Savers
           /\ [saver EXCEPT !.at = p].at = p
           /\ [saver EXCEPT !.at = p].plan = saver.plan
           /\ [saver EXCEPT !.at = p].made = saver.made
           /\ [saver EXCEPT !.at = p].outcome = saver.outcome
BY DEF Savers

\* What is on disk is a set of files.
LEMMA SnapFiles ==
    ASSUME SnapTypeOK
    PROVE  files \subseteq Files /\ saves \in Nat
BY DEF SnapTypeOK

\* A save keeps types, and does nothing to sessions or to a restore.
LEMMA SavesType ==
    ASSUME SnapTypeOK, SaveBegins \/ SaveWrites \/ SavePoints \/ Prunes \/ SaveFails
    PROVE  /\ SnapTypeOK' /\ UNCHANGED <<tmux, leftover>>
           /\ ~Restoring /\ ~Restoring' /\ saver'.at # "start"
           /\ saver'.outcome = saver.outcome
<1>1. CASE SaveBegins
  <2>1. saver' = [saver EXCEPT !.at = "file", !.holds = Live] /\ Live \subseteq Saved
        /\ saver.at = "idle" /\ UNCHANGED <<tmux, files, last, saves, completed, leftover>>
    BY <1>1 DEF SaveBegins, Live
  <2>2. saver' \in Savers /\ saver'.at = "file" /\ saver'.made = saver.made
        /\ saver'.outcome = saver.outcome
    BY <2>1 DEF SnapTypeOK, Savers, SaverPlaces
  <2>. QED
    BY <2>1, <2>2 DEF SnapTypeOK, Restoring
<1>2. CASE SaveWrites
  <2>1. [no |-> saves + 1, holds |-> saver.holds, valid |-> TRUE] \in Files
    BY DEF SnapTypeOK, Files, Savers
  <2>2. /\ saves' = saves + 1 /\ saver.at = "file" /\ saver' = [saver EXCEPT !.at = "pointer"]
        /\ files' = files \cup {[no |-> saves + 1, holds |-> saver.holds, valid |-> TRUE]}
        /\ UNCHANGED <<tmux, last, completed, leftover>>
    BY <1>2 DEF SaveWrites
  <2>3. saver' \in Savers /\ saver'.at = "pointer" /\ saver'.made = saver.made
        /\ saver'.outcome = saver.outcome
    BY <2>2, SaverAt DEF SnapTypeOK, SaverPlaces
  <2>4. files' \subseteq Files /\ \A f \in files' : f.no <= saves'
    <3>1. \A f \in files : f.no \in Nat /\ f.no <= saves
      BY DEF SnapTypeOK, Files
    <3>. QED
      <4>. DEFINE new == [no |-> saves + 1, holds |-> saver.holds, valid |-> TRUE]
      <4>1. new \in Files /\ new.no = saves + 1 /\ files' = files \cup {new}
        BY <2>1, <2>2
      <4>. HIDE DEF new
      <4>. QED
        BY <2>2, <3>1, <4>1, SnapFiles
  <2>. QED
    BY <2>2, <2>3, <2>4 DEF SnapTypeOK, Restoring
<1>3. CASE SavePoints
  <2>1. /\ saver.at = "pointer" /\ saver' = [saver EXCEPT !.at = "prune"]
        /\ last' = saves /\ completed' = completed \cup {saves}
        /\ UNCHANGED <<tmux, files, saves, leftover>>
    BY <1>3 DEF SavePoints
  <2>2. saver' \in Savers /\ saver'.at = "prune" /\ saver'.made = saver.made
        /\ saver'.outcome = saver.outcome
    BY <2>1, SaverAt DEF SnapTypeOK, SaverPlaces
  <2>. QED
    BY <2>1, <2>2 DEF SnapTypeOK, Restoring
<1>4. CASE Prunes \/ SaveFails
  <2>1. /\ saver.at \in {"file", "pointer", "prune"} /\ files' \subseteq files
        /\ saver' = [saver EXCEPT !.at = "idle"] \/ (saver' = saver /\ saver.at = "prune")
        /\ UNCHANGED <<tmux, last, saves, completed, leftover>>
    BY <1>4 DEF Prunes, SaveFails
  <2>2. saver' \in Savers /\ saver'.at \in {"idle", "prune"} /\ saver'.made = saver.made
        /\ saver'.outcome = saver.outcome
    <3>1. CASE saver' = [saver EXCEPT !.at = "idle"]
      BY <3>1, SaverAt DEF SnapTypeOK, SaverPlaces
    <3>2. CASE saver' = saver /\ saver.at = "prune"
      BY <3>2 DEF SnapTypeOK
    <3>. QED
      BY <2>1, <3>1, <3>2
  <2>. QED
    BY <2>1, <2>2 DEF SnapTypeOK, Restoring
<1>. QED
  BY <1>1, <1>2, <1>3, <1>4

\* What is not a step of a save or of a restore.
LEMMA OthersType ==
    ASSUME SnapTypeOK,
           \/ \E n \in Saved : UserStarts(n) \/ UserEnds(n)
           \/ DaemonDies \/ Reboots \/ (\E f \in files : Damaged(f))
           \/ UNCHANGED snapVars
    PROVE  SnapTypeOK'
<1>1. CASE \E n \in Saved : UserStarts(n) \/ UserEnds(n)
  BY <1>1 DEF UserStarts, UserEnds, SnapTypeOK, Restoring
<1>2. CASE DaemonDies \/ Reboots
  <2>1. Starting \in Savers /\ Starting.at = "start" /\ Starting.made = <<>>
    BY DEF Starting, Savers, SaverPlaces
  <2>. QED
    BY <1>2, <2>1 DEF DaemonDies, Reboots, SnapTypeOK, Restoring
<1>3. CASE \E f \in files : Damaged(f)
  <2>1. PICK f \in files : Damaged(f)
    BY <1>3
  <2>2. [f EXCEPT !.valid = FALSE] \in Files /\ [f EXCEPT !.valid = FALSE].no = f.no
    BY DEF SnapTypeOK, Files
  <2>. QED
    BY <2>1, <2>2 DEF Damaged, SnapTypeOK, Restoring
<1>4. CASE UNCHANGED snapVars
  BY <1>4 DEF snapVars, SnapTypeOK, Restoring
<1>. QED
  BY <1>1, <1>2, <1>3, <1>4
-----------------------------------------------------------------------------
(* Rollback. *)
\* What a restore made, with one session more or one less.
LEMMA MadeOneMore ==
    ASSUME NEW q \in Seq(Saved), NEW n \in Saved
    PROVE  Append(q, n) \in Seq(Saved) /\ ToSet(Append(q, n)) = ToSet(q) \cup {n}
<1>1. /\ Append(q, n) \in Seq(Saved) /\ Len(q) \in Nat
      /\ DOMAIN q = 1..Len(q) /\ DOMAIN Append(q, n) = 1..(Len(q) + 1)
      /\ \A i \in 1..Len(q) : Append(q, n)[i] = q[i]
      /\ Append(q, n)[Len(q) + 1] = n
  OBVIOUS
<1>2. 1..(Len(q) + 1) = 1..Len(q) \cup {Len(q) + 1}
  BY <1>1
<1>. HIDE DEF ToSet
<1>. QED
  BY <1>1, <1>2 DEF ToSet

LEMMA MadeOneLess ==
    ASSUME NEW q \in Seq(Saved), q # <<>>
    PROVE  /\ SubSeq(q, 1, Len(q) - 1) \in Seq(Saved) /\ q[Len(q)] \in Saved
           /\ ToSet(SubSeq(q, 1, Len(q) - 1)) \subseteq ToSet(q)
           /\ ToSet(q) \subseteq ToSet(SubSeq(q, 1, Len(q) - 1)) \cup {q[Len(q)]}
<1>. DEFINE r == SubSeq(q, 1, Len(q) - 1)
<1>1. Len(q) \in Nat /\ Len(q) > 0 /\ DOMAIN q = 1..Len(q) /\ q[Len(q)] \in Saved
  OBVIOUS
<1>2. /\ r \in Seq(Saved) /\ DOMAIN r = 1..(Len(q) - 1)
      /\ \A i \in 1..(Len(q) - 1) : r[i] = q[i]
  BY <1>1
<1>3. 1..Len(q) = 1..(Len(q) - 1) \cup {Len(q)}
  BY <1>1
<1>. HIDE DEF r
<1>4. ToSet(r) \subseteq ToSet(q) /\ ToSet(q) \subseteq ToSet(r) \cup {q[Len(q)]}
  BY <1>1, <1>2, <1>3 DEF ToSet
<1>. QED
  BY <1>1, <1>2, <1>4 DEF r

LEMMA NothingMade == ToSet(<<>>) = {}
BY DEF ToSet

RestoreStep ==
    RestoreBegins \/ CreatesSession \/ CreatesWindows \/ WindowsFail \/ Restored
    \/ RollsBack \/ RolledBack

\* Every step of a restore keeps count of what it made.
LEMMA RestoreKeeps ==
    ASSUME SnapTypeOK, RollbackInv, RestoreStep
    PROVE  SnapTypeOK' /\ RollbackInv' /\ UNCHANGED <<files, saves, completed>>
<1>0. UNCHANGED <<files, saves, completed>>
  BY DEF RestoreStep, RestoreBegins, CreatesSession, CreatesWindows, WindowsFail, Restored,
         RollsBack, RolledBack
<1>. USE DEF RollbackInv
<1>1. CASE RestoreBegins
  <2>1. saver \in Savers /\ saver.at = "start" /\ saver.made = <<>> /\ saver.outcome # "failed"
    BY <1>1 DEF RestoreBegins, SnapTypeOK, Restoring, FailedLeftNothing
  <2>2. UNCHANGED <<tmux, leftover>>
    BY <1>1 DEF RestoreBegins
  <2>3. CASE Live # {} \/ Loads = 0
    <3>1. saver' = [saver EXCEPT !.at = "idle"] /\ last' = last
      BY <1>1, <2>3 DEF RestoreBegins
    <3>2. /\ saver' \in Savers /\ saver'.at = "idle" /\ saver'.made = <<>>
          /\ saver'.outcome = saver.outcome
      BY <2>1, <3>1, SaverAt DEF SaverPlaces
    <3>. QED
      BY <1>0, <2>1, <2>2, <3>1, <3>2, NothingMade
      DEF SnapTypeOK, Restoring, MadeIsKnown, MadeIsOwn, FailedLeftNothing
  <2>4. CASE Live = {} /\ Loads # 0
    <3>. DEFINE plan == SetToSeq((CHOOSE f \in Valid : f.no = Loads).holds)
    <3>1. saver' = [saver EXCEPT !.at = "create", !.plan = plan] /\ last' \in {last, Loads}
      BY <1>1, <2>4 DEF RestoreBegins
    <3>2. (CHOOSE f \in Valid : f.no = Loads) \in Files
      BY <2>4, LoadsOne, Zenon DEF SnapTypeOK, Valid
    <3>3. plan \in Seq(Saved)
      BY <3>2, PlanOf DEF Files
    <3>. HIDE DEF plan
    <3>4. /\ saver' \in Savers /\ saver'.at = "create" /\ saver'.made = <<>>
          /\ saver'.outcome = saver.outcome
      BY <2>1, <3>1, <3>3 DEF Savers, SaverPlaces
    <3>5. last' \in 0..saves
      BY <3>1, LoadsOne DEF SnapTypeOK
    <3>6. \A n \in Saved : tmux[n] = "no"
      BY <2>4 DEF Live
    <3>. QED
      BY <1>0, <2>1, <2>2, <3>4, <3>5, <3>6, NothingMade
      DEF SnapTypeOK, Restoring, MadeIsKnown, MadeIsOwn, FailedLeftNothing
  <2>. QED
    BY <2>3, <2>4
<1>2. CASE CreatesSession
  <2>. DEFINE n == Head(saver.plan)
  <2>1. /\ saver \in Savers /\ saver.at = "create" /\ saver.plan # <<>>
        /\ saver.plan \in Seq(Saved) /\ saver.made \in Seq(Saved) /\ saver.outcome # "failed"
        /\ UNCHANGED <<last, leftover>>
    BY <1>2 DEF CreatesSession, SnapTypeOK, Savers, FailedLeftNothing, Restoring
  <2>2. n \in Saved
    BY <2>1
  <2>3. CASE tmux[n] # "no"
    <3>1. saver' = [saver EXCEPT !.at = "rollback", !.made = saver.made] /\ tmux' = tmux
      BY <1>2, <2>3 DEF CreatesSession, MadeBefore
    <3>2. /\ saver' \in Savers /\ saver'.at = "rollback" /\ saver'.made = saver.made
          /\ saver'.outcome = saver.outcome
      BY <2>1, <3>1 DEF Savers, SaverPlaces
    <3>. QED
      BY <1>0, <2>1, <3>1, <3>2
      DEF SnapTypeOK, Restoring, MadeIsKnown, MadeIsOwn, FailedLeftNothing
  <2>4. CASE tmux[n] = "no"
    <3>1. saver' = [saver EXCEPT !.at = "windows", !.made = Append(saver.made, n)]
          /\ tmux' = [tmux EXCEPT ![n] = "restored"]
      BY <1>2, <2>4 DEF CreatesSession
    <3>2. Append(saver.made, n) \in Seq(Saved)
          /\ ToSet(Append(saver.made, n)) = ToSet(saver.made) \cup {n}
      BY <2>1, <2>2, MadeOneMore
    <3>3. /\ saver' \in Savers /\ saver'.at = "windows" /\ saver'.made = Append(saver.made, n)
          /\ saver'.outcome = saver.outcome /\ saver'.plan = saver.plan
      BY <2>1, <3>1, <3>2 DEF Savers, SaverPlaces
    <3>4. tmux' \in [Saved -> {"no", "user", "restored"}]
      BY <3>1 DEF SnapTypeOK
    <3>5. SnapTypeOK'
      BY <1>0, <2>1, <3>3, <3>4 DEF SnapTypeOK, Restoring
    <3>. HIDE DEF n
    <3>6. MadeIsKnown' /\ MadeIsOwn'
      BY <2>1, <2>2, <3>1, <3>2, <3>3 DEF SnapTypeOK, Restoring, MadeIsKnown, MadeIsOwn
    <3>. QED
      BY <1>0, <2>1, <3>3, <3>5, <3>6 DEF FailedLeftNothing
  <2>. QED
    BY <2>3, <2>4
<1>3. CASE CreatesWindows \/ WindowsFail
  <2>1. /\ saver \in Savers /\ saver.at = "windows" /\ saver.plan # <<>>
        /\ saver.plan \in Seq(Saved) /\ saver.outcome # "failed"
        /\ UNCHANGED <<tmux, last, leftover>>
    BY <1>3 DEF CreatesWindows, WindowsFail, SnapTypeOK, Savers, FailedLeftNothing, Restoring
  <2>2. \/ saver' = [saver EXCEPT !.at = "rollback"]
        \/ saver' = [saver EXCEPT !.at = "create", !.plan = Tail(saver.plan)]
    BY <1>3 DEF CreatesWindows, WindowsFail
  <2>3. Tail(saver.plan) \in Seq(Saved)
    BY <2>1
  <2>4. /\ saver' \in Savers /\ saver'.at \in {"rollback", "create"}
        /\ saver'.made = saver.made /\ saver'.outcome = saver.outcome
    <3>1. CASE saver' = [saver EXCEPT !.at = "rollback"]
      BY <2>1, <3>1, SaverAt DEF SaverPlaces
    <3>2. CASE saver' = [saver EXCEPT !.at = "create", !.plan = Tail(saver.plan)]
      BY <2>1, <2>3, <3>2 DEF Savers, SaverPlaces
    <3>. QED
      BY <2>2, <3>1, <3>2
  <2>. QED
    BY <1>0, <2>1, <2>4
    DEF SnapTypeOK, Restoring, MadeIsKnown, MadeIsOwn, FailedLeftNothing
<1>4. CASE Restored \/ RolledBack
  <2>1. /\ saver.at \in {"create", "rollback"} /\ saver.at = "rollback" => saver.made = <<>>
        /\ \/ saver' = [Starting EXCEPT !.at = "idle", !.outcome = "restored"]
           \/ /\ saver' = [Starting EXCEPT !.at = "idle", !.outcome = "failed"]
              /\ saver.at = "rollback"
        /\ UNCHANGED <<tmux, last, leftover>>
    BY <1>4 DEF Restored, RolledBack
  <2>2. /\ saver' \in Savers /\ saver'.at = "idle" /\ saver'.made = <<>>
        /\ saver'.outcome = "failed" => saver.at = "rollback"
    <3>1. \A o \in {"restored", "failed"} :
              LET s == [Starting EXCEPT !.at = "idle", !.outcome = o]
              IN  s \in Savers /\ s.at = "idle" /\ s.made = <<>> /\ s.outcome = o
      <4>1. Starting \in Savers /\ Starting.made = <<>>
        BY DEF Starting, Savers, SaverPlaces
      <4>. QED
        BY <4>1 DEF Savers, SaverPlaces
    <3>. QED
      BY <2>1, <3>1
  <2>3. saver'.outcome = "failed" => \A n \in Saved \ leftover : tmux[n] # "restored"
    BY <2>1, <2>2, NothingMade DEF MadeIsKnown, Restoring
  <2>. QED
    BY <1>0, <2>1, <2>2, <2>3, NothingMade
    DEF SnapTypeOK, Restoring, MadeIsKnown, MadeIsOwn, FailedLeftNothing
<1>5. CASE RollsBack
  <2>. DEFINE n == saver.made[Len(saver.made)]
              r == SubSeq(saver.made, 1, Len(saver.made) - 1)
  <2>1. /\ saver \in Savers /\ saver.at = "rollback" /\ saver.made # <<>>
        /\ saver.made \in Seq(Saved) /\ saver.outcome # "failed" /\ last' = last
    BY <1>5 DEF RollsBack, SnapTypeOK, Savers, FailedLeftNothing, Restoring
  <2>2. /\ saver' = [saver EXCEPT !.made = r]
        /\ \/ tmux' = [tmux EXCEPT ![n] = "no"] /\ leftover' = leftover
           \/ tmux' = tmux /\ leftover' = leftover \cup {n}
    BY <1>5 DEF RollsBack
  <2>3. /\ r \in Seq(Saved) /\ n \in Saved
        /\ ToSet(r) \subseteq ToSet(saver.made) /\ ToSet(saver.made) \subseteq ToSet(r) \cup {n}
    BY <2>1, MadeOneLess
  <2>. HIDE DEF n, r
  <2>4. /\ saver' \in Savers /\ saver'.at = "rollback" /\ saver'.made = r
        /\ saver'.outcome = saver.outcome
    BY <2>1, <2>2, <2>3 DEF Savers
  <2>5. tmux' \in [Saved -> {"no", "user", "restored"}] /\ leftover' \subseteq Saved
    BY <2>2, <2>3 DEF SnapTypeOK
  <2>6. SnapTypeOK'
    BY <1>0, <2>1, <2>4, <2>5 DEF SnapTypeOK, Restoring
  <2>7. ToSet(saver.made) \subseteq Saved
    BY <2>1 DEF ToSet
  <2>8. MadeIsKnown' /\ MadeIsOwn'
    BY <2>1, <2>2, <2>3, <2>4, <2>7 DEF SnapTypeOK, Restoring, MadeIsKnown, MadeIsOwn
  <2>. QED
    BY <1>0, <2>1, <2>4, <2>6, <2>8 DEF FailedLeftNothing
<1>. QED
  BY <1>0, <1>1, <1>2, <1>3, <1>4, <1>5 DEF RestoreStep

\* Users, deaths and damage do not make a restored session unknown.
LEMMA OthersKeepRollback ==
    ASSUME SnapTypeOK, RollbackInv,
           \/ \E n \in Saved : UserStarts(n) \/ UserEnds(n)
           \/ DaemonDies \/ Reboots \/ (\E f \in files : Damaged(f))
           \/ UNCHANGED snapVars
    PROVE  RollbackInv'
<1>. USE DEF RollbackInv
<1>1. CASE \E n \in Saved : UserStarts(n) \/ UserEnds(n)
  <2>1. PICK n \in Saved : UserStarts(n) \/ UserEnds(n)
    BY <1>1
  <2>2. /\ saver' = saver /\ leftover' = leftover
        /\ \/ n \notin ToSet(saver.made) /\ tmux[n] = "no" /\ tmux' = [tmux EXCEPT ![n] = "user"]
           \/ tmux' = [tmux EXCEPT ![n] = "no"]
    BY <2>1 DEF UserStarts, UserEnds
  <2>3. saver \in Savers /\ tmux \in [Saved -> {"no", "user", "restored"}]
    BY DEF SnapTypeOK
  <2>4. ToSet(saver.made) \subseteq Saved
    <3>1. saver.made \in Seq(Saved)
      BY <2>3 DEF Savers
    <3>. QED
      BY <3>1 DEF ToSet
  <2>. QED
    BY <2>2, <2>3, <2>4 DEF MadeIsKnown, MadeIsOwn, FailedLeftNothing, Restoring
<1>2. CASE DaemonDies \/ Reboots
  <2>1. /\ saver'.at = "start" /\ saver'.made = <<>> /\ saver'.outcome = "none"
    BY <1>2 DEF DaemonDies, Reboots, Starting
  <2>. QED
    BY <2>1, NothingMade DEF MadeIsKnown, MadeIsOwn, FailedLeftNothing, Restoring
<1>3. CASE UNCHANGED <<tmux, saver, leftover>>
  BY <1>3 DEF MadeIsKnown, MadeIsOwn, FailedLeftNothing, Restoring
<1>4. CASE (\E f \in files : Damaged(f)) \/ UNCHANGED snapVars
  BY <1>3, <1>4 DEF Damaged, snapVars
<1>. QED
  BY <1>1, <1>2, <1>4

\* Nor do saves, which happen only when no restore is under way.
LEMMA SavesKeepRollback ==
    ASSUME SnapTypeOK, RollbackInv,
           SaveBegins \/ SaveWrites \/ SavePoints \/ Prunes \/ SaveFails
    PROVE  RollbackInv'
<1>1. /\ SnapTypeOK' /\ UNCHANGED <<tmux, leftover>> /\ ~Restoring /\ ~Restoring'
      /\ saver'.at # "start" /\ saver'.outcome = saver.outcome
  BY SavesType
<1>2. ToSet(saver'.made) = {}
  BY <1>1, NothingMade DEF SnapTypeOK
<1>. QED
  BY <1>1, <1>2 DEF RollbackInv, MadeIsKnown, MadeIsOwn, FailedLeftNothing
-----------------------------------------------------------------------------
(* Snapshots. *)
\* A save so recent that no pruning took its file.
Recent(s) == saves - s < Retention
NumbersAreUnique == \A f, g \in files : f.no = g.no => f = g
RecentIsOnDisk == \A s \in completed : Recent(s) => \E f \in files : f.no = s
WrittenIsOnDisk == saver.at = "pointer" => \E f \in files : f.no = saves
\* `last` names a file that is as new, unless the newer one cannot be read.
LastIsRecent ==
    \A s \in completed :
        Recent(s) /\ (\A f \in files : f.no = s => f.valid) => last >= s
LoadInv == NumbersAreUnique /\ RecentIsOnDisk /\ WrittenIsOnDisk /\ LastIsRecent

\* The number of saves after one.
LEMMA LaterSaves ==
    ASSUME NEW a \in Nat, NEW b \in Nat, a <= b
    PROVE  IsFiniteSet((a + 1)..b) /\ Cardinality((a + 1)..b) = b - a
<1>. DEFINE c == a + 1
<1>1. c \in Int /\ b \in Int /\ (IF c > b THEN 0 ELSE b - c + 1) = b - a
  OBVIOUS
<1>. HIDE DEF c
<1>2. IsFiniteSet(c..b) /\ Cardinality(c..b) = IF c > b THEN 0 ELSE b - c + 1
  BY <1>1, FS_Interval, Zenon
<1>3. Cardinality(c..b) = b - a
  BY <1>1, <1>2
<1>. QED
  BY <1>2, <1>3 DEF c

\* What a pruning may remove has a whole retention of later saves.
LEMMA SurplusIsOld ==
    ASSUME SnapTypeOK, NumbersAreUnique, NEW f \in Surplus
    PROVE  ~Recent(f.no)
<1>. DEFINE newer == {g \in Valid : g.no > f.no}
            nos == (f.no + 1)..saves
            number == [g \in newer |-> g.no]
<1>1. f \in files /\ f.no \in Nat /\ saves \in Nat /\ f.no <= saves
  BY DEF Surplus, Valid, SnapTypeOK, Files
<1>2. Cardinality(newer) >= Retention
  BY DEF Surplus
<1>3. \A g \in newer : g \in files /\ g.no \in nos
  BY <1>1 DEF Valid, SnapTypeOK, Files
<1>4. number \in Injection(newer, nos)
  <2>1. number \in [newer -> nos]
    BY <1>3
  <2>2. IsInjective(number)
    BY <1>3 DEF IsInjective, NumbersAreUnique
  <2>. QED
    BY <2>1, <2>2 DEF Injection
<1>5. IsFiniteSet(nos) /\ Cardinality(nos) = saves - f.no
  BY <1>1, LaterSaves
<1>. HIDE DEF newer, nos, number
<1>6. IsFiniteSet(newer) /\ Cardinality(newer) <= Cardinality(nos)
  BY <1>4, <1>5, FS_Injection
<1>7. Cardinality(newer) \in Nat
  BY <1>6, FS_CardinalityType
<1>. QED
  BY <1>1, <1>2, <1>5, <1>6, <1>7, SnapshotsAssumption DEF Recent

\* At first nothing was saved.
LEMMA LoadStarts == SnapshotsInit => LoadInv
BY DEF SnapshotsInit, Starting, LoadInv, NumbersAreUnique, RecentIsOnDisk, WrittenIsOnDisk,
       LastIsRecent

\* Wherever a save is interrupted, recent files stay and `last` is as new.
LEMMA SavesKeepLoad ==
    ASSUME SnapTypeOK, LoadInv, SaveBegins \/ SaveWrites \/ SavePoints \/ Prunes \/ SaveFails
    PROVE  LoadInv'
<1>. USE DEF LoadInv
<1>0. /\ files \subseteq Files /\ saves \in Nat /\ last \in Nat
      /\ completed \subseteq 1..saves /\ Retention \in Nat
      /\ \A f \in files : f.no \in Nat /\ f.no <= saves
  BY SnapshotsAssumption DEF SnapTypeOK, Files
<1>1. CASE SaveWrites
  <2>. DEFINE new == [no |-> saves + 1, holds |-> saver.holds, valid |-> TRUE]
  <2>1. /\ saves' = saves + 1 /\ files' = files \cup {new} /\ new.no = saves + 1
        /\ UNCHANGED <<last, completed>>
    BY <1>1 DEF SaveWrites
  <2>. HIDE DEF new
  <2>2. \A s \in completed : s \in Nat /\ (Recent(s)' => Recent(s))
    BY <1>0, <2>1 DEF Recent
  <2>3. NumbersAreUnique'
    BY <1>0, <2>1 DEF NumbersAreUnique
  <2>4. RecentIsOnDisk' /\ LastIsRecent'
    BY <2>1, <2>2 DEF RecentIsOnDisk, LastIsRecent
  <2>5. WrittenIsOnDisk'
    BY <2>1 DEF WrittenIsOnDisk
  <2>. QED
    BY <2>3, <2>4, <2>5
<1>2. CASE SavePoints
  <2>1. /\ saver.at = "pointer" /\ saver' = [saver EXCEPT !.at = "prune"]
        /\ last' = saves /\ completed' = completed \cup {saves} /\ UNCHANGED <<files, saves>>
    BY <1>2 DEF SavePoints
  <2>2. saver'.at = "prune"
    BY <2>1 DEF SnapTypeOK, Savers
  <2>3. \A s \in completed' : s \in Nat /\ s <= last' /\ (Recent(s)' <=> Recent(s))
    BY <1>0, <2>1 DEF Recent
  <2>4. NumbersAreUnique' /\ WrittenIsOnDisk' /\ LastIsRecent'
    BY <2>1, <2>2, <2>3 DEF NumbersAreUnique, WrittenIsOnDisk, LastIsRecent
  <2>5. RecentIsOnDisk'
    BY <2>1, <2>3 DEF RecentIsOnDisk, WrittenIsOnDisk
  <2>. QED
    BY <2>4, <2>5
<1>3. CASE Prunes \/ SaveFails \/ SaveBegins
  <2>1. /\ files' \subseteq files /\ files \ files' \subseteq Surplus
        /\ UNCHANGED <<saves, last, completed>>
    BY <1>3 DEF Prunes, SaveFails, SaveBegins
  <2>2. saver'.at # "pointer"
    <3>1. saver \in Savers
      BY DEF SnapTypeOK
    <3>2. \/ saver' = [saver EXCEPT !.at = "idle"] \/ (saver' = saver /\ saver.at = "prune")
          \/ saver' = [saver EXCEPT !.at = "file", !.holds = Live]
      BY <1>3 DEF Prunes, SaveFails, SaveBegins
    <3>. QED
      BY <3>1, <3>2 DEF Savers
  <2>3. \A s \in completed : Recent(s)' <=> Recent(s)
    BY <2>1 DEF Recent
  <2>4. \A f \in files : Recent(f.no) => f \in files'
    BY <2>1, SurplusIsOld
  <2>5. RecentIsOnDisk'
    BY <2>1, <2>3, <2>4 DEF RecentIsOnDisk
  <2>6. NumbersAreUnique'
    BY <2>1 DEF NumbersAreUnique
  <2>7. LastIsRecent'
    BY <2>1, <2>3, <2>4 DEF LastIsRecent
  <2>. QED
    BY <2>2, <2>5, <2>6, <2>7 DEF WrittenIsOnDisk
<1>. QED
  BY <1>1, <1>2, <1>3

\* The newest that can be read is a recent save, or newer.
LEMMA RecentIsLoaded ==
    ASSUME SnapTypeOK, LoadInv, NEW s \in completed, Recent(s),
           \A f \in files : f.no = s => f.valid
    PROVE  Loads # 0 /\ Loads >= s
<1>1. PICK f \in Valid : f.no = s
  BY DEF LoadInv, RecentIsOnDisk, Valid
<1>2. last >= s
  BY DEF LoadInv, LastIsRecent
<1>3. s \in Nat /\ s > 0 /\ Loads \in Nat /\ last \in Nat
  BY LoadsOne DEF SnapTypeOK
<1>4. CASE \E g \in Valid : g.no = last
  BY <1>2, <1>3, <1>4, LoadsOne
<1>5. CASE ~(\E g \in Valid : g.no = last)
  BY <1>1, <1>3, <1>5, LoadsOne
<1>. QED
  BY <1>4, <1>5

\* A restore repairs `last`; damage keeps the file and excuses the save.
LEMMA OthersKeepLoad ==
    ASSUME SnapTypeOK, LoadInv,
           \/ \E n \in Saved : UserStarts(n) \/ UserEnds(n)
           \/ DaemonDies \/ Reboots \/ (\E f \in files : Damaged(f))
           \/ UNCHANGED snapVars \/ RestoreStep
    PROVE  LoadInv'
<1>. USE DEF LoadInv
<1>1. CASE \E f \in files : Damaged(f)
  <2>1. PICK f \in files : Damaged(f)
    BY <1>1
  <2>. DEFINE g == [f EXCEPT !.valid = FALSE]
  <2>2. /\ f \in Files /\ files' = (files \ {f}) \cup {g}
        /\ UNCHANGED <<saves, last, completed, saver>>
    BY <2>1 DEF Damaged, SnapTypeOK
  <2>3. g.no = f.no /\ ~g.valid
    BY <2>2 DEF Files
  <2>. HIDE DEF g
  <2>4. NumbersAreUnique' /\ WrittenIsOnDisk'
    BY <2>2, <2>3 DEF NumbersAreUnique, WrittenIsOnDisk
  <2>5. RecentIsOnDisk' /\ LastIsRecent'
    BY <2>2, <2>3 DEF RecentIsOnDisk, LastIsRecent, Recent
  <2>. QED
    BY <2>4, <2>5
<1>2. CASE RestoreBegins
  <2>1. saver'.at # "pointer"
    <3>1. saver \in Savers
      BY DEF SnapTypeOK
    <3>. QED
      BY <1>2, <3>1 DEF RestoreBegins, Savers
  <2>2. last' \in {last, Loads} /\ UNCHANGED <<files, saves, completed>>
    BY <1>2 DEF RestoreBegins
  <2>3. LastIsRecent'
    BY <2>2, RecentIsLoaded DEF LastIsRecent, Recent
  <2>. QED
    BY <2>1, <2>2, <2>3 DEF NumbersAreUnique, RecentIsOnDisk, WrittenIsOnDisk, Recent
<1>3. ASSUME UNCHANGED <<files, saves, last, completed>>, saver' = saver \/ saver'.at # "pointer"
      PROVE  LoadInv'
  BY <1>3 DEF NumbersAreUnique, RecentIsOnDisk, WrittenIsOnDisk, LastIsRecent, Recent
<1>4. CASE (\E n \in Saved : UserStarts(n) \/ UserEnds(n)) \/ UNCHANGED snapVars
  BY <1>3, <1>4 DEF UserStarts, UserEnds, snapVars
<1>5. CASE DaemonDies \/ Reboots \/ Restored \/ RolledBack
  <2>1. /\ Starting.at = "start" /\ [Starting EXCEPT !.at = "idle", !.outcome = "failed"].at = "idle"
        /\ [Starting EXCEPT !.at = "idle", !.outcome = "restored"].at = "idle"
    BY DEF Starting
  <2>2. saver'.at # "pointer" /\ UNCHANGED <<files, saves, last, completed>>
    BY <1>5, <2>1 DEF DaemonDies, Reboots, Restored, RolledBack
  <2>. QED
    BY <1>3, <2>2
<1>6. CASE CreatesSession \/ CreatesWindows \/ WindowsFail \/ RollsBack
  <2>1. saver \in Savers
    BY DEF SnapTypeOK
  <2>2. saver'.at # "pointer" /\ UNCHANGED <<files, saves, last, completed>>
    BY <1>6, <2>1 DEF CreatesSession, CreatesWindows, WindowsFail, RollsBack, Savers
  <2>. QED
    BY <1>3, <2>2
<1>. QED
  BY <1>1, <1>2, <1>4, <1>5, <1>6 DEF RestoreStep

\* For any sessions, retention and bounds, wherever saves, restores, the daemon or the
\* machine are interrupted: a restore finds the newest recent snapshot that can be read,
\* and one that fails undoes exactly what it did (statusd/session_persistence.go).
THEOREM RestoreHolds == SnapshotsSpec => []RestoreIsSafe
<1>. DEFINE Inv == SnapTypeOK /\ RollbackInv /\ LoadInv
<1>1. SnapshotsInit => Inv
  <2>. SUFFICES ASSUME SnapshotsInit PROVE Inv
    OBVIOUS
  <2>1. ToSet(saver.made) = {} /\ saver.at = "start" /\ saver.outcome = "none"
    BY NothingMade DEF SnapshotsInit, Starting
  <2>. QED
    BY <2>1, SnapStarts, LoadStarts
    DEF RollbackInv, MadeIsKnown, MadeIsOwn, FailedLeftNothing, Restoring
<1>2. Inv /\ [SnapshotsNext]_snapVars => Inv'
  <2>. SUFFICES ASSUME Inv, [SnapshotsNext]_snapVars PROVE Inv'
    OBVIOUS
  <2>1. CASE SaveBegins \/ SaveWrites \/ SavePoints \/ Prunes \/ SaveFails
    BY <2>1, SavesType, SavesKeepRollback, SavesKeepLoad
  <2>2. CASE RestoreStep
    BY <2>2, RestoreKeeps, OthersKeepLoad
  <2>3. CASE \/ \E n \in Saved : UserStarts(n) \/ UserEnds(n)
             \/ DaemonDies \/ Reboots \/ (\E f \in files : Damaged(f))
             \/ UNCHANGED snapVars
    BY <2>3, OthersType, OthersKeepRollback, OthersKeepLoad
  <2>. QED
    BY <2>1, <2>2, <2>3 DEF SnapshotsNext, RestoreStep
<1>3. Inv => RestoreIsSafe
  <2>. SUFFICES ASSUME Inv PROVE RestoreIsSafe
    OBVIOUS
  <2>1. RollbackIsExact
    BY DEF RollbackInv, MadeIsOwn, FailedLeftNothing, RollbackIsExact
  <2>2. ASSUME NEW s \in completed, Cardinality((s + 1)..saves) < Retention
        PROVE  Recent(s)
    <3>1. s \in Nat /\ saves \in Nat /\ s <= saves
      BY DEF SnapTypeOK
    <3>2. Cardinality((s + 1)..saves) = saves - s
      BY <3>1, LaterSaves
    <3>. QED
      BY <2>2, <3>2 DEF Recent
  <2>3. SavedIsLoadable
    BY <2>2, RecentIsLoaded DEF SavedIsLoadable
  <2>. QED
    BY <2>1, <2>3 DEF RestoreIsSafe
<1>. HIDE DEF Inv
<1>. QED
  BY <1>1, <1>2, <1>3, PTL DEF SnapshotsSpec

(***************************************************************************)
(* A wait.                                                                 *)
(***************************************************************************)
WaitSamples == [at : Nat, shows : PaneStates, text : Nat]
WaitTypeOK ==
    /\ paneShows \in PaneStates /\ transcript \in Nat /\ wait \in WaitOptions
    /\ clock \in Nat /\ prev \in PaneStates \cup {"none"}
    /\ since \in Nat \cup {-1} /\ blocked \in Nat \cup {-1}
    /\ transition \in BOOLEAN /\ samples \in Seq(WaitSamples)

\* Of samples q: one is of the time s, and every one from s on shows the state.
ShownSince(q, state, s) ==
    /\ \E i \in DOMAIN q : q[i].at = s
    /\ \A i \in DOMAIN q : q[i].at >= s => q[i].shows = state
\* From the time s on nothing was printed.
StillSince(q, s) == \A i \in DOMAIN q : q[i].at >= s => q[i].text = q[Len(q)].text
Changed(q) == \E i, j \in DOMAIN q : q[i].shows # q[j].shows \/ q[i].text # q[j].text
\* The samples of the window of length w that ends at c.
Open(q, c, w) == {i \in DOMAIN q : q[i].at >= c - w}
Seen(q, state) == \E i \in DOMAIN q : q[i].shows = state

\* Between two samples.  A window that is open was held so far, and the sleep
\* before the next sample does not lead past its end.
SamplesArePast == \A i \in DOMAIN samples : samples[i].at < clock
PrevWasSeen == prev # "none" => Seen(samples, prev)
ChangeWasSeen == transition => Changed(samples)
SettlesSoFar ==
    since # -1 => /\ since < clock /\ clock - since <= wait.settle
                  /\ ShownSince(samples, wait.until, since)
                  /\ wait.until = "input-ready" => StillSince(samples, since)
BlockedSoFar ==
    blocked # -1 => /\ blocked < clock /\ clock - blocked <= wait.humanSettle
                    /\ ShownSince(samples, "needs-human", blocked)
WaitsWell == SamplesArePast /\ PrevWasSeen /\ ChangeWasSeen /\ SettlesSoFar /\ BlockedSoFar

WaitInv == WaitTypeOK /\ (reason = "none" => WaitsWell) /\ ReportsWhatHeld

\* The options of a wait.
LEMMA WaitHas ==
    ASSUME wait \in WaitOptions
    PROVE  wait.settle \in Nat /\ wait.humanSettle \in Nat /\ wait.humanSettle > 0
BY PaneWaitAssumption

\* A sleep leads on, and at most to the end of the window it was made for.
LEMMA SleepsOn ==
    ASSUME clock \in Nat, clock < WaitTimeout, NEW s \in Nat, s <= clock,
           NEW w \in Nat, w > 0 => clock - s < w
    PROVE  /\ Delay(s, w) \in Nat /\ Delay(s, w) > 0
           /\ w > 0 => clock + Delay(s, w) - s <= w
BY PaneWaitAssumption DEF Delay, Smaller
LEMMA SleepsOnWithoutWindow ==
    ASSUME clock \in Nat, clock < WaitTimeout, NEW s \in Int
    PROVE  Delay(s, 0) \in Nat /\ Delay(s, 0) > 0
BY PaneWaitAssumption DEF Delay, Smaller

\* The samples with one more.
LEMMA OneMore ==
    ASSUME WaitTypeOK, samples' = Sample
    PROVE  /\ samples' \in Seq(WaitSamples)
           /\ Len(samples') = Len(samples) + 1 /\ Len(samples) \in Nat
           /\ DOMAIN samples = 1..Len(samples) /\ DOMAIN samples' = 1..(Len(samples) + 1)
           /\ \A i \in DOMAIN samples : samples'[i] = samples[i] /\ samples[i] \in WaitSamples
           /\ samples'[Len(samples) + 1].at = clock
           /\ samples'[Len(samples) + 1].shows = paneShows
           /\ samples'[Len(samples) + 1].text = transcript
<1>1. [at |-> clock, shows |-> paneShows, text |-> transcript] \in WaitSamples
  BY DEF WaitTypeOK, WaitSamples
<1>. QED
  BY <1>1 DEF WaitTypeOK, Sample

\* What every further sample keeps: what was seen before, and what it shows itself.
LEMMA SampleKeeps ==
    ASSUME WaitTypeOK, samples' = Sample, SamplesArePast, PrevWasSeen
    PROVE  /\ \A i \in DOMAIN samples' : samples'[i].at \in Nat /\ samples'[i].at <= clock
           /\ Seen(samples', paneShows)
           /\ prev # "none" => Seen(samples', prev)
           /\ Changed(samples) => Changed(samples')
           /\ (prev # "none" /\ prev # paneShows) \/ Scrolled => Changed(samples')
<1>. DEFINE n == Len(samples)
<1>1. \A i \in DOMAIN samples' : samples'[i].at \in Nat /\ samples'[i].at <= clock
  <2>1. \A i \in DOMAIN samples' : i = n + 1 \/ i \in DOMAIN samples
    BY OneMore
  <2>2. \A i \in DOMAIN samples :
            samples'[i] = samples[i] /\ samples[i].at \in Nat /\ samples[i].at < clock
    BY OneMore DEF SamplesArePast, WaitSamples
  <2>3. samples'[n + 1].at = clock /\ clock \in Nat
    BY OneMore DEF WaitTypeOK
  <2>. QED
    BY <2>1, <2>2, <2>3
<1>2. n + 1 \in DOMAIN samples' /\ samples'[n + 1].shows = paneShows
      /\ samples'[n + 1].text = transcript
  BY OneMore
<1>3. \A i \in DOMAIN samples : i \in DOMAIN samples' /\ samples'[i] = samples[i]
  BY OneMore
<1>4. Changed(samples) => Changed(samples')
  BY <1>3 DEF Changed
<1>5. ASSUME prev # "none" PROVE Seen(samples', prev)
  BY <1>3, <1>5 DEF PrevWasSeen, Seen
<1>6. ASSUME prev # "none", prev # paneShows PROVE Changed(samples')
  BY <1>2, <1>5, <1>6 DEF Changed, Seen
<1>7. ASSUME Scrolled PROVE Changed(samples')
  <2>1. n \in DOMAIN samples /\ samples[n].text # transcript
    BY <1>7, OneMore DEF Scrolled, WaitTypeOK
  <2>. QED
    BY <1>2, <1>3, <2>1 DEF Changed
<1>8. Seen(samples', paneShows)
  BY <1>2 DEF Seen
<1>. QED
  BY <1>1, <1>4, <1>5, <1>6, <1>7, <1>8

\* A window that begins with the sample, or in which the pane showed what it
\* shows now, was held up to the sample.
LEMMA WindowGrows ==
    ASSUME WaitTypeOK, samples' = Sample, SamplesArePast, NEW s \in Nat,
           s = clock \/ (s < clock /\ ShownSince(samples, paneShows, s))
    PROVE  ShownSince(samples', paneShows, s)
<1>. DEFINE n == Len(samples)
<1>1. \A i \in DOMAIN samples' : i = n + 1 \/ i \in DOMAIN samples
  BY OneMore
<1>2. n + 1 \in DOMAIN samples' /\ samples'[n + 1].at = clock
      /\ samples'[n + 1].shows = paneShows
  BY OneMore
<1>3. \A i \in DOMAIN samples :
          i \in DOMAIN samples' /\ samples'[i] = samples[i]
          /\ samples[i].at \in Nat /\ samples[i].at < clock
  BY OneMore DEF SamplesArePast, WaitSamples
<1>. QED
  BY <1>1, <1>2, <1>3 DEF ShownSince, WaitTypeOK

\* One in which nothing was printed stays so, when the sample shows nothing new.
LEMMA StillGrows ==
    ASSUME WaitTypeOK, samples' = Sample, SamplesArePast, NEW s \in Nat,
           s = clock \/ (s < clock /\ StillSince(samples, s) /\ ~Scrolled)
    PROVE  StillSince(samples', s)
<1>. DEFINE n == Len(samples)
<1>1. \A i \in DOMAIN samples' : i = n + 1 \/ i \in DOMAIN samples
  BY OneMore
<1>2. Len(samples') = n + 1 /\ samples'[n + 1].text = transcript
  BY OneMore
<1>3. \A i \in DOMAIN samples :
          samples'[i] = samples[i] /\ samples[i].at \in Nat /\ samples[i].at < clock
  BY OneMore DEF SamplesArePast, WaitSamples
<1>4. samples # <<>> /\ ~Scrolled => samples[n].text = transcript
  BY DEF Scrolled
<1>5. \A i \in DOMAIN samples : samples # <<>>
  BY OneMore DEF WaitTypeOK
<1>. QED
  BY <1>1, <1>2, <1>3, <1>4, <1>5 DEF StillSince, WaitTypeOK

-----------------------------------------------------------------------------
\* At first nothing was observed.
LEMMA WaitStarts == WaitInit => WaitInv
<1>. SUFFICES ASSUME WaitInit PROVE WaitInv
  OBVIOUS
<1>1. samples \in Seq(WaitSamples) /\ \A i \in DOMAIN samples : FALSE
  BY DEF WaitInit
<1>2. WaitTypeOK
  BY <1>1 DEF WaitInit, WaitTypeOK
<1>3. WaitsWell /\ ReportsWhatHeld
  BY <1>1 DEF WaitInit, WaitsWell, SamplesArePast, PrevWasSeen, ChangeWasSeen,
              SettlesSoFar, BlockedSoFar, ReportsWhatHeld
<1>. QED
  BY <1>2, <1>3 DEF WaitInv

\* A sample that shows a blocker.
LEMMA BlockedKeeps == WaitInv /\ Blocked => WaitInv'
<1>. SUFFICES ASSUME WaitInv, Blocked PROVE WaitInv'
  OBVIOUS
<1>. DEFINE begun == IF blocked = -1 THEN clock ELSE blocked
            held == Held(begun, wait.humanSettle)
            moved == transition \/ (held /\ prev \notin {"none", "needs-human"})
<1>1. /\ reason = "none" /\ clock < WaitTimeout /\ paneShows = "needs-human"
      /\ samples' = Sample /\ since' = -1 /\ blocked' = begun /\ transition' = moved
      /\ UNCHANGED <<paneShows, transcript, wait, prev>>
  BY DEF Blocked
<1>2. IF held THEN Reports("needs_human", wait.until = "needs-human"
                                          /\ (~wait.transition \/ moved))
              ELSE Sleeps(begun, wait.humanSettle)
  BY DEF Blocked
<1>3. /\ WaitTypeOK /\ SamplesArePast /\ PrevWasSeen /\ ChangeWasSeen /\ BlockedSoFar
      /\ wait.humanSettle \in Nat /\ wait.humanSettle > 0
  BY <1>1, WaitHas DEF WaitInv, WaitsWell, WaitTypeOK
<1>4. begun \in Nat /\ begun <= clock /\ clock - begun <= wait.humanSettle
      /\ held \in BOOLEAN /\ (held <=> clock - begun >= wait.humanSettle)
  BY <1>3 DEF BlockedSoFar, WaitTypeOK, Held
<1>5. ShownSince(samples', "needs-human", begun)
  <2>1. begun = clock \/ (begun < clock /\ ShownSince(samples, paneShows, begun))
    BY <1>1, <1>3 DEF BlockedSoFar
  <2>. HIDE DEF begun
  <2>. QED
    BY <1>1, <1>3, <1>4, <2>1, WindowGrows
<1>6. samples' \in Seq(WaitSamples) /\ (prev # "none" => Seen(samples', prev))
      /\ (moved => Changed(samples'))
      /\ \A i \in DOMAIN samples' : samples'[i].at <= clock /\ samples'[i].at \in Nat
  BY <1>1, <1>3, OneMore, SampleKeeps DEF ChangeWasSeen
<1>7. moved \in BOOLEAN
  BY <1>3, <1>4 DEF WaitTypeOK
<1>. HIDE DEF begun, moved
<1>8. CASE held
  <2>1. reason' = "needs_human" /\ clock' = clock
    BY <1>2, <1>8 DEF Reports
  <2>2. WaitTypeOK'
    BY <1>1, <1>3, <1>4, <1>6, <1>7, <2>1 DEF WaitTypeOK
  <2>3. clock' - begun = wait.humanSettle
    BY <1>3, <1>4, <1>8, <2>1 DEF WaitTypeOK
  <2>4. HeldFor("needs-human", wait.humanSettle)'
    <3>1. clock' \in Nat /\ wait' = wait
      BY <1>1, <1>3, <2>1 DEF WaitTypeOK
    <3>2. clock' \in Nat /\ wait.humanSettle \in Nat /\ begun \in Nat
      BY <1>3, <1>4, <3>1
    <3>. DEFINE w == wait.humanSettle
                c == clock'
    <3>3. c \in Nat /\ w \in Nat /\ c - begun = w
      BY <2>3, <3>2
    <3>. HIDE DEF w, c
    <3>4. /\ \E i \in Open(samples', c, w) : samples'[i].at = c - w
          /\ \A i \in Open(samples', c, w) : samples'[i].shows = "needs-human"
      <4>1. c - w = begun
        BY <3>2, <3>3
      <4>. QED
        BY <1>5, <3>2, <4>1 DEF Open, ShownSince
    <3>5. wait'.humanSettle = w /\ Window(wait.humanSettle)' = Open(samples', c, w)
      BY <3>1 DEF Window, Open, w, c
    <3>. QED
      BY <3>4, <3>5 DEF HeldFor, w, c
  <2>. QED
    BY <2>1, <2>2, <2>4 DEF WaitInv, ReportsWhatHeld
<1>9. CASE ~held
  <2>1. clock' = clock + Delay(begun, wait.humanSettle) /\ reason' = "none"
    BY <1>1, <1>2, <1>9 DEF Sleeps
  <2>2. Delay(begun, wait.humanSettle) \in Nat /\ Delay(begun, wait.humanSettle) > 0
        /\ clock + Delay(begun, wait.humanSettle) - begun <= wait.humanSettle
    <3>1. clock - begun < wait.humanSettle /\ clock \in Nat
      BY <1>3, <1>4, <1>9 DEF WaitTypeOK
    <3>. QED
      BY <1>1, <1>3, <1>4, <3>1, SleepsOn
  <2>3. clock' \in Nat /\ clock' > clock /\ clock' - begun <= wait.humanSettle
    <3>1. clock \in Nat
      BY <1>3 DEF WaitTypeOK
    <3>. QED
      BY <1>3, <1>4, <2>1, <2>2, <3>1
  <2>4. WaitTypeOK'
    BY <1>1, <1>3, <1>4, <1>6, <1>7, <2>3 DEF WaitTypeOK
  <2>5. SamplesArePast' /\ PrevWasSeen' /\ ChangeWasSeen' /\ SettlesSoFar'
    BY <1>1, <1>3, <1>6, <2>3
    DEF SamplesArePast, PrevWasSeen, ChangeWasSeen, SettlesSoFar, WaitTypeOK
  <2>6. BlockedSoFar'
    BY <1>1, <1>3, <1>4, <1>5, <2>3 DEF BlockedSoFar, WaitTypeOK
  <2>. QED
    BY <2>1, <2>4, <2>5, <2>6 DEF WaitInv, WaitsWell, ReportsWhatHeld
<1>. QED
  BY <1>4, <1>8, <1>9

\* A sample of any other state.
LEMMA ObservesKeeps == WaitInv /\ Observes => WaitInv'
<1>. SUFFICES ASSUME WaitInv, Observes PROVE WaitInv'
  OBVIOUS
<1>. DEFINE stays == ~(Scrolled /\ paneShows = "input-ready")
<1>1. /\ reason = "none" /\ clock < WaitTimeout /\ samples' = Sample
      /\ blocked' = -1 /\ prev' = paneShows /\ transition' = (transition \/ Moved)
      /\ UNCHANGED <<paneShows, transcript, wait>>
  BY DEF Observes
<1>2. /\ since' = (IF ~Matches THEN -1 ELSE IF StillHolds THEN since ELSE clock)
      /\ IF Matches /\ Held(since', wait.settle)
         THEN Reports("condition_met", TRUE)
         ELSE Sleeps(since', IF since' = -1 THEN 0 ELSE wait.settle)
  BY DEF Observes
<1>3. /\ WaitTypeOK /\ SamplesArePast /\ PrevWasSeen /\ ChangeWasSeen /\ SettlesSoFar
      /\ wait.settle \in Nat /\ clock \in Nat
  BY <1>1, WaitHas DEF WaitInv, WaitsWell, WaitTypeOK
<1>4. /\ samples' \in Seq(WaitSamples) /\ Seen(samples', paneShows)
      /\ \A i \in DOMAIN samples' : samples'[i].at <= clock /\ samples'[i].at \in Nat
  BY <1>1, <1>3, OneMore, SampleKeeps
<1>5. transition' \in BOOLEAN /\ (transition' => Changed(samples'))
  BY <1>1, <1>3, SampleKeeps DEF ChangeWasSeen, Moved, WaitTypeOK
<1>6. Matches => paneShows = wait.until /\ (wait.transition => transition')
  BY DEF Matches
<1>7. CASE ~Matches
  <2>1. since' = -1 /\ clock' = clock + Delay(-1, 0) /\ reason' = "none"
    BY <1>1, <1>2, <1>7 DEF Sleeps
  <2>2. clock' \in Nat /\ clock' > clock
    BY <1>1, <1>3, <2>1, SleepsOnWithoutWindow
  <2>3. WaitTypeOK'
    BY <1>1, <1>3, <1>4, <1>5, <2>1, <2>2 DEF WaitTypeOK
  <2>4. WaitsWell'
    BY <1>1, <1>3, <1>4, <1>5, <2>1, <2>2
    DEF WaitsWell, SamplesArePast, PrevWasSeen, ChangeWasSeen, SettlesSoFar, BlockedSoFar
  <2>. QED
    BY <2>1, <2>3, <2>4 DEF WaitInv, ReportsWhatHeld
<1>8. CASE Matches
  <2>1. /\ since' \in Nat /\ since' <= clock /\ clock - since' <= wait.settle
        /\ since' = clock \/ (since' = since /\ since # -1 /\ since < clock /\ stays)
    BY <1>2, <1>3, <1>8 DEF SettlesSoFar, StillHolds, WaitTypeOK
  <2>2. ShownSince(samples', wait.until, since')
    <3>1. since' = clock \/ (since' < clock /\ ShownSince(samples, paneShows, since'))
      BY <1>3, <1>6, <1>8, <2>1 DEF SettlesSoFar
    <3>. QED
      BY <1>1, <1>3, <1>6, <1>8, <2>1, <3>1, WindowGrows
  <2>3. wait.until = "input-ready" => StillSince(samples', since')
    <3>. SUFFICES ASSUME wait.until = "input-ready"
                  PROVE  StillSince(samples', since')
      OBVIOUS
    <3>1. since' = clock \/ (since' < clock /\ StillSince(samples, since') /\ ~Scrolled)
      BY <1>3, <1>6, <1>8, <2>1 DEF SettlesSoFar
    <3>. QED
      BY <1>1, <1>3, <2>1, <3>1, StillGrows
  <2>4. CASE Held(since', wait.settle)
    <3>1. reason' = "condition_met" /\ clock' = clock
      BY <1>2, <1>8, <2>4 DEF Reports
    <3>2. WaitTypeOK'
      BY <1>1, <1>3, <1>4, <1>5, <2>1, <3>1 DEF WaitTypeOK
    <3>3. clock' - since' = wait.settle
      BY <1>3, <2>1, <2>4, <3>1 DEF Held
    <3>4. /\ HeldFor(wait.until, wait.settle)'
          /\ wait.until = "input-ready" =>
                \A i, j \in Window(wait.settle)' : samples'[i].text = samples'[j].text
      <4>1. clock' \in Nat /\ wait' = wait
        BY <1>1, <1>3, <3>1
      <4>2. /\ \E i \in Open(samples', clock', wait.settle) :
                   samples'[i].at = clock' - wait.settle
            /\ \A i \in Open(samples', clock', wait.settle) : samples'[i].shows = wait.until
            /\ StillSince(samples', since') =>
                  \A i, j \in Open(samples', clock', wait.settle) :
                      samples'[i].text = samples'[j].text
        <5>1. clock' - wait.settle = since'
          BY <1>3, <2>1, <3>1, <3>3, <4>1
        <5>. QED
          BY <1>3, <2>1, <2>2, <4>1, <5>1 DEF Open, ShownSince, StillSince
      <4>3. wait'.settle = wait.settle /\ wait'.until = wait.until
            /\ Window(wait.settle)' = Open(samples', clock', wait.settle)
        BY <4>1 DEF Window, Open
      <4>. QED
        BY <2>3, <4>1, <4>2, <4>3 DEF HeldFor
    <3>5. wait.transition => Changed(samples')
      BY <1>5, <1>6, <1>8
    <3>. QED
      BY <1>1, <3>1, <3>2, <3>4, <3>5 DEF WaitInv, ReportsWhatHeld, Changed
  <2>5. CASE ~Held(since', wait.settle)
    <3>1. since' # -1
      BY <2>1
    <3>2. clock' = clock + Delay(since', wait.settle) /\ reason' = "none"
      BY <1>1, <1>2, <2>5, <3>1 DEF Sleeps
    <3>3. clock - since' < wait.settle
      BY <1>3, <2>1, <2>5 DEF Held
    <3>4. clock' \in Nat /\ clock' > clock /\ clock' - since' <= wait.settle
      BY <1>1, <1>3, <2>1, <3>2, <3>3, SleepsOn
    <3>5. WaitTypeOK'
      BY <1>1, <1>3, <1>4, <1>5, <2>1, <3>4 DEF WaitTypeOK
    <3>6. SettlesSoFar'
      BY <1>1, <1>3, <2>1, <2>2, <2>3, <3>4 DEF SettlesSoFar
    <3>7. WaitsWell'
      BY <1>1, <1>3, <1>4, <1>5, <3>4, <3>6
      DEF WaitsWell, SamplesArePast, PrevWasSeen, ChangeWasSeen, BlockedSoFar
    <3>. QED
      BY <3>2, <3>5, <3>7 DEF WaitInv, ReportsWhatHeld
  <2>. QED
    BY <2>4, <2>5
<1>. QED
  BY <1>7, <1>8

\* What ends the wait otherwise, and the pane between samples.
LEMMA OtherWaitSteps ==
    WaitInv /\ (PaneChanges \/ PaneGone \/ TimesOut \/ UNCHANGED waitVars) => WaitInv'
<1>. SUFFICES ASSUME WaitInv, PaneChanges \/ PaneGone \/ TimesOut \/ UNCHANGED waitVars
              PROVE  WaitInv'
  OBVIOUS
<1>1. CASE PaneChanges
  BY <1>1 DEF PaneChanges, WaitInv, WaitTypeOK, WaitsWell, SamplesArePast, PrevWasSeen,
              ChangeWasSeen, SettlesSoFar, BlockedSoFar, ReportsWhatHeld
<1>2. CASE PaneGone
  <2>1. transition' \in BOOLEAN
    BY <1>2 DEF PaneGone, WaitInv, WaitTypeOK
  <2>. QED
    BY <1>2, <2>1 DEF PaneGone, Reports, WaitInv, WaitTypeOK, ReportsWhatHeld
<1>3. CASE TimesOut
  BY <1>3 DEF TimesOut, Reports, WaitInv, WaitTypeOK, ReportsWhatHeld
<1>4. CASE UNCHANGED waitVars
  BY <1>4 DEF waitVars, WaitInv, WaitTypeOK, WaitsWell, SamplesArePast, PrevWasSeen,
              ChangeWasSeen, SettlesSoFar, BlockedSoFar, ReportsWhatHeld, HeldFor, Window
<1>. QED
  BY <1>1, <1>2, <1>3, <1>4

\* For any options, poll interval and timeout: a wait that reports its condition, or
\* a blocker, saw it in every sample of the whole window (panewait/wait.go).
THEOREM ReportHeld == WaitSpec => []ReportsWhatHeld
<1>1. WaitInv /\ [WaitNext]_waitVars => WaitInv'
  BY BlockedKeeps, ObservesKeeps, OtherWaitSteps DEF WaitNext, WaitStep
<1>2. WaitInv => ReportsWhatHeld
  BY DEF WaitInv
<1>. QED
  BY WaitStarts, <1>1, <1>2, PTL DEF WaitSpec

(***************************************************************************)
(* CredentialRequests: its registry and its commands implement OneOutcome. *)
(* The invariant says what the registry's lock keeps apart: a value that   *)
(* was written is that of a request about to be resolved, unless the       *)
(* daemon was restarted.                                                   *)
(***************************************************************************)
Outcomes == {"submitted", "declined", "expired"}

CredTypeOK ==
    /\ entry \in [Ids -> [state : {"none", "pending"} \cup Outcomes,
                          kept : BOOLEAN, by : Clients \cup {"nobody"}]]
    /\ lock \in [id : Ids \cup {"none"}, step : {"no", "write", "resolve"}]
    /\ given \subseteq Ids
    /\ client \in [Clients ->
           [at : {"start", "created", "waiting", "cut off", "done"},
            id : Ids \cup {"none"}, created : BOOLEAN,
            answer : {"none", "stored", "lost"} \cup Outcomes]]

\* Requests exist when a command made them, and that one remembers it.
Made ==
    \A i \in Ids :
        /\ entry[i].by = "nobody" <=> entry[i].state = "none"
        /\ \A c \in Clients : entry[i].by = c => client[c].created

\* A command that starts has nothing, one that waits has a request, and only
\* one that is done was told anything.
Placed ==
    \A c \in Clients :
        /\ client[c].at = "start" => client[c].id = "none" /\ ~client[c].created
        /\ client[c].at \in {"created", "waiting"} => client[c].id \in Ids
        /\ client[c].at # "done" => client[c].answer = "none"

\* The lock is held for a request that is pending, and only such a request has
\* a value while it can still be answered or expire.
LockHeld ==
    /\ lock.step = "no" => lock = Free
    /\ lock.step # "no" => lock.id \in Ids /\ entry[lock.id].state = "pending"
    /\ lock.step = "resolve" => lock.id \in given
    /\ \A i \in PendingIds : i \in given => lock.step = "resolve" /\ lock.id = i
    /\ \A i \in given : entry[i].state # "none"

CredInv == CredTypeOK /\ Made /\ Placed /\ LockHeld

-----------------------------------------------------------------------------
(* The invariant *)

LEMMA InitInv ==
    ASSUME CredInit
    PROVE  CredInv
BY CredAssumption
   DEF CredInit, CredInv, CredTypeOK, Made, Placed, LockHeld, Free, Outcomes, PendingIds

LEMMA StutterInv ==
    ASSUME CredInv, UNCHANGED credVars
    PROVE  CredInv'
BY DEF CredInv, CredTypeOK, Made, Placed, LockHeld, PendingIds, credVars

\* A command that is told something and is done keeps the invariant.
LEMMA AnswerInv ==
    ASSUME CredInv, NEW c \in Clients, NEW answer \in {"stored", "lost"} \cup Outcomes,
           AnswersClient(c, answer), UNCHANGED <<entry, lock, given>>
    PROVE  CredInv'
<1>0. client[c].id \in Ids \cup {"none"} /\ client[c].created \in BOOLEAN
  BY DEF CredInv, CredTypeOK
<1>1. CredTypeOK'
  <2>1. \A d \in Clients \ {c} : client'[d] = client[d]
    BY DEF CredInv, CredTypeOK, AnswersClient
  <2>2. /\ client'[c].at = "done" /\ client'[c].answer = answer
        /\ client'[c].id = client[c].id /\ client'[c].created = client[c].created
    BY ZenonT(60) DEF CredInv, CredTypeOK, AnswersClient
  <2>. QED
    BY <1>0, <2>1, <2>2, ZenonT(60) DEF CredInv, CredTypeOK, AnswersClient
<1>2. \A d \in Clients :
        /\ client'[d].id = client[d].id /\ (client[d].created => client'[d].created)
        /\ d # c => client'[d] = client[d]
  BY ZenonT(60) DEF CredInv, CredTypeOK, AnswersClient
<1>3. client'[c].at = "done"
  BY DEF CredInv, CredTypeOK, AnswersClient
<1>4. Made'
  BY <1>2 DEF CredInv, Made
<1>5. Placed'
  BY <1>2, <1>3 DEF CredInv, Placed
<1>6. LockHeld'
  BY DEF CredInv, LockHeld, PendingIds
<1>. QED
  BY <1>1, <1>4, <1>5, <1>6 DEF CredInv

\* The steps of a command keep the invariant.
LEMMA ClientInv ==
    ASSUME CredInv, NEW c \in Clients,
           FindsStored(c) \/ Creates(c) \/ GivesUp(c) \/ CommandStep(c)
    PROVE  CredInv'
<1>. USE DEF CredInv, CredTypeOK
<1>1. CASE FindsStored(c)
  BY <1>1, AnswerInv DEF FindsStored
<1>2. CASE Creates(c)
  <2>1. CASE PendingIds # {}
    <3>1. PICK i \in PendingIds :
            client' = [client EXCEPT ![c] = [@ EXCEPT !.at = "created", !.id = i]]
      BY <1>2, <2>1 DEF Creates
    <3>2. i \in Ids /\ entry' = entry /\ lock' = lock /\ given' = given
      BY <1>2, <2>1 DEF Creates, PendingIds
    <3>3. client[c].at = "start"
      BY <1>2 DEF Creates
    <3>4. CredTypeOK'
      BY <3>1, <3>2, ZenonT(60)
    <3>5. \A d \in Clients : client'[d].created = client[d].created
      BY <3>1, ZenonT(60)
    <3>6. Made'
      BY <3>2, <3>5 DEF Made
    <3>7. Placed'
      BY <3>1, <3>2, <3>3, ZenonT(60) DEF Placed
    <3>8. LockHeld'
      BY <3>2 DEF LockHeld, PendingIds
    <3>. QED
      BY <3>4, <3>6, <3>7, <3>8
  <2>2. CASE PendingIds = {}
    <3>1. PICK i \in Ids :
            /\ entry[i].state = "none"
            /\ entry' = [entry EXCEPT ![i] = [state |-> "pending", kept |-> TRUE, by |-> c]]
            /\ client' = [client EXCEPT ![c] =
                   [@ EXCEPT !.at = "created", !.id = i, !.created = TRUE]]
      BY <1>2, <2>2 DEF Creates
    <3>2. lock' = lock /\ given' = given /\ lock = Free /\ client[c].at = "start"
      BY <1>2 DEF Creates, Unlocked
    <3>3. CredTypeOK'
      BY <3>1, <3>2, ZenonT(60)
    <3>4. Made'
      BY <3>1, CredAssumption, ZenonT(60) DEF Made
    <3>5. Placed'
      BY <3>1, <3>2, ZenonT(60) DEF Placed
    <3>6. i \notin given
      BY <3>1 DEF LockHeld
    <3>7. LockHeld'
      BY <3>1, <3>2, <3>6, <2>2 DEF LockHeld, PendingIds, Free
    <3>. QED
      BY <3>3, <3>4, <3>5, <3>7
  <2>. QED
    BY <2>1, <2>2
<1>3. CASE GivesUp(c)
  BY <1>3, AnswerInv DEF GivesUp, Outcomes
<1>4. CASE WaitsFor(c)
  <2>1. CASE AnswersClient(c, "lost")
    BY <1>4, <2>1, AnswerInv DEF WaitsFor
  <2>2. CASE client' = [client EXCEPT ![c].at = "waiting"]
    <3>1. CredTypeOK'
      BY <1>4, <2>2, ZenonT(60) DEF WaitsFor
    <3>2. Made'
      BY <1>4, <2>2, ZenonT(60) DEF WaitsFor, Made
    <3>3. Placed'
      BY <1>4, <2>2, ZenonT(60) DEF WaitsFor, Placed
    <3>4. LockHeld'
      BY <1>4 DEF WaitsFor, LockHeld, PendingIds
    <3>. QED
      BY <3>1, <3>2, <3>3, <3>4
  <2>. QED
    BY <1>4, <2>1, <2>2 DEF WaitsFor
<1>5. CASE WaitEnds(c)
  <2>1. client[c].id \in Ids
    BY <1>5 DEF WaitEnds, Placed
  <2>2. entry[client[c].id].state \in Outcomes
    BY <1>5, <2>1 DEF WaitEnds, IsResolved
  <2>. QED
    BY <1>5, <2>2, AnswerInv DEF WaitEnds
<1>6. CASE CutOff(c)
  BY <1>6, AnswerInv DEF CutOff
<1>. QED
  BY <1>1, <1>2, <1>3, <1>4, <1>5, <1>6 DEF CommandStep

\* What a step of the registry leaves of the parts of the invariant when it keeps
\* who made a request and whether there is one, and lets go of the lock.
LEMMA MadeKept ==
    ASSUME Made,
           \A j \in Ids : /\ entry'[j].by = entry[j].by
                          /\ entry'[j].state = "none" <=> entry[j].state = "none",
           \A d \in Clients : client[d].created => client'[d].created
    PROVE  Made'
BY DEF Made

LEMMA HeldFreed ==
    ASSUME LockHeld, lock' = Free, given' = given,
           \A j \in Ids : entry'[j].state = "none" <=> entry[j].state = "none",
           given \subseteq Ids,
           \A j \in Ids : entry'[j].kept /\ entry'[j].state = "pending" => j \notin given
    PROVE  LockHeld'
BY DEF LockHeld, PendingIds, Free

\* Without the lock no pending request has a value.
LEMMA NothingGiven ==
    ASSUME LockHeld, lock.step # "resolve", NEW j \in Ids, entry[j].kept, entry[j].state = "pending"
    PROVE  j \notin given
BY DEF LockHeld, PendingIds

LEMMA PlacedKept ==
    ASSUME Placed, client' = client
    PROVE  Placed'
BY DEF Placed

\* A request that is resolved.
LEMMA ResolvedEntry ==
    ASSUME CredTypeOK, NEW i \in Ids, NEW o \in Outcomes, Resolve(i, o),
           entry[i].state = "pending"
    PROVE  /\ entry' \in [Ids -> [state : {"none", "pending"} \cup Outcomes,
                                  kept : BOOLEAN, by : Clients \cup {"nobody"}]]
           /\ \A j \in Ids : /\ entry'[j].by = entry[j].by
                             /\ entry'[j].state = "none" <=> entry[j].state = "none"
           /\ \A j \in Ids \ {i} : entry'[j] = entry[j]
           /\ entry'[i].state = o
<1>1. entry' = [entry EXCEPT ![i].state = o]
  BY DEF Resolve
<1>2. entry'[i] = [entry[i] EXCEPT !.state = o] /\ \A j \in Ids \ {i} : entry'[j] = entry[j]
  BY <1>1 DEF CredTypeOK
<1>3. o \notin {"none", "pending"}
  BY DEF Outcomes
<1>4. entry'[i].state = o /\ entry'[i].by = entry[i].by
  <2>1. entry[i] \in [state : {"none", "pending"} \cup Outcomes,
                     kept : BOOLEAN, by : Clients \cup {"nobody"}]
    BY DEF CredTypeOK
  <2>. QED
    BY <1>2, <2>1
<1>5. entry' \in [Ids -> [state : {"none", "pending"} \cup Outcomes,
                          kept : BOOLEAN, by : Clients \cup {"nobody"}]]
  BY <1>1, ZenonT(60) DEF CredTypeOK
<1>6. \A j \in Ids : /\ entry'[j].by = entry[j].by
                  /\ entry'[j].state = "none" <=> entry[j].state = "none"
  BY <1>2, <1>3, <1>4
<1>. QED
  BY <1>2, <1>4, <1>5, <1>6

\* A request that nobody has the lock for is resolved.
LEMMA ResolveInv ==
    ASSUME CredInv, NEW i \in Ids, NEW o \in Outcomes, Unlocked, IsPending(i), Resolve(i, o),
           UNCHANGED <<lock, given, client>>
    PROVE  CredInv'
<1>0. CredTypeOK /\ Made /\ Placed /\ LockHeld /\ entry[i].state = "pending" /\ lock = Free
  BY DEF CredInv, IsPending, PendingIds, Unlocked
<1>1. /\ entry' \in [Ids -> [state : {"none", "pending"} \cup Outcomes,
                             kept : BOOLEAN, by : Clients \cup {"nobody"}]]
      /\ \A j \in Ids : /\ entry'[j].by = entry[j].by
                        /\ entry'[j].state = "none" <=> entry[j].state = "none"
      /\ \A j \in Ids \ {i} : entry'[j] = entry[j]
      /\ entry'[i].state = o
  BY <1>0, ResolvedEntry
<1>2. CredTypeOK'
  BY <1>0, <1>1 DEF CredTypeOK
<1>3. Made'
  BY <1>0, <1>1, MadeKept
<1>4. Placed'
  BY <1>0, PlacedKept
<1>5. \A j \in Ids : entry'[j].kept /\ entry'[j].state = "pending" => j \notin given
  <2>1. o # "pending" /\ lock.step # "resolve"
    BY <1>0 DEF Outcomes, Free
  <2>. QED
    BY <1>0, <1>1, <2>1, NothingGiven
<1>6. LockHeld'
  BY <1>0, <1>1, <1>5, HeldFreed DEF CredTypeOK
<1>. QED
  BY <1>2, <1>3, <1>4, <1>6 DEF CredInv

\* The steps of the registry keep the invariant.
LEMMA RegistryInv ==
    ASSUME CredInv, NEW i \in Ids,
           SubmitBegins(i) \/ Decline(i) \/ Expire(i) \/ Prune(i)
    PROVE  CredInv'
<1>0. CredTypeOK /\ Made /\ Placed /\ LockHeld
  BY DEF CredInv
<1>1. CASE SubmitBegins(i)
  <2>1. /\ entry[i].state = "pending" /\ lock = Free /\ lock' = [id |-> i, step |-> "write"]
        /\ entry' = entry /\ given' = given /\ client' = client
    BY <1>1 DEF SubmitBegins, IsPending, PendingIds, Unlocked
  <2>2. CredTypeOK'
    BY <1>0, <2>1 DEF CredTypeOK
  <2>3. Made' /\ Placed'
    BY <1>0, <2>1, MadeKept, PlacedKept
  <2>4. LockHeld'
    BY <1>0, <2>1 DEF LockHeld, PendingIds, Free
  <2>. QED
    BY <2>2, <2>3, <2>4 DEF CredInv
<1>2. CASE Decline(i)
  BY <1>2, ResolveInv DEF Decline, Outcomes
<1>3. CASE Expire(i)
  BY <1>3, ResolveInv DEF Expire, IsPending, Outcomes
<1>4. CASE Prune(i)
  <2>1. lock = Free /\ entry' = [entry EXCEPT ![i].kept = FALSE]
        /\ lock' = lock /\ given' = given /\ client' = client
    BY <1>4 DEF Prune, PruneGuard, Unlocked
  <2>2. \A j \in Ids : /\ entry'[j].state = entry[j].state /\ entry'[j].by = entry[j].by
                       /\ entry'[j].kept => entry[j].kept
    BY <1>0, <2>1, ZenonT(60) DEF CredTypeOK
  <2>3. CredTypeOK'
    BY <1>0, <2>1, ZenonT(60) DEF CredTypeOK
  <2>4. Made' /\ Placed'
    BY <1>0, <2>1, <2>2, MadeKept, PlacedKept
  <2>5. \A j \in Ids : entry'[j].kept /\ entry'[j].state = "pending" => j \notin given
    <3>1. lock.step # "resolve"
      BY <2>1 DEF Free
    <3>. QED
      BY <1>0, <2>2, <3>1, NothingGiven
  <2>6. LockHeld'
    BY <1>0, <2>1, <2>2, <2>5, HeldFreed DEF CredTypeOK
  <2>. QED
    BY <2>3, <2>4, <2>6 DEF CredInv
<1>. QED
  BY <1>1, <1>2, <1>3, <1>4

\* So do the steps of a submission, a restart and `cred rm`.
LEMMA SubmitInv ==
    ASSUME CredInv, SubmitStep \/ Restart \/ Removes
    PROVE  CredInv'
<1>0. CredTypeOK /\ Made /\ Placed /\ LockHeld
  BY DEF CredInv
<1>1. CASE SubmitWrites
  <2>1. /\ lock.id \in Ids /\ entry[lock.id].state = "pending" /\ lock.step = "write"
        /\ given' = given \cup {lock.id} /\ entry' = entry /\ client' = client
    BY <1>0, <1>1 DEF SubmitWrites, LockHeld
  <2>2. lock' = [id |-> lock.id, step |-> "resolve"]
    BY <1>0, <1>1 DEF SubmitWrites, CredTypeOK
  <2>3. CredTypeOK'
    BY <1>0, <2>1, <2>2 DEF CredTypeOK
  <2>4. Made' /\ Placed'
    BY <1>0, <2>1, MadeKept, PlacedKept
  <2>5. LockHeld'
    BY <1>0, <2>1, <2>2 DEF LockHeld, PendingIds
  <2>. QED
    BY <2>3, <2>4, <2>5 DEF CredInv
<1>2. CASE SubmitFails
  <2>1. lock.step = "write" /\ lock' = Free /\ UNCHANGED <<entry, given, client>>
    BY <1>2 DEF SubmitFails
  <2>2. CredTypeOK'
    BY <1>0, <2>1 DEF CredTypeOK, Free
  <2>3. Made' /\ Placed'
    BY <1>0, <2>1, MadeKept, PlacedKept
  <2>4. \A j \in Ids : entry'[j].kept /\ entry'[j].state = "pending" => j \notin given
    BY <1>0, <2>1, NothingGiven
  <2>5. LockHeld'
    BY <1>0, <2>1, <2>4, HeldFreed DEF CredTypeOK
  <2>. QED
    BY <2>2, <2>3, <2>5 DEF CredInv
<1>3. CASE SubmitResolves
  <2>1. /\ lock.id \in Ids /\ entry[lock.id].state = "pending" /\ lock.step = "resolve"
        /\ Resolve(lock.id, "submitted") /\ "submitted" \in Outcomes
        /\ lock' = Free /\ given' = given /\ client' = client
    BY <1>0, <1>3 DEF SubmitResolves, LockHeld, Outcomes
  <2>2. /\ entry' \in [Ids -> [state : {"none", "pending"} \cup Outcomes,
                               kept : BOOLEAN, by : Clients \cup {"nobody"}]]
        /\ \A j \in Ids : /\ entry'[j].by = entry[j].by
                          /\ entry'[j].state = "none" <=> entry[j].state = "none"
        /\ \A j \in Ids \ {lock.id} : entry'[j] = entry[j]
        /\ entry'[lock.id].state = "submitted"
    BY <1>0, <2>1, ResolvedEntry
  <2>3. CredTypeOK'
    BY <1>0, <2>1, <2>2 DEF CredTypeOK, Free
  <2>4. Made' /\ Placed'
    BY <1>0, <2>1, <2>2, MadeKept, PlacedKept
  <2>5. \A j \in Ids : entry'[j].kept /\ entry'[j].state = "pending" => j \notin given
    BY <1>0, <2>1, <2>2 DEF LockHeld, PendingIds
  <2>6. LockHeld'
    BY <1>0, <2>1, <2>2, <2>5, HeldFreed DEF CredTypeOK
  <2>. QED
    BY <2>3, <2>4, <2>6 DEF CredInv
<1>4. CASE Restart
  <2>1. /\ lock' = Free /\ given' = given
        /\ entry' = [i \in Ids |-> [entry[i] EXCEPT !.kept = FALSE]]
        /\ client' = [c \in Clients |->
               IF client[c].at = "waiting" THEN [client[c] EXCEPT !.at = "cut off"] ELSE client[c]]
    BY <1>4 DEF Restart
  <2>2. \A j \in Ids : /\ entry'[j].state = entry[j].state /\ entry'[j].by = entry[j].by
                       /\ ~entry'[j].kept
    BY <1>0, <2>1, ZenonT(60) DEF CredTypeOK
  <2>3. \A c \in Clients :
          /\ client'[c].id = client[c].id
          /\ (client'[c].created <=> client[c].created)
          /\ client'[c].answer = client[c].answer
          /\ client'[c].at # client[c].at => client[c].at = "waiting" /\ client'[c].at = "cut off"
    BY <1>0, <2>1, ZenonT(60) DEF CredTypeOK
  <2>4. CredTypeOK'
    BY <1>0, <2>1, ZenonT(60) DEF CredTypeOK, Free
  <2>5. Made'
    BY <1>0, <2>2, <2>3, MadeKept
  <2>6. Placed'
    BY <1>0, <2>3, ZenonT(60) DEF Placed
  <2>7. LockHeld'
    BY <1>0, <2>1, <2>2, HeldFreed DEF CredTypeOK
  <2>. QED
    BY <2>4, <2>5, <2>6, <2>7 DEF CredInv
<1>5. CASE Removes
  <2>1. UNCHANGED <<entry, lock, given, client>>
    BY <1>5 DEF Removes
  <2>. QED
    BY <1>0, <2>1 DEF CredInv, CredTypeOK, Made, Placed, LockHeld, PendingIds
<1>. QED
  BY <1>1, <1>2, <1>3, <1>4, <1>5 DEF SubmitStep

\* The invariant holds in every state, for any requests and commands.
THEOREM CredInvariant == CredSpec => []CredInv
<1>1. CredInv /\ [CredNext]_credVars => CredInv'
  BY ClientInv, RegistryInv, SubmitInv, StutterInv DEF CredNext
<1>. QED
  BY InitInv, <1>1, PTL DEF CredSpec

-----------------------------------------------------------------------------
(* The refinement of OneOutcome *)

LEMMA InitMaps ==
    ASSUME CredInit
    PROVE  Promise!OutcomeInit
BY DEF CredInit, Promise!OutcomeInit, IsResolved

\* A step that leaves what is decided, asked and told alone is a stutter.
LEMMA Stutters ==
    ASSUME CredInv, given' = given,
           \A i \in Ids : entry'[i].state = entry[i].state /\ entry'[i].by = entry[i].by,
           \A c \in Clients : client'[c].id = client[c].id /\ client'[c].answer = client[c].answer
    PROVE  UNCHANGED Promise!outcomeVars
BY DEF Promise!outcomeVars, IsResolved

\* A command that is told something is told it in OneOutcome.
LEMMA Tells ==
    ASSUME CredInv, NEW c \in Clients, NEW a \in {"stored", "lost"} \cup Outcomes,
           AnswersClient(c, a), client[c].at # "done", UNCHANGED <<entry, given>>,
           a \in Outcomes => client[c].id \in Ids,
           a \in {"submitted", "declined"} => entry[client[c].id].state = a,
           a = "expired" => entry[client[c].id].by # c \/ entry[client[c].id].state = "expired"
    PROVE  Promise!OutcomeNext
<1>1. client[c].answer = "none" /\ client[c].id \in Ids \cup {"none"}
  BY DEF CredInv, CredTypeOK, Placed
<1>2. client' = [client EXCEPT ![c] = [@ EXCEPT !.at = "done", !.answer = a]]
  BY DEF AnswersClient, CredInv, CredTypeOK
<1>3. \A d \in Clients : client'[d].id = client[d].id
  BY <1>2, ZenonT(60) DEF CredInv, CredTypeOK
<1>4. \A d \in Clients : client'[d].answer = IF d = c THEN a ELSE client[d].answer
  BY <1>2 DEF CredInv, CredTypeOK
<1>5. [d \in Clients |-> client'[d].answer] = [[d \in Clients |-> client[d].answer] EXCEPT ![c] = a]
  BY <1>4
<1>6. Promise!Tell(c, a)
  <2>1. CASE a \in Outcomes
    BY <1>1, <1>3, <1>5, <2>1 DEF Promise!Tell, IsResolved, Outcomes
  <2>2. CASE a \in {"stored", "lost"}
    BY <1>1, <1>3, <1>5, <2>2 DEF Promise!Tell, IsResolved
  <2>. QED
    BY <2>1, <2>2
<1>7. a \in {"stored", "submitted", "declined", "expired", "lost"}
  BY DEF Outcomes
<1>. QED
  BY <1>6, <1>7 DEF Promise!OutcomeNext

\* A request that is resolved is decided, as submitted if its value was written
\* and as something else if not.
LEMMA Decides ==
    ASSUME CredInv, NEW i \in Ids, NEW o \in Outcomes, Resolve(i, o),
           entry[i].state = "pending", o = "submitted" <=> i \in given,
           UNCHANGED <<given, client>>
    PROVE  Promise!OutcomeNext
<1>1. /\ \A j \in Ids : entry'[j].by = entry[j].by
      /\ \A j \in Ids \ {i} : entry'[j] = entry[j]
      /\ entry'[i].state = o
  BY ResolvedEntry DEF CredInv
<1>2. o \notin {"none", "pending"} /\ o \in {"submitted", "declined", "expired"}
  BY DEF Outcomes
<1>3. [j \in Ids |-> IF entry'[j].state \notin {"none", "pending"} THEN entry'[j].state ELSE "open"]
      = [[j \in Ids |-> IF entry[j].state \notin {"none", "pending"} THEN entry[j].state ELSE "open"]
            EXCEPT ![i] = o]
  BY <1>1, <1>2
<1>4. Promise!Decide(i, o)
  BY <1>1, <1>3 DEF Promise!Decide, IsResolved
<1>. QED
  BY <1>2, <1>4 DEF Promise!OutcomeNext

\* The steps of a command.
LEMMA CommandMaps ==
    ASSUME CredInv, NEW c \in Clients,
           FindsStored(c) \/ Creates(c) \/ GivesUp(c) \/ CommandStep(c)
    PROVE  [Promise!OutcomeNext]_(Promise!outcomeVars)
<1>0. CredTypeOK /\ Made /\ Placed
  BY DEF CredInv
<1>1. CASE FindsStored(c)
  BY <1>1, Tells DEF FindsStored, Outcomes
<1>2. CASE Creates(c)
  <2>1. client[c].at = "start" /\ client[c].id = "none" /\ given' = given
    BY <1>0, <1>2 DEF Creates, Placed
  <2>2. CASE PendingIds # {}
    <3>1. PICK i \in PendingIds :
            client' = [client EXCEPT ![c] = [@ EXCEPT !.at = "created", !.id = i]]
      BY <1>2, <2>2 DEF Creates
    <3>2. i \in Ids /\ entry[i].state = "pending" /\ entry' = entry
      BY <1>2, <2>2, <3>1 DEF Creates, PendingIds
    <3>3. entry[i].by # "nobody"
      BY <1>0, <3>2 DEF Made
    <3>4. \A d \in Clients : client'[d].answer = client[d].answer
      BY <1>0, <3>1 DEF CredTypeOK
    <3>5. \A d \in Clients : client'[d].id = IF d = c THEN i ELSE client[d].id
      BY <1>0, <3>1 DEF CredTypeOK
    <3>6. [d \in Clients |-> client'[d].id] = [[d \in Clients |-> client[d].id] EXCEPT ![c] = i]
      BY <3>5
    <3>7. Promise!Join(c, i)
      BY <2>1, <3>2, <3>3, <3>4, <3>6 DEF Promise!Join, Promise!Waits, IsResolved
    <3>. QED
      BY <3>2, <3>7 DEF Promise!OutcomeNext
  <2>3. CASE PendingIds = {}
    <3>1. PICK i \in Ids :
            /\ entry[i].state = "none"
            /\ entry' = [entry EXCEPT ![i] = [state |-> "pending", kept |-> TRUE, by |-> c]]
            /\ client' = [client EXCEPT ![c] =
                   [@ EXCEPT !.at = "created", !.id = i, !.created = TRUE]]
      BY <1>2, <2>3 DEF Creates
    <3>2. entry[i].by = "nobody"
      BY <1>0, <3>1 DEF Made
    <3>3. \A d \in Clients : /\ client'[d].answer = client[d].answer
                             /\ client'[d].id = IF d = c THEN i ELSE client[d].id
      BY <1>0, <3>1 DEF CredTypeOK
    <3>4. /\ \A j \in Ids : entry'[j].by = IF j = i THEN c ELSE entry[j].by
          /\ \A j \in Ids \ {i} : entry'[j].state = entry[j].state
          /\ entry'[i].state = "pending"
      BY <1>0, <3>1 DEF CredTypeOK
    <3>5. [d \in Clients |-> client'[d].id] = [[d \in Clients |-> client[d].id] EXCEPT ![c] = i]
      BY <3>3
    <3>6. [j \in Ids |-> entry'[j].by] = [[j \in Ids |-> entry[j].by] EXCEPT ![i] = c]
      BY <3>4
    <3>7. [j \in Ids |-> IF entry'[j].state \notin {"none", "pending"} THEN entry'[j].state ELSE "open"]
          = [j \in Ids |-> IF entry[j].state \notin {"none", "pending"} THEN entry[j].state ELSE "open"]
      BY <3>1, <3>4
    <3>8. Promise!Make(c, i)
      BY <2>1, <3>2, <3>3, <3>5, <3>6, <3>7 DEF Promise!Make, Promise!Waits, IsResolved
    <3>. QED
      BY <3>8 DEF Promise!OutcomeNext
  <2>. QED
    BY <2>2, <2>3
<1>3. CASE GivesUp(c)
  <2>1. client[c].id \in Ids /\ client[c].at # "done" /\ ~client[c].created
    BY <1>0, <1>3 DEF GivesUp, Placed
  <2>2. entry[client[c].id].by # c
    BY <1>0, <2>1 DEF Made
  <2>. QED
    BY <1>3, <2>1, <2>2, Tells DEF GivesUp, Outcomes
<1>4. CASE WaitsFor(c)
  <2>1. client[c].at = "created" /\ UNCHANGED <<entry, given>>
    BY <1>4 DEF WaitsFor
  <2>2. CASE AnswersClient(c, "lost")
    BY <2>1, <2>2, Tells DEF Outcomes
  <2>3. CASE client' = [client EXCEPT ![c].at = "waiting"]
    <3>1. \A d \in Clients : client'[d].id = client[d].id /\ client'[d].answer = client[d].answer
      BY <1>0, <2>3, ZenonT(60) DEF CredTypeOK
    <3>. QED
      BY <2>1, <3>1, Stutters
  <2>. QED
    BY <1>4, <2>2, <2>3 DEF WaitsFor
<1>5. CASE WaitEnds(c)
  <2>1. client[c].id \in Ids /\ client[c].at # "done"
    BY <1>0, <1>5 DEF WaitEnds, Placed
  <2>2. entry[client[c].id].state \in Outcomes
    BY <1>0, <1>5, <2>1 DEF WaitEnds, IsResolved, CredTypeOK
  <2>. QED
    BY <1>5, <2>1, <2>2, Tells DEF WaitEnds
<1>6. CASE CutOff(c)
  BY <1>6, Tells DEF CutOff, Outcomes
<1>. QED
  BY <1>1, <1>2, <1>3, <1>4, <1>5, <1>6 DEF CommandStep

\* The steps of the registry, of a submission, a restart and `cred rm`.
LEMMA RegistryMaps ==
    ASSUME CredInv,
           \/ \E i \in Ids : SubmitBegins(i) \/ Decline(i) \/ Expire(i) \/ Prune(i)
           \/ SubmitStep \/ Restart \/ Removes
    PROVE  [Promise!OutcomeNext]_(Promise!outcomeVars)
<1>0. CredTypeOK /\ LockHeld
  BY DEF CredInv
<1>1. ASSUME NEW i \in Ids, SubmitBegins(i)
      PROVE  UNCHANGED Promise!outcomeVars
  BY <1>1, Stutters DEF SubmitBegins
<1>2. ASSUME NEW i \in Ids, Unlocked, IsPending(i)
      PROVE  entry[i].state = "pending" /\ i \notin given
  BY <1>0, <1>2 DEF IsPending, Unlocked, PendingIds, LockHeld, Free
<1>3. ASSUME NEW i \in Ids, Decline(i)
      PROVE  Promise!OutcomeNext
  BY <1>2, <1>3, Decides DEF Decline, Outcomes
<1>4. ASSUME NEW i \in Ids, Expire(i)
      PROVE  Promise!OutcomeNext
  BY <1>2, <1>4, Decides DEF Expire, IsPending, Outcomes
<1>5. ASSUME NEW i \in Ids, Prune(i)
      PROVE  UNCHANGED Promise!outcomeVars
  <2>1. \A j \in Ids : entry'[j].state = entry[j].state /\ entry'[j].by = entry[j].by
    BY <1>0, <1>5 DEF Prune, CredTypeOK
  <2>. QED
    BY <1>5, <2>1, Stutters DEF Prune
<1>6. CASE SubmitWrites
  <2>1. lock.id \in Ids /\ entry[lock.id].state = "pending"
    BY <1>0, <1>6 DEF SubmitWrites, LockHeld
  <2>2. Promise!Write(lock.id)
    BY <1>6, <2>1 DEF SubmitWrites, Promise!Write, IsResolved
  <2>. QED
    BY <2>1, <2>2 DEF Promise!OutcomeNext
<1>7. CASE SubmitFails
  BY <1>7, Stutters DEF SubmitFails
<1>8. CASE SubmitResolves
  <2>1. lock.id \in Ids /\ entry[lock.id].state = "pending" /\ lock.id \in given
    BY <1>0, <1>8 DEF SubmitResolves, LockHeld
  <2>. QED
    BY <1>8, <2>1, Decides DEF SubmitResolves, Outcomes
<1>9. CASE Restart
  <2>1. \A j \in Ids : entry'[j].state = entry[j].state /\ entry'[j].by = entry[j].by
    BY <1>0, <1>9, ZenonT(60) DEF Restart, CredTypeOK
  <2>2. \A c \in Clients : client'[c].id = client[c].id /\ client'[c].answer = client[c].answer
    BY <1>0, <1>9 DEF Restart, CredTypeOK
  <2>. QED
    BY <1>9, <2>1, <2>2, Stutters DEF Restart
<1>10. CASE Removes
  BY <1>10, Stutters DEF Removes
<1>. QED
  BY <1>1, <1>3, <1>4, <1>5, <1>6, <1>7, <1>8, <1>9, <1>10 DEF SubmitStep

\* KeepsPromise, for any requests and any commands: the registry with its lock,
\* its timers and its restarts implements OneOutcome.  Whoever is told of a
\* submission or a refusal is told the one outcome of the request it waited for,
\* and a request counts as submitted exactly if its value was written.
THEOREM Implements == CredSpec => KeepsPromise
<1>1. CredInit => Promise!OutcomeInit
  BY InitMaps
<1>2. CredInv /\ [CredNext]_credVars => [Promise!OutcomeNext]_(Promise!outcomeVars)
  <2>. SUFFICES ASSUME CredInv, [CredNext]_credVars
                PROVE  [Promise!OutcomeNext]_(Promise!outcomeVars)
    OBVIOUS
  <2>1. CASE CredNext
    BY <2>1, CommandMaps, RegistryMaps DEF CredNext
  <2>2. CASE UNCHANGED credVars
    BY <2>2, Stutters DEF credVars
  <2>. QED
    BY <2>1, <2>2
<1>. QED
  BY <1>1, <1>2, CredInvariant, PTL DEF CredSpec, KeepsPromise, Promise!OutcomeSpec

(***************************************************************************)
(* PushSubscriptions: no subscription that a browser was told of is lost.  *)
(* What a push takes away later is what it had found to be gone, and that  *)
(* stays gone; what browsers have subscribed to meanwhile is not in what   *)
(* the push deletes.                                                       *)
(***************************************************************************)
PushTypeOK ==
    /\ subscriptions \in [broken : BOOLEAN, stored : SUBSET Endpoints]
    /\ confirmed \subseteq Endpoints /\ gone \subseteq Endpoints
    /\ push \in [Pushes -> [step : {"idle", "send", "done"}, left : SUBSET Endpoints,
                            expired : SUBSET Endpoints, sent : SUBSET Endpoints]]
    /\ changes \in Nat /\ deaths \in Nat

\* What a push is going to delete is gone.
ExpiredIsGone == \A p \in Pushes : push[p].expired \subseteq gone

SubInv == PushTypeOK /\ ExpiredIsGone /\ NoSubscriptionLost

-----------------------------------------------------------------------------
\* A write of the file, one that ends or one that breaks it off, keeps the
\* invariant when what is written has all that was confirmed and is not gone.
LEMMA FileInv ==
    ASSUME SubInv, NEW s \in SUBSET Endpoints, Readable,
           \/ Written(s) /\ confirmed' \ gone' \subseteq s /\ deaths' = deaths
           \/ BreaksOff,
           confirmed' \subseteq Endpoints, gone' = gone, changes' \in Nat,
           ExpiredIsGone',
           push' \in [Pushes -> [step : {"idle", "send", "done"}, left : SUBSET Endpoints,
                                 expired : SUBSET Endpoints, sent : SUBSET Endpoints]]
    PROVE  SubInv'
<1>1. ExpiredIsGone' /\ gone \subseteq Endpoints /\ deaths \in Nat
  BY DEF SubInv, PushTypeOK
<1>2. CASE Written(s) /\ confirmed' \ gone' \subseteq s /\ deaths' = deaths
  <2>1. subscriptions' = [broken |-> FALSE, stored |-> s]
    BY <1>2 DEF Written
  <2>2. subscriptions' \in [broken : BOOLEAN, stored : SUBSET Endpoints]
    BY <2>1
  <2>3. subscriptions'.stored = s
    BY <2>1
  <2>. QED
    BY <1>1, <1>2, <2>2, <2>3 DEF SubInv, PushTypeOK, NoSubscriptionLost
<1>3. CASE BreaksOff
  <2>1. subscriptions' = [broken |-> TRUE, stored |-> {}] /\ deaths' \in Nat
    BY <1>1, <1>3 DEF BreaksOff
  <2>2. subscriptions' \in [broken : BOOLEAN, stored : SUBSET Endpoints]
    BY <2>1
  <2>3. ~Readable'
    BY <2>1 DEF Readable
  <2>. QED
    BY <1>1, <2>1, <2>2, <2>3 DEF SubInv, PushTypeOK, NoSubscriptionLost
<1>. QED
  BY <1>2, <1>3

\* A step that leaves the file keeps it if no more is confirmed than was and a
\* push has found gone what is gone.
LEMMA NoFileInv ==
    ASSUME SubInv, subscriptions' = subscriptions, deaths' = deaths, changes' \in Nat,
           gone \subseteq gone', gone' \subseteq Endpoints,
           Readable => confirmed' \subseteq confirmed,
           confirmed' \subseteq Endpoints, ExpiredIsGone',
           push' \in [Pushes -> [step : {"idle", "send", "done"}, left : SUBSET Endpoints,
                                 expired : SUBSET Endpoints, sent : SUBSET Endpoints]]
    PROVE  SubInv'
BY DEF SubInv, PushTypeOK, NoSubscriptionLost, Readable

\* The requests of browsers keep the invariant.
LEMMA BrowserInv ==
    ASSUME SubInv, NEW e \in Endpoints, Subscribe(e) \/ Unsubscribe(e) \/ Gone(e)
    PROVE  SubInv'
<1>0. PushTypeOK /\ ExpiredIsGone /\ (Readable => confirmed \ gone \subseteq subscriptions.stored)
  BY DEF SubInv, NoSubscriptionLost
<1>1. subscriptions.stored \in SUBSET Endpoints
  BY <1>0 DEF PushTypeOK
<1>2. push' = push
  BY DEF Subscribe, Unsubscribe, Gone
<1>3. CASE Subscribe(e)
  <2>1. changes' \in Nat /\ gone' = gone /\ ExpiredIsGone'
    BY <1>0, <1>2, <1>3 DEF Subscribe, AsksFor, PushTypeOK, ExpiredIsGone
  <2>2. CASE ~Readable
    BY <1>0, <1>2, <1>3, <2>1, <2>2, NoFileInv DEF Subscribe, PushTypeOK
  <2>3. CASE Readable
    <3>1. confirmed' \subseteq confirmed \cup {e}
      BY <1>3, <2>3 DEF Subscribe
    <3>2. subscriptions.stored \cup {e} \in SUBSET Endpoints
      BY <1>1
    <3>3. \/ Written(subscriptions.stored \cup {e}) /\ deaths' = deaths
          \/ BreaksOff
      BY <1>3, <2>3 DEF Subscribe
    <3>. QED
      BY <1>0, <1>2, <2>1, <2>3, <3>1, <3>2, <3>3, FileInv DEF PushTypeOK
  <2>. QED
    BY <2>2, <2>3
<1>4. CASE Unsubscribe(e)
  <2>1. /\ changes' \in Nat /\ gone' = gone /\ ExpiredIsGone'
        /\ confirmed' = confirmed \ {e}
    BY <1>0, <1>2, <1>4 DEF Unsubscribe, AsksFor, PushTypeOK, ExpiredIsGone
  <2>2. CASE ~Readable
    BY <1>0, <1>2, <1>4, <2>1, <2>2, NoFileInv DEF Unsubscribe, PushTypeOK
  <2>3. CASE Readable
    <3>1. subscriptions.stored \ {e} \in SUBSET Endpoints
      BY <1>1
    <3>2. \/ Written(subscriptions.stored \ {e}) /\ deaths' = deaths
          \/ BreaksOff
      BY <1>4, <2>3 DEF Unsubscribe
    <3>. QED
      BY <1>0, <1>2, <2>1, <2>3, <3>1, <3>2, FileInv DEF PushTypeOK
  <2>. QED
    BY <2>2, <2>3
<1>5. CASE Gone(e)
  BY <1>0, <1>2, <1>5, NoFileInv DEF Gone, PushTypeOK, ExpiredIsGone
<1>. QED
  BY <1>3, <1>4, <1>5

\* So do the steps of a push.
LEMMA StepInv ==
    ASSUME SubInv, NEW p \in Pushes,
           Load(p) \/ DeleteExpired(p) \/ \E e \in Endpoints : SendTo(p, e)
    PROVE  SubInv'
<1>0. PushTypeOK /\ ExpiredIsGone /\ (Readable => confirmed \ gone \subseteq subscriptions.stored)
  BY DEF SubInv, NoSubscriptionLost
<1>1. /\ push[p] \in [step : {"idle", "send", "done"}, left : SUBSET Endpoints,
                      expired : SUBSET Endpoints, sent : SUBSET Endpoints]
      /\ push[p].expired \subseteq gone
  BY <1>0 DEF PushTypeOK, ExpiredIsGone
<1>2. ASSUME NEW next \in [step : {"idle", "send", "done"}, left : SUBSET Endpoints,
                           expired : SUBSET Endpoints, sent : SUBSET Endpoints],
             Step(p, next), next.expired \subseteq gone, gone' = gone
      PROVE  /\ push' \in [Pushes -> [step : {"idle", "send", "done"}, left : SUBSET Endpoints,
                                      expired : SUBSET Endpoints, sent : SUBSET Endpoints]]
             /\ ExpiredIsGone'
  BY <1>0, <1>2 DEF Step, PushTypeOK, ExpiredIsGone
<1>3. CASE Load(p)
  <2>1. subscriptions.stored \in SUBSET Endpoints
    BY <1>0 DEF PushTypeOK
  <2>2. PICK next \in {[NotPushed EXCEPT !.step = "send", !.left = subscriptions.stored],
                       [NotPushed EXCEPT !.step = "done"]} : Step(p, next)
    BY <1>3 DEF Load
  <2>3. /\ next \in [step : {"idle", "send", "done"}, left : SUBSET Endpoints,
                     expired : SUBSET Endpoints, sent : SUBSET Endpoints]
        /\ next.expired \subseteq gone
    BY <2>1, <2>2 DEF NotPushed
  <2>. QED
    BY <1>0, <1>2, <1>3, <2>2, <2>3, NoFileInv DEF Load, PushTypeOK
<1>4. ASSUME NEW e \in Endpoints, SendTo(p, e)
      PROVE  SubInv'
  <2>. DEFINE rest == [push[p] EXCEPT !.left = @ \ {e}]
  <2>1. rest \in [step : {"idle", "send", "done"}, left : SUBSET Endpoints,
                  expired : SUBSET Endpoints, sent : SUBSET Endpoints]
        /\ rest.expired = push[p].expired
    BY <1>1, SMTT(60)
  <2>. HIDE DEF rest
  <2>2. PICK next \in {[rest EXCEPT !.expired = @ \cup {e}], [rest EXCEPT !.sent = @ \cup {e}],
                       rest} : Step(p, next) /\ (next.expired \subseteq rest.expired \/ e \in gone)
    BY <1>4, <2>1 DEF SendTo, rest
  <2>3. /\ next \in [step : {"idle", "send", "done"}, left : SUBSET Endpoints,
                     expired : SUBSET Endpoints, sent : SUBSET Endpoints]
        /\ next.expired \subseteq rest.expired \cup {e}
    BY <1>4, <2>1, <2>2
  <2>4. next.expired \subseteq gone
    BY <1>1, <2>1, <2>2, <2>3
  <2>. QED
    BY <1>0, <1>2, <1>4, <2>2, <2>3, <2>4, NoFileInv DEF SendTo, PushTypeOK
<1>5. CASE DeleteExpired(p)
  <2>. DEFINE next == [push[p] EXCEPT !.step = "done"]
  <2>1. /\ next \in [step : {"idle", "send", "done"}, left : SUBSET Endpoints,
                     expired : SUBSET Endpoints, sent : SUBSET Endpoints]
        /\ next.expired \subseteq gone
    BY <1>1
  <2>2. Step(p, next) /\ confirmed' = confirmed /\ gone' = gone /\ changes' = changes
    BY <1>5 DEF DeleteExpired
  <2>3. /\ push' \in [Pushes -> [step : {"idle", "send", "done"}, left : SUBSET Endpoints,
                                 expired : SUBSET Endpoints, sent : SUBSET Endpoints]]
        /\ ExpiredIsGone'
    BY <1>2, <2>1, <2>2
  <2>4. CASE UNCHANGED <<subscriptions, deaths>>
    BY <1>0, <2>2, <2>3, <2>4, NoFileInv DEF PushTypeOK
  <2>5. CASE /\ Readable
             /\ \/ Written(Remaining(p)) /\ deaths' = deaths
                \/ BreaksOff
    <3>1. Remaining(p) \in SUBSET Endpoints
      BY <1>0 DEF Remaining, PushTypeOK
    <3>2. confirmed' \ gone' \subseteq Remaining(p)
      BY <1>0, <1>1, <2>2, <2>5 DEF Remaining
    <3>. QED
      BY <1>0, <2>2, <2>3, <2>5, <3>1, <3>2, FileInv DEF PushTypeOK
  <2>. QED
    BY <1>5, <2>4, <2>5 DEF DeleteExpired
<1>. QED
  BY <1>3, <1>4, <1>5

\* NoSubscriptionLost, for any number of browsers and pushes at once.
THEOREM NothingLost == PushSpec => []NoSubscriptionLost
<1>1. PushInit => SubInv
  BY DEF PushInit, SubInv, PushTypeOK, ExpiredIsGone, NoSubscriptionLost, Readable, NotPushed
<1>2. SubInv /\ [PushNext]_subVars => SubInv'
  <2>1. ASSUME SubInv, UNCHANGED subVars
        PROVE  SubInv'
    BY <2>1 DEF SubInv, PushTypeOK, ExpiredIsGone, NoSubscriptionLost, Readable, subVars
  <2>. QED
    BY <2>1, BrowserInv, StepInv DEF PushNext
<1>3. SubInv => NoSubscriptionLost
  BY DEF SubInv
<1>. QED
  BY <1>1, <1>2, <1>3, PTL DEF PushSpec

-----------------------------------------------------------------------------
(***************************************************************************)
(* SessionHistory: what the daemon has seen can be reopened.  Between two  *)
(* polls it is what the last poll saw or what the daemon's copy of the     *)
(* history offers; between the record of what is gone and the pruning of   *)
(* what is back, what the scan saw or the copy offers.  The copy is the    *)
(* daemon's own from the first poll on, so that nothing others write into  *)
(* the file takes anything from it.                                        *)
(***************************************************************************)
HistoryLogs == [loaded : BOOLEAN, entries : Seq(Names)]
HistoryTypeOK ==
    /\ live \subseteq Names /\ file \in Seq(Names)
    /\ daemon \in [at : {"idle", "scanned", "recorded"}, log : HistoryLogs,
                   prev : SUBSET Names, scan : SUBSET Names, known : SUBSET Names]
    /\ reopening \in [at : {"no", "create", "remove"}, name : Names \cup {""}, ok : BOOLEAN]
    /\ reopening.at # "no" => reopening.name \in Names
    /\ command \in [SessionCommands ->
           [at : {"no", "kill", "remove", "verify"}, name : Names \cup {""},
            log : HistoryLogs, before : Seq(Names)]]
Reopenable == ToSet(Entries(daemon.log))
OwedIsLoaded == owed # {} => daemon.log.loaded
RecordedIsSafe == daemon.at = "recorded" => owed \subseteq daemon.scan \cup Reopenable
HistoryInv == HistoryTypeOK /\ OwedIsLoaded /\ RecordedIsSafe /\ SeenIsRecoverable

-----------------------------------------------------------------------------
(* The copies of the history *)

SiftedUpTo(s, names, kept, n) ==
    kept = [i \in 0 .. n |->
        IF i = 0 THEN << >>
        ELSE IF s[i] \in names THEN kept[i - 1] ELSE Append(kept[i - 1], s[i])]

\* The recursive function exists: else there were a first entry where it fails.
LEMMA SiftedExists ==
    ASSUME NEW s, NEW names, NEW n \in Nat
    PROVE  \E kept : SiftedUpTo(s, names, kept, n)
<1>. DEFINE Bad == {k \in Nat : ~\E kept : SiftedUpTo(s, names, kept, k)}
<1>1. ASSUME Bad # {} PROVE FALSE
  <2>. DEFINE k == Min(Bad)
  <2>1. k \in Bad /\ \A j \in Bad : k =< j
    <3>1. Bad \subseteq Nat
      OBVIOUS
    <3>. HIDE DEF Bad
    <3>. QED
      BY <1>1, <3>1, MinIn
  <2>. HIDE DEF k
  <2>. DEFINE step(f, i) == IF i = 0 THEN << >>
                            ELSE IF s[i] \in names THEN f[i - 1] ELSE Append(f[i - 1], s[i])
  <2>2. CASE k = 0
    <3>. DEFINE kept == [i \in 0 .. 0 |-> << >>]
    <3>1. \A i \in 0 .. 0 : i = 0
      OBVIOUS
    <3>2. kept = [i \in 0 .. 0 |-> step(kept, i)]
      BY <3>1
    <3>3. SiftedUpTo(s, names, kept, 0)
      BY <3>2 DEF SiftedUpTo
    <3>. QED
      BY <2>1, <2>2, <3>3
  <2>3. CASE k # 0
    <3>1. k \in Nat /\ k - 1 \in Nat /\ k - 1 \notin Bad
      BY <2>1, <2>3
    <3>2. PICK before : SiftedUpTo(s, names, before, k - 1)
      BY <3>1
    <3>. DEFINE kept == [i \in 0 .. k |-> IF i = k THEN step(before, k) ELSE before[i]]
    <3>3. \A i \in 0 .. k : kept[i] = step(kept, i)
      <4>1. TAKE i \in 0 .. k
      <4>2. i # 0 => kept[i - 1] = before[i - 1]
        BY <3>1
      <4>3. step(kept, i) = step(before, i)
        <5>. HIDE DEF kept
        <5>. QED
          BY <4>2
      <4>4. CASE i = k
        BY <4>3, <4>4
      <4>5. CASE i # k
        <5>1. i \in 0 .. (k - 1)
          BY <3>1, <4>5
        <5>2. before[i] = step(before, i)
          BY <3>2, <5>1 DEF SiftedUpTo
        <5>. QED
          BY <4>3, <4>5, <5>2
      <4>. QED
        BY <4>4, <4>5
    <3>4. kept = [i \in 0 .. k |-> step(kept, i)]
      <4>1. kept = [i \in 0 .. k |-> kept[i]]
        OBVIOUS
      <4>. HIDE DEF kept, step
      <4>. QED
        BY <3>3, <4>1
    <3>5. SiftedUpTo(s, names, kept, k)
      <4>. HIDE DEF kept
      <4>. QED
        BY <3>4 DEF SiftedUpTo
    <3>. QED
      BY <2>1, <3>5
  <2>. QED
    BY <2>2, <2>3
<1>. QED
  BY <1>1

LEMMA AppendedSet ==
    ASSUME NEW s \in Seq(Names), NEW n \in Names
    PROVE  Append(s, n) \in Seq(Names) /\ ToSet(Append(s, n)) = ToSet(s) \cup {n}
<1>1. /\ Append(s, n) \in Seq(Names) /\ Len(Append(s, n)) = Len(s) + 1
      /\ DOMAIN Append(s, n) = 1 .. Len(s) + 1 /\ DOMAIN s = 1 .. Len(s) /\ Len(s) \in Nat
      /\ \A i \in 1 .. Len(s) : Append(s, n)[i] = s[i]
      /\ Append(s, n)[Len(s) + 1] = n
  OBVIOUS
<1>. DEFINE t == Append(s, n)
<1>. HIDE DEF t
<1>2. ToSet(t) = {t[i] : i \in 1 .. Len(s) + 1} /\ ToSet(s) = {s[i] : i \in 1 .. Len(s)}
  BY <1>1 DEF ToSet, t
<1>3. ToSet(t) = ToSet(s) \cup {n}
  BY <1>1, <1>2 DEF t
<1>. QED
  BY <1>1, <1>3 DEF t

\* What is sifted out is gone, and nothing else.
LEMMA SiftedIs ==
    ASSUME NEW s \in Seq(Names), NEW names
    PROVE  Sifted(s, names) \in Seq(Names) /\ ToSet(Sifted(s, names)) = ToSet(s) \ names
<1>. DEFINE kept == CHOOSE f : SiftedUpTo(s, names, f, Len(s))
<1>1. Sifted(s, names) = kept[Len(s)]
  BY DEF Sifted, SiftedUpTo
<1>2. Len(s) \in Nat /\ DOMAIN s = 1 .. Len(s)
  OBVIOUS
<1>3. SiftedUpTo(s, names, kept, Len(s))
  BY <1>2, SiftedExists
<1>. HIDE DEF kept
<1>4. /\ kept[0] = << >>
      /\ \A i \in 1 .. Len(s) :
             kept[i] = IF s[i] \in names THEN kept[i - 1] ELSE Append(kept[i - 1], s[i])
  <2>. DEFINE step(f, i) == IF i = 0 THEN << >>
                            ELSE IF s[i] \in names THEN f[i - 1] ELSE Append(f[i - 1], s[i])
  <2>1. kept = [i \in 0 .. Len(s) |-> step(kept, i)]
    BY <1>3 DEF SiftedUpTo
  <2>2. \A i \in 0 .. Len(s) : kept[i] = step(kept, i)
    <3>. HIDE DEF step
    <3>1. TAKE i \in 0 .. Len(s)
    <3>. QED
      BY <2>1
  <2>3. 0 \in 0 .. Len(s) /\ \A i \in 1 .. Len(s) : i \in 0 .. Len(s) /\ i # 0
    BY <1>2
  <2>. QED
    BY <2>2, <2>3
<1>. DEFINE upTo(k) == {s[i] : i \in 1 .. k} \ names
            ok(k) == kept[k] \in Seq(Names) /\ ToSet(kept[k]) = upTo(k)
            Bad == {k \in 0 .. Len(s) : ~ok(k)}
<1>5. ASSUME Bad # {} PROVE FALSE
  <2>. DEFINE k == Min(Bad)
  <2>1. k \in Bad /\ \A j \in Bad : k =< j
    <3>1. Bad \subseteq Nat
      BY <1>2
    <3>. HIDE DEF Bad
    <3>. QED
      BY <1>5, <3>1, MinIn
  <2>. HIDE DEF k
  <2>2. ok(0)
    BY <1>4 DEF ToSet
  <2>3. k \in 1 .. Len(s) /\ k - 1 \in 0 .. Len(s) /\ k - 1 \notin Bad
    <3>1. k \in 0 .. Len(s) /\ ~ok(k)
      BY <2>1
    <3>2. k # 0
      BY <2>2, <3>1
    <3>. HIDE DEF Bad
    <3>3. k \in 1 .. Len(s) /\ k - 1 \in 0 .. Len(s) /\ ~(k =< k - 1)
      BY <1>2, <3>1, <3>2
    <3>. QED
      BY <2>1, <3>3
  <2>4. kept[k - 1] \in Seq(Names) /\ ToSet(kept[k - 1]) = upTo(k - 1)
    BY <2>3
  <2>5. s[k] \in Names /\ {s[i] : i \in 1 .. k} = {s[i] : i \in 1 .. k - 1} \cup {s[k]}
    BY <1>2, <2>3
  <2>6. upTo(k) = upTo(k - 1) \cup ({s[k]} \ names)
    BY <2>5
  <2>. HIDE DEF upTo
  <2>7. kept[k] \in Seq(Names) /\ ToSet(kept[k]) = upTo(k)
    <3>1. CASE s[k] \in names
      <4>1. kept[k] = kept[k - 1] /\ upTo(k) = upTo(k - 1)
        BY <1>4, <2>3, <2>6, <3>1
      <4>. QED
        BY <2>4, <4>1
    <3>2. CASE s[k] \notin names
      <4>1. kept[k] = Append(kept[k - 1], s[k]) /\ upTo(k) = upTo(k - 1) \cup {s[k]}
        BY <1>4, <2>3, <2>6, <3>2
      <4>. QED
        BY <2>4, <2>5, <4>1, AppendedSet
    <3>. QED
      BY <3>1, <3>2
  <2>. QED
    BY <2>1, <2>7
<1>6. ok(Len(s))
  <2>1. Len(s) \in 0 .. Len(s)
    BY <1>2
  <2>. HIDE DEF ok
  <2>. QED
    BY <1>5, <2>1
<1>7. ToSet(s) = {s[i] : i \in 1 .. Len(s)}
  BY <1>2 DEF ToSet
<1>. QED
  BY <1>1, <1>6, <1>7

LEMMA NewestTyped == ASSUME NEW s \in Seq(Names) PROVE Newest(s) \in Seq(Names)
BY HistoryAssumption DEF Newest

LEMMA LogsTyped ==
    ASSUME HistoryTypeOK, NEW log \in HistoryLogs
    PROVE  /\ Entries(log) \in Seq(Names)
           /\ \A closed \in Seq(Names) : Merged(closed, log) \in Seq(Names)
           /\ \A names : /\ Without(log, names) \in Seq(Names)
                         /\ ToSet(Without(log, names)) = ToSet(Entries(log)) \ names
<1>1. Entries(log) \in Seq(Names)
  BY NewestTyped DEF Entries, HistoryTypeOK, HistoryLogs
<1>2. \A closed \in Seq(Names) : Merged(closed, log) \in Seq(Names)
  <2>1. TAKE closed \in Seq(Names)
  <2>2. Sifted(Entries(log), ToSet(closed)) \in Seq(Names)
    BY <1>1, SiftedIs
  <2>3. closed \o Sifted(Entries(log), ToSet(closed)) \in Seq(Names)
    BY <2>2
  <2>. QED
    BY <2>3, NewestTyped DEF Merged
<1>. QED
  BY <1>1, <1>2, SiftedIs DEF Without

LEMMA LoadedIs ==
    ASSUME NEW s \in Seq(Names)
    PROVE  Loaded(s) \in HistoryLogs /\ Loaded(s).loaded /\ Entries(Loaded(s)) = s
BY DEF Loaded, HistoryLogs, Entries

\* The sequence of a finite set holds its members.
LEMMA ListedSet ==
    ASSUME NEW S \in SUBSET Names
    PROVE  /\ SetToSeq(S) \in Seq(Names) /\ ToSet(SetToSeq(S)) = S
           /\ SetToSeq(S) = << >> <=> S = {}
<1>1. IsFiniteSet(S)
  BY HistoryAssumption, FS_Subset
<1>. DEFINE n == Cardinality(S)
<1>2. n \in Nat /\ ExistsBijection(1 .. n, S)
  BY <1>1, FS_CardinalityType
<1>. HIDE DEF n
<1>3. \E f \in [1 .. n -> S] : IsInjective(f)
  BY <1>2, Zenon DEF ExistsBijection, Bijection, Injection, IsInjective
<1>. DEFINE f == SetToSeq(S)
<1>4. f \in [1 .. n -> S] /\ IsInjective(f)
  BY <1>3, Zenon DEF SetToSeq, n
<1>. HIDE DEF f
<1>5. f \in Injection(1 .. n, S)
  BY <1>4 DEF Injection, IsInjective
<1>6. IsFiniteSet(1 .. n) /\ Cardinality(1 .. n) = n
  BY <1>2, FS_Interval
<1>7. f \in Surjection(1 .. n, S)
  BY <1>1, <1>5, <1>6, FS_Injection DEF n
<1>8. f \in Seq(Names) /\ DOMAIN f = 1 .. n
  BY <1>2, <1>4
<1>9. ToSet(f) = S
  BY <1>4, <1>7, <1>8 DEF ToSet, Surjection
<1>10. f = << >> <=> S = {}
  <2>1. ToSet(<< >>) = {}
    BY DEF ToSet
  <2>2. ASSUME S = {} PROVE f = << >>
    <3>1. n = 0
      BY <2>2, FS_EmptySet DEF n
    <3>2. Len(f) = 0
      BY <1>2, <1>8, <3>1
    <3>. QED
      BY <1>8, <3>2
  <2>. QED
    BY <1>9, <2>1, <2>2
<1>. QED
  BY <1>8, <1>9, <1>10 DEF f

-----------------------------------------------------------------------------
(* The steps *)

LEMMA FirstValues ==
    /\ DaemonStart \in [at : {"idle", "scanned", "recorded"}, log : HistoryLogs,
                       prev : SUBSET Names, scan : SUBSET Names, known : SUBSET Names]
    /\ NoHandler \in [at : {"no", "create", "remove"}, name : Names \cup {""}, ok : BOOLEAN]
    /\ NoHandler.at = "no" /\ DaemonStart.at = "idle" /\ NotLoaded \in HistoryLogs
    /\ NoCommand \in [at : {"no", "kill", "remove", "verify"}, name : Names \cup {""},
                      log : HistoryLogs, before : Seq(Names)]
<1>1. << >> \in Seq(Names)
  OBVIOUS
<1>2. NotLoaded \in HistoryLogs
  BY <1>1 DEF NotLoaded, HistoryLogs
<1>3. DaemonStart \in [at : {"idle", "scanned", "recorded"}, log : HistoryLogs,
                      prev : SUBSET Names, scan : SUBSET Names, known : SUBSET Names]
  BY <1>2 DEF DaemonStart
<1>4. NoHandler \in [at : {"no", "create", "remove"}, name : Names \cup {""}, ok : BOOLEAN]
  BY DEF NoHandler
<1>5. NoCommand \in [at : {"no", "kill", "remove", "verify"}, name : Names \cup {""},
                    log : HistoryLogs, before : Seq(Names)]
  BY <1>1, <1>2 DEF NoCommand
<1>. QED
  BY <1>2, <1>3, <1>4, <1>5 DEF NoHandler, DaemonStart

LEMMA HistoryInitial == HistoryInit => HistoryInv
<1>. SUFFICES ASSUME HistoryInit PROVE HistoryInv
  OBVIOUS
<1>1. << >> \in Seq(Names)
  OBVIOUS
<1>2. HistoryTypeOK
  BY <1>1, FirstValues DEF HistoryInit, HistoryTypeOK
<1>. QED
  BY <1>2, FirstValues DEF HistoryInit, HistoryInv, OwedIsLoaded, RecordedIsSafe,
                           SeenIsRecoverable

\* Who leaves the daemon alone leaves its copy alone, once it has one: the file
\* is not read again.
LEMMA DaemonLeftAlone ==
    ASSUME HistoryInv, HistoryTypeOK', UNCHANGED <<daemon, owed>>
    PROVE  HistoryInv'
<1>1. daemon.log.loaded => Reopenable' = Reopenable
  BY DEF Reopenable, Entries
<1>2. owed = {} \/ Reopenable' = Reopenable
  BY <1>1 DEF HistoryInv, OwedIsLoaded
<1>. QED
  BY <1>2 DEF HistoryInv, OwedIsLoaded, RecordedIsSafe, SeenIsRecoverable, Reopenable

LEMMA DaemonTyped ==
    ASSUME HistoryInv
    PROVE  /\ daemon.at \in {"idle", "scanned", "recorded"} /\ daemon.log \in HistoryLogs
           /\ daemon.prev \subseteq Names /\ daemon.scan \subseteq Names
           /\ daemon.known \subseteq Names
BY DEF HistoryInv, HistoryTypeOK

LEMMA ScanKeeps == ASSUME HistoryInv, Scan PROVE HistoryInv'
<1>1. HistoryTypeOK'
  BY DEF HistoryInv, HistoryTypeOK, Scan
<1>2. daemon'.at = "scanned" /\ daemon'.log = daemon.log /\ daemon'.prev = daemon.prev
  BY DEF HistoryInv, HistoryTypeOK, Scan
<1>3. Reopenable' = Reopenable
  BY <1>2 DEF Reopenable, Entries, Scan
<1>. QED
  BY <1>1, <1>2, <1>3 DEF HistoryInv, OwedIsLoaded, RecordedIsSafe, SeenIsRecoverable, Reopenable, Scan

LEMMA ScanFailsKeeps == ASSUME HistoryInv, NEW partial, ScanFails(partial) PROVE HistoryInv'
<1>1. daemon' = daemon
  BY DEF HistoryInv, HistoryTypeOK, ScanFails, AfterFailedScan
<1>2. HistoryTypeOK'
  BY <1>1 DEF HistoryInv, HistoryTypeOK, ScanFails
<1>. QED
  BY <1>1, <1>2, DaemonLeftAlone DEF ScanFails

\* What is gone is offered, or pushed out, or refused by the disk; what was
\* offered is, or is pushed out.
LEMMA RecordKeeps == ASSUME HistoryInv, NEW written \in BOOLEAN, RecordClosed(written) PROVE HistoryInv'
<1>. DEFINE vanished == SetToSeq(daemon.prev \ daemon.scan)
            merged == Merged(vanished, daemon.log)
            log == IF vanished = << >> THEN daemon.log
                   ELSE Loaded(IF written THEN merged ELSE Entries(daemon.log))
<1>1. /\ daemon' = [daemon EXCEPT !.at = "recorded", !.log = log]
      /\ file' = IF vanished # << >> /\ written THEN merged ELSE file
      /\ owed' = IF vanished = << >> THEN owed
                 ELSE IF written THEN owed \ Trimmed(vanished, daemon.log)
                 ELSE owed \ ToSet(vanished)
      /\ UNCHANGED <<live, starts, reopening, command>>
  BY Zenon DEF RecordClosed
<1>2. vanished \in Seq(Names) /\ ToSet(vanished) = daemon.prev \ daemon.scan
      /\ (vanished = << >> <=> daemon.prev \ daemon.scan = {})
  BY DaemonTyped, ListedSet
<1>3. Entries(daemon.log) \in Seq(Names) /\ merged \in Seq(Names)
  BY <1>2, DaemonTyped, LogsTyped DEF HistoryInv
<1>. HIDE DEF vanished, merged
<1>4. log \in HistoryLogs
  BY <1>3, DaemonTyped, LoadedIs
<1>5. /\ daemon'.at = "recorded" /\ daemon'.log = log /\ daemon'.prev = daemon.prev
      /\ daemon'.scan = daemon.scan /\ daemon'.known = daemon.known
      /\ daemon' \in [at : {"idle", "scanned", "recorded"}, log : HistoryLogs,
                      prev : SUBSET Names, scan : SUBSET Names, known : SUBSET Names]
  <2>. HIDE DEF log
  <2>. QED
    BY <1>1, <1>4 DEF HistoryInv, HistoryTypeOK
<1>6. HistoryTypeOK'
  <2>1. file' \in Seq(Names)
    BY <1>1, <1>3 DEF HistoryInv, HistoryTypeOK
  <2>. QED
    BY <1>1, <1>5, <2>1 DEF HistoryInv, HistoryTypeOK
<1>7. CASE vanished = << >>
  <2>1. log = daemon.log /\ owed' = owed /\ file' = file /\ daemon.prev \subseteq daemon.scan
    BY <1>1, <1>2, <1>7
  <2>2. Reopenable' = Reopenable
    BY <1>5, <2>1 DEF Reopenable, Entries
  <2>3. owed \subseteq daemon.prev \cup Reopenable
    BY DEF HistoryInv, SeenIsRecoverable, Reopenable
  <2>. QED
    BY <1>5, <1>6, <2>1, <2>2, <2>3
    DEF HistoryInv, OwedIsLoaded, RecordedIsSafe, SeenIsRecoverable, Reopenable
<1>8. CASE vanished # << >>
  <2>1. owed \subseteq daemon.prev \cup Reopenable
    BY DEF HistoryInv, SeenIsRecoverable, Reopenable
  <2>2. daemon'.log.loaded
    BY <1>3, <1>5, <1>8, LoadedIs
  <2>3. owed' \subseteq daemon.scan \cup Reopenable'
    <3>1. CASE written
      <4>1. daemon'.log = Loaded(merged) /\ owed' = owed \ Trimmed(vanished, daemon.log)
        BY <1>1, <1>5, <1>8, <3>1
      <4>2. Reopenable' = ToSet(merged)
        BY <1>3, <4>1 DEF Reopenable, Entries, Loaded
      <4>3. Trimmed(vanished, daemon.log) = (ToSet(vanished) \cup Reopenable) \ ToSet(merged)
        BY DEF Trimmed, Reopenable, merged
      <4>. QED
        BY <1>2, <2>1, <4>1, <4>2, <4>3
    <3>2. CASE ~written
      <4>1. daemon'.log = Loaded(Entries(daemon.log)) /\ owed' = owed \ ToSet(vanished)
        BY <1>1, <1>5, <1>8, <3>2
      <4>2. Reopenable' = Reopenable
        BY <1>3, <4>1 DEF Reopenable, Entries, Loaded
      <4>. QED
        BY <1>2, <2>1, <4>1, <4>2
    <3>. QED
      BY <3>1, <3>2
  <2>4. owed' \subseteq daemon.prev \cup Reopenable'
    <3>1. CASE written
      <4>1. daemon'.log = Loaded(merged) /\ owed' = owed \ Trimmed(vanished, daemon.log)
        BY <1>1, <1>5, <1>8, <3>1
      <4>2. Reopenable' = ToSet(merged)
        BY <1>3, <4>1 DEF Reopenable, Entries, Loaded
      <4>3. Trimmed(vanished, daemon.log) = (ToSet(vanished) \cup Reopenable) \ ToSet(merged)
        BY DEF Trimmed, Reopenable, merged
      <4>. QED
        BY <1>2, <2>1, <4>1, <4>2, <4>3
    <3>2. CASE ~written
      <4>1. daemon'.log = Loaded(Entries(daemon.log)) /\ owed' = owed \ ToSet(vanished)
        BY <1>1, <1>5, <1>8, <3>2
      <4>2. Reopenable' = Reopenable
        BY <1>3, <4>1 DEF Reopenable, Entries, Loaded
      <4>. QED
        BY <1>2, <2>1, <4>1, <4>2
    <3>. QED
      BY <3>1, <3>2
  <2>. QED
    BY <1>5, <1>6, <2>2, <2>3, <2>4
    DEF HistoryInv, OwedIsLoaded, RecordedIsSafe, SeenIsRecoverable, Reopenable
<1>. QED
  BY <1>7, <1>8

\* What is back is no longer offered, and is what the next poll compares with.
LEMMA PruneKeeps == ASSUME HistoryInv, NEW written \in BOOLEAN, PruneLive(written) PROVE HistoryInv'
<1>. DEFINE kept == Without(daemon.log, daemon.scan)
            drops == daemon.scan # {} /\ kept # Entries(daemon.log)
            log == IF daemon.scan = {} THEN daemon.log
                   ELSE Loaded(IF drops /\ written THEN kept ELSE Entries(daemon.log))
<1>1. /\ daemon.at = "recorded"
      /\ file' = IF drops /\ written THEN kept ELSE file
      /\ daemon' = [daemon EXCEPT !.at = "idle", !.prev = daemon.scan, !.scan = {}, !.log = log]
      /\ owed' = owed \cup daemon.scan
      /\ UNCHANGED <<live, starts, reopening, command>>
  BY Zenon DEF PruneLive
<1>2. /\ Entries(daemon.log) \in Seq(Names) /\ kept \in Seq(Names)
      /\ ToSet(kept) = Reopenable \ daemon.scan
  BY DaemonTyped, LogsTyped DEF HistoryInv, Reopenable
<1>. HIDE DEF kept
<1>3. log \in HistoryLogs
  BY <1>2, DaemonTyped, LoadedIs
<1>4. /\ daemon'.at = "idle" /\ daemon'.log = log /\ daemon'.prev = daemon.scan
      /\ daemon' \in [at : {"idle", "scanned", "recorded"}, log : HistoryLogs,
                      prev : SUBSET Names, scan : SUBSET Names, known : SUBSET Names]
  <2>. HIDE DEF log
  <2>. QED
    BY <1>1, <1>3, ZenonT(60) DEF HistoryInv, HistoryTypeOK
<1>5. HistoryTypeOK'
  <2>1. file' \in Seq(Names)
    BY <1>1, <1>2 DEF HistoryInv, HistoryTypeOK
  <2>. QED
    BY <1>1, <1>4, <2>1 DEF HistoryInv, HistoryTypeOK
<1>6. owed \subseteq daemon.scan \cup Reopenable
  BY <1>1 DEF HistoryInv, RecordedIsSafe
<1>7. CASE daemon.scan = {}
  <2>1. daemon'.log = daemon.log /\ owed' = owed /\ file' = file
    BY <1>1, <1>4, <1>7
  <2>2. Reopenable' = Reopenable
    BY <2>1 DEF Reopenable, Entries
  <2>. QED
    BY <1>4, <1>5, <1>6, <1>7, <2>1, <2>2
    DEF HistoryInv, OwedIsLoaded, RecordedIsSafe, SeenIsRecoverable, Reopenable
<1>8. CASE daemon.scan # {}
  <2>1. /\ daemon'.log \in {Loaded(kept), Loaded(Entries(daemon.log))}
        /\ owed' = owed \cup daemon.scan
    BY <1>1, <1>4, <1>8
  <2>2. Reopenable' \in {Reopenable \ daemon.scan, Reopenable}
    BY <1>2, <2>1 DEF Reopenable, Entries, Loaded
  <2>3. daemon'.log.loaded
    BY <2>1 DEF Loaded
  <2>. QED
    BY <1>4, <1>5, <1>6, <2>1, <2>2, <2>3
    DEF HistoryInv, OwedIsLoaded, RecordedIsSafe, SeenIsRecoverable, Reopenable
<1>. QED
  BY <1>7, <1>8

LEMMA RestartKeeps == ASSUME HistoryInv, DaemonRestarts PROVE HistoryInv'
<1>1. HistoryTypeOK'
  BY FirstValues DEF HistoryInv, HistoryTypeOK, DaemonRestarts
<1>2. owed' = {} /\ daemon'.at = "idle"
  BY DEF DaemonRestarts, DaemonStart
<1>. QED
  BY <1>1, <1>2 DEF HistoryInv, OwedIsLoaded, RecordedIsSafe, SeenIsRecoverable

LEMMA WebReopenKeeps == ASSUME HistoryInv, NEW n \in Names, WebReopen(n) PROVE HistoryInv'
<1>1. Entries(daemon.log) \in Seq(Names)
  BY DaemonTyped, LogsTyped DEF HistoryInv
<1>2. Loaded(Entries(daemon.log)) \in HistoryLogs
  BY <1>1, LoadedIs
<1>3. /\ daemon' = [daemon EXCEPT !.log = Loaded(Entries(daemon.log))]
      /\ reopening' = [at |-> "create", name |-> n, ok |-> TRUE]
      /\ UNCHANGED <<live, starts, file, command, owed>>
  BY Zenon DEF WebReopen
<1>. DEFINE log == Loaded(Entries(daemon.log))
<1>4. /\ daemon'.at = daemon.at /\ daemon'.log = log /\ daemon'.prev = daemon.prev
      /\ daemon'.scan = daemon.scan
      /\ daemon' \in [at : {"idle", "scanned", "recorded"}, log : HistoryLogs,
                      prev : SUBSET Names, scan : SUBSET Names, known : SUBSET Names]
  <2>. HIDE DEF log
  <2>. QED
    BY <1>2, <1>3 DEF HistoryInv, HistoryTypeOK, log
<1>5. HistoryTypeOK'
  BY <1>3, <1>4 DEF HistoryInv, HistoryTypeOK
<1>6. daemon'.log.loaded /\ Reopenable' = Reopenable
  BY <1>4 DEF Reopenable, Entries, Loaded
<1>. QED
  BY <1>3, <1>4, <1>5, <1>6
  DEF HistoryInv, OwedIsLoaded, RecordedIsSafe, SeenIsRecoverable, Reopenable

\* A reopen takes one name out of what is offered, and out of what is owed.
LEMMA WebRemovesKeeps ==
    ASSUME HistoryInv, NEW written \in BOOLEAN, WebRemoves(written) PROVE HistoryInv'
<1>. DEFINE n == reopening.name
            had == n \in ToSet(Entries(daemon.log))
            kept == Without(daemon.log, {n})
<1>1. /\ Entries(daemon.log) \in Seq(Names) /\ kept \in Seq(Names)
      /\ ToSet(kept) = Reopenable \ {n}
  BY DaemonTyped, LogsTyped DEF HistoryInv, Reopenable
<1>2. /\ IF had /\ ~written
         THEN live' = live \ {n} /\ UNCHANGED <<file, daemon, owed>>
         ELSE /\ daemon' = [daemon EXCEPT !.log = Loaded(kept)]
              /\ file' = IF had THEN kept ELSE file
              /\ owed' = owed \ (IF had THEN {n} ELSE {})
              /\ UNCHANGED live
      /\ reopening' = NoHandler
      /\ UNCHANGED <<starts, command>>
  BY Zenon DEF WebRemoves
<1>. HIDE DEF n, kept
<1>3. CASE had /\ ~written
  <2>1. HistoryTypeOK'
    BY <1>2, <1>3, FirstValues DEF HistoryInv, HistoryTypeOK
  <2>. QED
    BY <1>2, <1>3, <2>1, DaemonLeftAlone
<1>4. CASE ~(had /\ ~written)
  <2>1. /\ daemon' = [daemon EXCEPT !.log = Loaded(kept)]
        /\ file' = IF had THEN kept ELSE file
        /\ owed' = owed \ (IF had THEN {n} ELSE {})
        /\ UNCHANGED live
    BY <1>2, <1>4
  <2>. DEFINE log == Loaded(kept)
  <2>2. log \in HistoryLogs
    BY <1>1, LoadedIs
  <2>3. /\ daemon'.at = daemon.at /\ daemon'.log = log /\ daemon'.prev = daemon.prev
        /\ daemon'.scan = daemon.scan
        /\ daemon' \in [at : {"idle", "scanned", "recorded"}, log : HistoryLogs,
                        prev : SUBSET Names, scan : SUBSET Names, known : SUBSET Names]
    <3>. HIDE DEF log
    <3>. QED
      BY <2>1, <2>2 DEF HistoryInv, HistoryTypeOK, log
  <2>4. file' \in Seq(Names)
    BY <1>1, <2>1 DEF HistoryInv, HistoryTypeOK
  <2>5. HistoryTypeOK'
    BY <1>2, <2>1, <2>3, <2>4, FirstValues DEF HistoryInv, HistoryTypeOK
  <2>6. daemon'.log.loaded /\ Reopenable' = Reopenable \ {n}
    BY <1>1, <2>3 DEF Reopenable, Entries, Loaded
  <2>7. owed' = owed \ {n} \/ (owed' = owed /\ Reopenable' = Reopenable)
    BY <2>1, <2>6 DEF Reopenable
  <2>. QED
    BY <2>3, <2>5, <2>6, <2>7
    DEF HistoryInv, OwedIsLoaded, RecordedIsSafe, SeenIsRecoverable, Reopenable
<1>. QED
  BY <1>3, <1>4

\* Sessions and commands come and go without the daemon.
LEMMA SessionsKeep ==
    ASSUME HistoryInv, NEW n \in Names, SessionStarts(n) \/ SessionEnds(n) \/ WebKills(n)
    PROVE  HistoryInv'
<1>1. UNCHANGED <<daemon, owed, file, reopening, command>> /\ live' \subseteq Names
  BY DEF HistoryInv, HistoryTypeOK, SessionStarts, SessionEnds, WebKills
<1>2. HistoryTypeOK'
  BY <1>1 DEF HistoryInv, HistoryTypeOK
<1>. QED
  BY <1>1, <1>2, DaemonLeftAlone

LEMMA WebCreatesKeeps == ASSUME HistoryInv, WebCreates PROVE HistoryInv'
<1>1. UNCHANGED <<daemon, owed, file, command>>
  BY DEF WebCreates
<1>2. live' \subseteq Names
  BY DEF HistoryInv, HistoryTypeOK, WebCreates
<1>3. reopening' \in {NoHandler, [reopening EXCEPT !.at = "remove"]} /\ reopening.at = "create"
  BY DEF WebCreates
<1>4. /\ reopening' \in [at : {"no", "create", "remove"}, name : Names \cup {""}, ok : BOOLEAN]
      /\ reopening'.at # "no" => reopening'.name \in Names
  <2>1. CASE reopening' = NoHandler
    BY <2>1, FirstValues
  <2>2. CASE reopening' = [reopening EXCEPT !.at = "remove"]
    <3>1. /\ reopening \in [at : {"no", "create", "remove"}, name : Names \cup {""},
                            ok : BOOLEAN]
          /\ reopening.name \in Names
      BY <1>3 DEF HistoryInv, HistoryTypeOK
    <3>. QED
      BY <2>2, <3>1
  <2>. QED
    BY <1>3, <2>1, <2>2
<1>5. HistoryTypeOK'
  BY <1>1, <1>2, <1>4 DEF HistoryInv, HistoryTypeOK
<1>. QED
  BY <1>1, <1>5, DaemonLeftAlone

LEMMA CommandTyped ==
    ASSUME HistoryInv, NEW c \in SessionCommands
    PROVE  /\ command[c].name \in Names \cup {""} /\ command[c].log \in HistoryLogs
           /\ command[c].before \in Seq(Names) /\ live \subseteq Names /\ file \in Seq(Names)
           /\ Newest(file) \in Seq(Names)
           /\ NotLoaded \in HistoryLogs
BY NewestTyped, FirstValues DEF HistoryInv, HistoryTypeOK

\* What a command does to its own state, the file and the sessions is all it does.
LEMMA CommandKeeps ==
    ASSUME HistoryInv, NEW c \in SessionCommands, UNCHANGED <<daemon, owed, reopening>>,
           live' \subseteq Names, file' \in Seq(Names),
           NEW s \in [at : {"no", "kill", "remove", "verify"}, name : Names \cup {""},
                      log : HistoryLogs, before : Seq(Names)],
           command' = [command EXCEPT ![c] = s]
    PROVE  HistoryInv'
<1>1. HistoryTypeOK'
  BY DEF HistoryInv, HistoryTypeOK
<1>. QED
  BY <1>1, DaemonLeftAlone

LEMMA CommandsKeep ==
    ASSUME HistoryInv, NEW c \in SessionCommands,
           \/ CloseKills(c) \/ ReopenRemoves(c) \/ ReopenCleansUp(c) \/ CommandEnds(c)
           \/ \E written \in BOOLEAN : CloseRollsBack(c, written)
           \/ \E n \in Names : CloseStages(c, n) \/ ReopenCreates(c, n) \/ CommandCreates(c, n)
    PROVE  HistoryInv'
<1>. DEFINE Commands == [at : {"no", "kill", "remove", "verify"}, name : Names \cup {""},
                         log : HistoryLogs, before : Seq(Names)]
<1>1. NoCommand \in Commands
  BY FirstValues
<1>2. CASE CloseKills(c) \/ ReopenCleansUp(c) \/ CommandEnds(c)
  <2>1. /\ UNCHANGED <<daemon, owed, reopening, file>> /\ live' \subseteq Names
        /\ command' = [command EXCEPT ![c] = NoCommand]
    BY <1>2, CommandTyped DEF CloseKills, ReopenCleansUp, CommandEnds, Finish
  <2>. QED
    BY <1>1, <2>1, CommandTyped, CommandKeeps
<1>3. CASE ReopenRemoves(c)
  <2>1. /\ UNCHANGED <<daemon, owed, reopening, live>>
        /\ file' = Without(command[c].log, {command[c].name})
        /\ command' = [command EXCEPT ![c] = NoCommand]
    BY <1>3 DEF ReopenRemoves, Finish
  <2>2. file' \in Seq(Names)
    BY <2>1, CommandTyped, LogsTyped DEF HistoryInv
  <2>. QED
    BY <1>1, <2>1, <2>2, CommandTyped, CommandKeeps
<1>4. ASSUME NEW written \in BOOLEAN, CloseRollsBack(c, written) PROVE HistoryInv'
  <2>1. /\ UNCHANGED <<daemon, owed, reopening, live>>
        /\ file' \in {command[c].before, file}
        /\ command' = [command EXCEPT ![c] = NoCommand]
    BY <1>4 DEF CloseRollsBack, Finish
  <2>. QED
    BY <1>1, <2>1, CommandTyped, CommandKeeps
<1>5. ASSUME NEW n \in Names, CloseStages(c, n) PROVE HistoryInv'
  <2>. DEFINE staged == Merged(<<n>>, NotLoaded)
              s == [at |-> "kill", name |-> n, log |-> Loaded(staged), before |-> Newest(file)]
  <2>1. /\ UNCHANGED <<daemon, owed, reopening, live>> /\ file' = staged
        /\ command' = [command EXCEPT ![c] = s]
    BY <1>5, Zenon DEF CloseStages, Run
  <2>2. <<n>> \in Seq(Names)
    OBVIOUS
  <2>3. staged \in Seq(Names)
    BY <2>2, CommandTyped, LogsTyped DEF HistoryInv
  <2>4. s \in Commands
    <3>. HIDE DEF staged
    <3>. QED
      BY <2>3, CommandTyped, LoadedIs
  <2>. HIDE DEF s, staged
  <2>. QED
    BY <2>1, <2>3, <2>4, CommandTyped, CommandKeeps
<1>6. ASSUME NEW n \in Names, ReopenCreates(c, n) PROVE HistoryInv'
  <2>. DEFINE s == [NoCommand EXCEPT !.at = "remove", !.name = n, !.log = Loaded(Newest(file))]
  <2>1. /\ UNCHANGED <<daemon, owed, reopening, file>> /\ live' = live \cup {n}
        /\ command' = [command EXCEPT ![c] = s]
    BY <1>6, Zenon DEF ReopenCreates, Run
  <2>2. s \in Commands
    <3>1. Loaded(Newest(file)) \in HistoryLogs
      BY CommandTyped, LoadedIs
    <3>. QED
      BY <1>1, <3>1 DEF NoCommand
  <2>. HIDE DEF s
  <2>. QED
    BY <2>1, <2>2, CommandTyped, CommandKeeps
<1>7. ASSUME NEW n \in Names, CommandCreates(c, n) PROVE HistoryInv'
  <2>. DEFINE s == [NoCommand EXCEPT !.at = "verify", !.name = n]
  <2>1. /\ UNCHANGED <<daemon, owed, reopening, file>> /\ live' = live \cup {n}
        /\ command' = [command EXCEPT ![c] = s]
    BY <1>7, Zenon DEF CommandCreates, Run
  <2>2. s \in Commands
    BY <1>1 DEF NoCommand
  <2>. HIDE DEF s
  <2>. QED
    BY <2>1, <2>2, CommandTyped, CommandKeeps
<1>. QED
  BY <1>2, <1>3, <1>4, <1>5, <1>6, <1>7

LEMMA HistorySteps == HistoryInv /\ [HistoryNext]_histVars => HistoryInv'
<1>. SUFFICES ASSUME HistoryInv, [HistoryNext]_histVars PROVE HistoryInv'
  OBVIOUS
<1>1. ASSUME NEW n \in Names,
             SessionStarts(n) \/ SessionEnds(n) \/ WebKills(n) \/ WebReopen(n)
      PROVE  HistoryInv'
  BY <1>1, SessionsKeep, WebReopenKeeps
<1>2. ASSUME Scan \/ DaemonRestarts \/ WebCreates PROVE HistoryInv'
  BY <1>2, ScanKeeps, RestartKeeps, WebCreatesKeeps
<1>3. ASSUME NEW partial, ScanFails(partial) PROVE HistoryInv'
  BY <1>3, ScanFailsKeeps
<1>4. ASSUME NEW written \in BOOLEAN,
             RecordClosed(written) \/ PruneLive(written) \/ WebRemoves(written)
      PROVE  HistoryInv'
  BY <1>4, RecordKeeps, PruneKeeps, WebRemovesKeeps
<1>5. CASE UNCHANGED histVars
  <2>1. HistoryTypeOK'
    BY <1>5 DEF HistoryInv, HistoryTypeOK, histVars
  <2>. QED
    BY <1>5, <2>1, DaemonLeftAlone DEF histVars
<1>6. CASE HistoryNext
  BY <1>1, <1>2, <1>3, <1>4, <1>6, CommandsKeep DEF HistoryNext
<1>. QED
  BY <1>5, <1>6

\* A session a poll has seen is never lost between the polls and the history:
\* for any sessions and commands, and any length of the history.
THEOREM HistoryHolds == HistorySpec => []SeenIsRecoverable
<1>1. HistoryInv => SeenIsRecoverable
  BY DEF HistoryInv
<1>. QED
  BY <1>1, HistoryInitial, HistorySteps, PTL DEF HistorySpec
=============================================================================
