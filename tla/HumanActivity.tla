---------------------------- MODULE HumanActivity ----------------------------
(***************************************************************************)
(* Whether a human is active somewhere decides how often every daemon of a *)
(* federation scans (internal/statusd/activity.go).  A daemon stamps each  *)
(* snapshot with how long its own human has been idle; a peer fetch        *)
(* (internal/statusd/peers.go) carries the fetcher's idle time there and   *)
(* the stamp of the latest snapshot back.  Time is in ticks; an age that   *)
(* is too old to matter, or that of nothing seen, is Old.                  *)
(***************************************************************************)
EXTENDS Integers

CONSTANTS
    Hosts,            \* the daemons; each fetches from each other one
    IdleAfter,        \* Config.IdleAfter
    ScanEvery,        \* the longest a daemon goes without a scan
    FetchTakes        \* the timeout of a fetch

ASSUME ActivityAssumption ==
    IdleAfter \in Nat \ {0} /\ ScanEvery \in Nat \ {0} /\ FetchTakes \in Nat

Old == IdleAfter + ScanEvery + FetchTakes + 1

VARIABLES
    local, federated,     \* [Hosts -> age]: humanActivity
    stamp, stampAge,      \* [Hosts -> age]: of the latest snapshot, and its age
    fetch,                \* [Hosts -> the fetch the host has under way]
    sinceHuman                 \* the age of the last human action anywhere

actVars == <<local, federated, stamp, stampAge, fetch, sinceHuman>>

NoFetch == [at |-> "no", from |-> "nobody", carries |-> 0, age |-> 0]

ActivityInit ==
    /\ local = [h \in Hosts |-> Old] /\ federated = [h \in Hosts |-> Old]
    /\ stamp = [h \in Hosts |-> Old] /\ stampAge = [h \in Hosts |-> 0]
    /\ fetch = [h \in Hosts |-> NoFetch] /\ sinceHuman = Old

Younger(a, b) == IF a <= b THEN a ELSE b
Older(a) == Younger(a + 1, Old)
Active(h) == Younger(local[h], federated[h]) <= IdleAfter

\* NoteHumanActivity
SomebodyActs(h) ==
    /\ sinceHuman' = 0 /\ local' = [local EXCEPT ![h] = 0]
    /\ UNCHANGED <<federated, stamp, stampAge, fetch>>

\* What a daemon tells others is what it has seen itself.
IdleOfAnyone(h) == Younger(local[h], federated[h])
LocalHumanIdle(h) == local[h]

\* RunOnce: stampActivity and Publish.
Scans(h) ==
    /\ stamp' = [stamp EXCEPT ![h] = LocalHumanIdle(h)]
    /\ stampAge' = [stampAge EXCEPT ![h] = 0]
    /\ UNCHANGED <<local, federated, fetch, sinceHuman>>

\* fetchOnce: the request with the header, the peer's answer, and its arrival.
FetchSends(h, p) ==
    /\ h # p /\ fetch[h].at = "no"
    /\ fetch' = [fetch EXCEPT ![h] =
           [at |-> "sent", from |-> p, carries |-> LocalHumanIdle(h), age |-> 0]]
    /\ UNCHANGED <<local, federated, stamp, stampAge, sinceHuman>>

\* RecordFederatedActivity, from the header of the request or from the body of
\* the answer.
Records(h, idle) == federated' = [federated EXCEPT ![h] = Younger(@, idle)]

Serves(h) ==
    /\ fetch[h].at = "sent" /\ Records(fetch[h].from, fetch[h].carries)
    /\ fetch' = [fetch EXCEPT ![h].at = "served", ![h].carries = stamp[fetch[h].from]]
    /\ UNCHANGED <<local, stamp, stampAge, sinceHuman>>

FetchEnds(h) ==
    /\ fetch[h].at = "served" /\ Records(h, fetch[h].carries)
    /\ fetch' = [fetch EXCEPT ![h] = NoFetch]
    /\ UNCHANGED <<local, stamp, stampAge, sinceHuman>>

FetchFails(h) ==
    /\ fetch[h].at # "no" /\ fetch' = [fetch EXCEPT ![h] = NoFetch]
    /\ UNCHANGED <<local, federated, stamp, stampAge, sinceHuman>>

\* A scan is due before its interval is over, and a fetch over before its timeout.
Tick ==
    /\ \A h \in Hosts :
        /\ stampAge[h] < ScanEvery
        /\ fetch[h].at = "no" \/ fetch[h].age < FetchTakes
    /\ local' = [h \in Hosts |-> Older(local[h])]
    /\ federated' = [h \in Hosts |-> Older(federated[h])]
    /\ stampAge' = [h \in Hosts |-> stampAge[h] + 1]
    /\ fetch' = [h \in Hosts |->
           IF fetch[h].at = "no" THEN NoFetch ELSE [fetch[h] EXCEPT !.age = @ + 1]]
    /\ sinceHuman' = Older(sinceHuman)
    /\ UNCHANGED stamp

ActivityNext ==
    \/ \E h \in Hosts :
        \/ SomebodyActs(h) \/ Scans(h) \/ Serves(h) \/ FetchEnds(h) \/ FetchFails(h)
        \/ \E p \in Hosts : FetchSends(h, p)
    \/ Tick
ActivitySpec == ActivityInit /\ [][ActivityNext]_actVars

-----------------------------------------------------------------------------
\* Daemons that poll one another fall idle together: none takes a human for
\* active for longer after the last action anywhere than IdleAfter and the time
\* the news travels, which is once, from the host that saw it; they do not keep
\* one another awake with the echo.
FallsIdle ==
    \A h \in Hosts : Active(h) => sinceHuman <= IdleAfter + ScanEvery + FetchTakes
=============================================================================
