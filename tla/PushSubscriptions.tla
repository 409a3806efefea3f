------------------------- MODULE PushSubscriptions -------------------------
(* The browsers that notifications are pushed to: a file of subscriptions,  *)
(* each request under a lock, and pushes that read it, send to one browser  *)
(* after another without the lock, and then delete those that are gone.     *)
EXTENDS Integers, FiniteSets

CONSTANTS
    Endpoints,      \* the subscriptions of browsers
    Pushes,         \* notifications
    MaxSubscribes,  \* bound on what browsers ask for
    MaxDeaths       \* bound on the deaths of the server, and what fails to be written

ASSUME PushAssumption == {MaxSubscribes, MaxDeaths} \subseteq Nat

VARIABLES
    subscriptions,  \* the file: what it holds, and whether a write broke it off
    confirmed,      \* what browsers were told is stored, and did not take back
    gone,           \* what the push services no longer know
    push,           \* each push: its step, whom it is for, who was gone
    changes, deaths
subVars == <<subscriptions, confirmed, gone, push, changes, deaths>>

NotPushed == [step |-> "idle", left |-> {}, expired |-> {}, sent |-> {}]
Readable == ~subscriptions.broken

\* A write ends, or breaks the file off: the process is killed, or the disk is full.
Written(stored) == subscriptions' = [broken |-> FALSE, stored |-> stored]
BreaksOff ==
    /\ deaths < MaxDeaths /\ deaths' = deaths + 1
    /\ subscriptions' = [broken |-> TRUE, stored |-> {}]

----------------------------------------------------------------------------
(* Browsers.                                                                 *)

AsksFor == changes < MaxSubscribes /\ changes' = changes + 1
Subscribe(e) ==
    /\ AsksFor
    /\ IF Readable
       THEN \/ /\ Written(subscriptions.stored \cup {e}) /\ UNCHANGED deaths
               /\ confirmed' = confirmed \cup {e}
            \/ BreaksOff /\ UNCHANGED confirmed
       ELSE UNCHANGED <<subscriptions, confirmed, deaths>>
    /\ UNCHANGED <<gone, push>>
Unsubscribe(e) ==
    /\ AsksFor /\ confirmed' = confirmed \ {e}
    /\ IF Readable
       THEN (Written(subscriptions.stored \ {e}) /\ UNCHANGED deaths) \/ BreaksOff
       ELSE UNCHANGED <<subscriptions, deaths>>
    /\ UNCHANGED <<gone, push>>
Gone(e) ==
    /\ e \notin gone /\ gone' = gone \cup {e}
    /\ UNCHANGED <<subscriptions, confirmed, push, changes, deaths>>

----------------------------------------------------------------------------
(* A push.                                                                   *)

Step(p, next) == push' = [push EXCEPT ![p] = next]
Load(p) ==
    /\ push[p].step = "idle"
    /\ Step(p, IF Readable THEN [NotPushed EXCEPT !.step = "send", !.left = subscriptions.stored]
               ELSE [NotPushed EXCEPT !.step = "done"])
    /\ UNCHANGED <<subscriptions, confirmed, gone, changes, deaths>>
\* It is sent, or refused for now, or the endpoint is gone.
SendTo(p, e) ==
    /\ push[p].step = "send" /\ e \in push[p].left
    /\ LET rest == [push[p] EXCEPT !.left = @ \ {e}]
       IN \/ e \in gone /\ Step(p, [rest EXCEPT !.expired = @ \cup {e}])
          \/ e \notin gone /\ Step(p, [rest EXCEPT !.sent = @ \cup {e}])
          \/ Step(p, rest)
    /\ UNCHANGED <<subscriptions, confirmed, gone, changes, deaths>>
\* The mutant: what the push had read, without those that are gone, is written back.
OfThePush(p) == (push[p].sent \cup push[p].expired) \ push[p].expired
Remaining(p) == subscriptions.stored \ push[p].expired
DeleteExpired(p) ==
    /\ push[p].step = "send" /\ push[p].left = {}
    /\ Step(p, [push[p] EXCEPT !.step = "done"])
    /\ IF push[p].expired # {} /\ Readable
       THEN (Written(Remaining(p)) /\ UNCHANGED deaths) \/ BreaksOff
       ELSE UNCHANGED <<subscriptions, deaths>>
    /\ UNCHANGED <<confirmed, gone, changes>>

----------------------------------------------------------------------------
PushInit ==
    /\ subscriptions = [broken |-> FALSE, stored |-> {}]
    /\ confirmed = {} /\ gone = {} /\ changes = 0 /\ deaths = 0
    /\ push = [p \in Pushes |-> NotPushed]
PushNext ==
    \/ \E e \in Endpoints : Subscribe(e) \/ Unsubscribe(e) \/ Gone(e)
    \/ \E p \in Pushes : Load(p) \/ DeleteExpired(p) \/ \E e \in Endpoints : SendTo(p, e)
PushSpec == PushInit /\ [][PushNext]_subVars

\* A browser that was told it is subscribed stays so until it takes that back or its
\* endpoint is gone, whatever pushes are under way; only a write that broke off the
\* file, which nothing is read from then, loses it (push.go:159-219, 351-405).
NoSubscriptionLost == Readable => confirmed \ gone \subseteq subscriptions.stored
=============================================================================
