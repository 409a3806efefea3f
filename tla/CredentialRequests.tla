------------------------- MODULE CredentialRequests -------------------------
(***************************************************************************)
(* Credential requests: the daemon's registry (internal/credreq), which    *)
(* the `cred request` commands ask over its socket and wait on, and which  *)
(* the browser answers.  The registry's lock is held while a value is      *)
(* written to the store, so timers and other answers wait for it; the      *)
(* registry is lost when the daemon restarts.  A value is the request it   *)
(* was given for, and all requests are for one name.                       *)
(***************************************************************************)
EXTENDS Naturals, FiniteSets

CONSTANTS
    Ids,              \* the requests there may be
    Clients           \* the `cred request` commands

ASSUME CredAssumption == "nobody" \notin Clients

VARIABLES
    entry,            \* [Ids -> [state, kept, by]]: kept: in Registry.entries
    lock,             \* Registry.mu, held by Submit: [id, step]
    store,            \* whether the credential store has a value for the name
    given,            \* the requests whose value was written
    client            \* [Clients -> [at, id, created, answer]]

credVars == <<entry, lock, store, given, client>>

Free == [id |-> "none", step |-> "no"]

CredInit ==
    /\ entry = [i \in Ids |-> [state |-> "none", kept |-> FALSE, by |-> "nobody"]]
    /\ lock = Free /\ store \in BOOLEAN /\ given = {}
    /\ client = [c \in Clients |->
           [at |-> "start", id |-> "none", created |-> FALSE, answer |-> "none"]]

Unlocked == lock = Free
PendingIds == {i \in Ids : entry[i].kept /\ entry[i].state = "pending"}

-----------------------------------------------------------------------------
(* The command. *)
AnswersClient(c, answer) ==
    client' = [client EXCEPT ![c].at = "done", ![c].answer = answer]

\* Without --refresh a stored credential is enough.
FindsStored(c) ==
    /\ client[c].at = "start" /\ store /\ AnswersClient(c, "stored")
    /\ UNCHANGED <<entry, lock, store, given>>

\* Registry.Create: a pending request for the name is joined.
Creates(c) ==
    /\ client[c].at = "start" /\ Unlocked
    /\ IF PendingIds # {}
       THEN \E i \in PendingIds :
            /\ client' = [client EXCEPT ![c] = [@ EXCEPT !.at = "created", !.id = i]]
            /\ UNCHANGED entry
       ELSE \E i \in {j \in Ids : entry[j].state = "none"} :
            /\ entry' = [entry EXCEPT ![i] = [state |-> "pending", kept |-> TRUE, by |-> c]]
            /\ client' = [client EXCEPT ![c] =
                   [@ EXCEPT !.at = "created", !.id = i, !.created = TRUE]]
    /\ UNCHANGED <<lock, store, given>>

\* Registry.Wait: an entry that was pruned, or lost with the daemon, is unknown.
\* An entry a command waits on stays with it when it is pruned.
WaitsFor(c) ==
    /\ client[c].at = "created" /\ Unlocked
    /\ IF entry[client[c].id].kept
       THEN client' = [client EXCEPT ![c].at = "waiting"]
       ELSE AnswersClient(c, "lost")
    /\ UNCHANGED <<entry, lock, store, given>>

IsResolved(i) == entry[i].state \notin {"none", "pending"}
WaitEnds(c) ==
    /\ client[c].at = "waiting" /\ Unlocked /\ IsResolved(client[c].id)
    /\ AnswersClient(c, entry[client[c].id].state)
    /\ UNCHANGED <<entry, lock, store, given>>

CutOff(c) ==
    /\ client[c].at = "cut off" /\ AnswersClient(c, "lost")
    /\ UNCHANGED <<entry, lock, store, given>>

\* The command's own deadline: that of the command that made the request comes
\* credWaitSlack after the request's, but one that joined may have less time.
GivesUp(c) ==
    /\ client[c].at \in {"created", "waiting"} /\ ~client[c].created
    /\ AnswersClient(c, "expired")
    /\ UNCHANGED <<entry, lock, store, given>>

-----------------------------------------------------------------------------
(* The registry. *)
ResolveKnown(i) == entry[i].kept
IsPending(i) == i \in PendingIds
Resolve(i, state) == entry' = [entry EXCEPT ![i].state = state]

SubmitBegins(i) ==
    /\ Unlocked /\ IsPending(i) /\ lock' = [id |-> i, step |-> "write"]
    /\ UNCHANGED <<entry, store, given, client>>
SubmitWrites ==
    /\ lock.step = "write" /\ store' = TRUE /\ given' = given \cup {lock.id}
    /\ lock' = [lock EXCEPT !.step = "resolve"]
    /\ UNCHANGED <<entry, client>>
\* An empty or too large value, or a failed write, leaves the request pending.
SubmitFails ==
    /\ lock.step = "write" /\ lock' = Free
    /\ UNCHANGED <<entry, store, given, client>>
SubmitResolves ==
    /\ lock.step = "resolve" /\ Resolve(lock.id, "submitted") /\ lock' = Free
    /\ UNCHANGED <<store, given, client>>

Decline(i) ==
    /\ Unlocked /\ IsPending(i) /\ Resolve(i, "declined")
    /\ UNCHANGED <<lock, store, given, client>>

\* The timer's function waits for the lock and looks again.
Expire(i) ==
    /\ Unlocked /\ i \in PendingIds /\ Resolve(i, "expired")
    /\ UNCHANGED <<lock, store, given, client>>

\* pruneLocked, some time after a request was resolved.
PruneAll(i) == Unlocked
PruneGuard(i) == Unlocked /\ IsResolved(i)
Prune(i) ==
    /\ entry[i].kept /\ PruneGuard(i) /\ entry' = [entry EXCEPT ![i].kept = FALSE]
    /\ UNCHANGED <<lock, store, given, client>>

\* The daemon restarts: connections break, and the registry is empty.
Restart ==
    /\ lock' = Free
    /\ entry' = [i \in Ids |-> [entry[i] EXCEPT !.kept = FALSE]]
    /\ client' = [c \in Clients |->
           IF client[c].at = "waiting" THEN [client[c] EXCEPT !.at = "cut off"] ELSE client[c]]
    /\ UNCHANGED <<store, given>>

\* `cred rm`
Removes ==
    /\ store /\ store' = FALSE /\ UNCHANGED <<entry, lock, given, client>>

CommandStep(c) == WaitsFor(c) \/ WaitEnds(c) \/ CutOff(c)
SubmitStep == SubmitWrites \/ SubmitFails \/ SubmitResolves
CredNext ==
    \/ \E c \in Clients : FindsStored(c) \/ Creates(c) \/ GivesUp(c) \/ CommandStep(c)
    \/ \E i \in Ids : SubmitBegins(i) \/ Decline(i) \/ Expire(i) \/ Prune(i)
    \/ SubmitStep \/ Restart \/ Removes

CredSpec == CredInit /\ [][CredNext]_credVars

\* A submission gets done; the registry's lock is a Go mutex, which lets nobody
\* wait for ever, so a timer or a command that asks for it again and again gets it.
CredFairness ==
    /\ WF_credVars(SubmitStep)
    /\ \A i \in Ids : SF_credVars(Expire(i))
    /\ \A c \in Clients : SF_credVars(CommandStep(c))

-----------------------------------------------------------------------------
\* The registry and its commands keep the promise of OneOutcome: answers,
\* timers, joining commands, pruning and restarts in any order decide a request
\* once, and all who waited for it are told that outcome.
Promise == INSTANCE OneOutcome WITH
    Asks <- Ids, Askers <- Clients,
    outcome <- [i \in Ids |-> IF IsResolved(i) THEN entry[i].state ELSE "open"],
    written <- given,
    asker <- [i \in Ids |-> entry[i].by],
    waitsFor <- [c \in Clients |-> client[c].id],
    told <- [c \in Clients |-> client[c].answer]
KeepsPromise == Promise!OutcomeSpec

\* A command that has a request ends: the request is answered or expires, or
\* the daemon's restart breaks the wait.
CommandsEnd == \A c \in Clients : client[c].at = "created" ~> client[c].at = "done"
=============================================================================
