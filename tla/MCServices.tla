----------------------------- MODULE MCServices -----------------------------
(* The components whose liveness is checked, each in behaviours of its own: *)
(* they share no state.                                                     *)
EXTENDS SnapshotStream, CredentialRequests, PaneWait

\* Every state to wait for; input-ready, whose output matters, with each window.
MCWaits ==
    {w \in [until : PaneStates \ {"unknown"}, settle : {0, 3}, humanSettle : {1, 3},
            transition : BOOLEAN] :
        w.until = "input-ready" \/ (w.settle = 3 /\ w.humanSettle = 3)}

VARIABLE part

allVars == <<streamVars, credVars, waitVars>>

ServicesInit ==
    /\ part \in {"stream", "credentials", "wait"}
    /\ StreamInit
    /\ CredInit /\ (part # "credentials" => ~store)
    /\ WaitInit
    /\ part # "wait" => paneShows = "gone" /\ wait = CHOOSE w \in MCWaits : TRUE

In(p) == part = p /\ UNCHANGED part
NotStream == UNCHANGED <<credVars, waitVars>>
NotCredentials == UNCHANGED <<streamVars, waitVars>>
NotWait == UNCHANGED <<streamVars, credVars>>

ServicesNext ==
    \/ In("stream") /\ StreamNext /\ NotStream
    \/ In("credentials") /\ CredNext /\ NotCredentials
    \/ In("wait") /\ WaitNext /\ NotWait

\* The fairness of each part, where it is the part that runs.
Fairness ==
    /\ \A g \in StreamSteps : WF_allVars(In("stream") /\ StreamStep(g) /\ NotStream)
    /\ WF_allVars(In("credentials") /\ SubmitStep /\ NotCredentials)
    /\ \A i \in Ids : SF_allVars(In("credentials") /\ Expire(i) /\ NotCredentials)
    /\ \A c \in Clients : SF_allVars(In("credentials") /\ CommandStep(c) /\ NotCredentials)
    /\ WF_allVars(In("wait") /\ WaitStep /\ NotWait)
ServicesSpec == ServicesInit /\ [][ServicesNext]_<<allVars, part>> /\ Fairness

\* Where the stream runs: once requests stop coming and going, the browser shows
\* those that are pending and each was pushed (snapshot_stream.go, cred_push.go).
BrowserCatchesUp == part = "stream" => StreamCatchesUp
\* Where the wait runs, it ends (panewait/wait.go).
EveryWaitEnds == part = "wait" => PaneWaitEnds
=============================================================================
