--------------------------- MODULE SnapshotStream ---------------------------
(***************************************************************************)
(* What the daemon publishes and who reads it: a poll builds a snapshot,   *)
(* merges what its peer last reported, stores it and offers it to the      *)
(* subscribers (internal/statusd/store.go); a browser's event stream       *)
(* (internal/web/snapshot_stream.go) and the notifier of credential        *)
(* requests (internal/web/cred_push.go) each have room for one snapshot.   *)
(* Of a snapshot the pending credential requests are kept.                 *)
(***************************************************************************)
EXTENDS Integers, Sequences

CONSTANTS
    Own, Remote,      \* credential requests: of this host and of its peer
    MaxConnects,      \* bound: connections of the browser
    MaxErrors         \* bound: failed polls of the peer

ASSUME StreamAssumption == Own \cap Remote = {} /\ MaxConnects \in Nat /\ MaxErrors \in Nat

Requests == Own \cup Remote
Nothing == [some |-> FALSE, holds |-> {}]
Some(s) == [some |-> TRUE, holds |-> s]

VARIABLES
    pending, asked,       \* the requests that are pending, and ever were
    peer,                 \* PeerFetcher.state: [err, holds]
    current,              \* Store.current
    publishing,           \* the poll: [at, holds]
    forBrowser, forPush,  \* the channels of the two subscribers
    stream, shown,        \* the browser's stream, and what the browser shows
    seen, pushes,         \* the notifier: the ids it knows, and its pushes
    connects, errors

streamVars == <<pending, asked, peer, current, publishing, forBrowser, forPush,
                stream, shown, seen, pushes, connects, errors>>

StreamInit ==
    /\ pending = {} /\ asked = {} /\ peer = [err |-> FALSE, holds |-> {}]
    /\ current = Nothing /\ publishing = [at |-> "no", holds |-> {}]
    /\ forBrowser = <<>> /\ forPush = <<>> /\ stream = "closed" /\ shown = Nothing
    /\ seen = {} /\ pushes = [r \in Requests |-> 0] /\ connects = 0 /\ errors = 0

\* Requests come, once each, and are resolved.
Asked(r) ==
    /\ r \notin asked /\ asked' = asked \cup {r} /\ pending' = pending \cup {r}
    /\ UNCHANGED <<peer, current, publishing, forBrowser, forPush, stream, shown,
                   seen, pushes, connects, errors>>
Resolved(r) ==
    /\ r \in pending /\ pending' = pending \ {r}
    /\ UNCHANGED <<asked, peer, current, publishing, forBrowser, forPush, stream, shown,
                   seen, pushes, connects, errors>>

\* fetchOnce; the peer's own store is left out.
PeerAnswers ==
    /\ peer' = [err |-> FALSE, holds |-> pending \cap Remote]
    /\ UNCHANGED <<pending, asked, current, publishing, forBrowser, forPush, stream, shown,
                   seen, pushes, connects, errors>>
PeerFails ==
    /\ errors < MaxErrors /\ errors' = errors + 1 /\ peer' = [peer EXCEPT !.err = TRUE]
    /\ UNCHANGED <<pending, asked, current, publishing, forBrowser, forPush, stream, shown,
                   seen, pushes, connects>>

\* RunOnce: the requests of a peer that could not be asked are left out.
Builds ==
    /\ publishing.at = "no"
    /\ publishing' = [at |-> "built",
                      holds |-> (pending \cap Own) \cup (IF peer.err THEN {} ELSE peer.holds)]
    /\ UNCHANGED <<pending, asked, peer, current, forBrowser, forPush, stream, shown,
                   seen, pushes, connects, errors>>

PublishStores ==
    /\ publishing.at = "built" /\ publishing' = [publishing EXCEPT !.at = "stored"]
    /\ current' = Some(publishing.holds)
    /\ UNCHANGED <<pending, asked, peer, forBrowser, forPush, stream, shown,
                   seen, pushes, connects, errors>>

\* A full channel keeps what it has, and the new snapshot is dropped.
Offered(channel, s) == IF channel = <<>> THEN <<s>> ELSE channel
PublishOffers ==
    /\ publishing.at = "stored" /\ publishing' = [publishing EXCEPT !.at = "no"]
    /\ forBrowser' = (IF stream = "closed" THEN <<>>
                      ELSE Offered(forBrowser, publishing.holds))
    /\ forPush' = Offered(forPush, publishing.holds)
    /\ UNCHANGED <<pending, asked, peer, current, stream, shown, seen, pushes, connects, errors>>

\* A browser subscribes, is sent the latest snapshot, and then what arrives;
\* what does not differ from the last one sent is not sent.
Connects ==
    /\ stream = "closed" /\ connects < MaxConnects /\ connects' = connects + 1
    /\ stream' = "subscribed" /\ forBrowser' = <<>>
    /\ UNCHANGED <<pending, asked, peer, current, publishing, forPush, shown,
                   seen, pushes, errors>>
EmittedWhenPanesDiffer(s) == IF shown.some THEN shown ELSE Some(s)
Emitted(s) == Some(s)
Primes ==
    /\ stream = "subscribed" /\ stream' = "open"
    /\ shown' = (IF current.some THEN Emitted(current.holds) ELSE shown)
    /\ UNCHANGED <<pending, asked, peer, current, publishing, forBrowser, forPush,
                   seen, pushes, connects, errors>>
Sends ==
    /\ stream = "open" /\ forBrowser # <<>>
    /\ shown' = Emitted(Head(forBrowser)) /\ forBrowser' = <<>>
    /\ UNCHANGED <<pending, asked, peer, current, publishing, forPush, stream,
                   seen, pushes, connects, errors>>
Disconnects ==
    /\ stream # "closed" /\ stream' = "closed" /\ forBrowser' = <<>>
    /\ UNCHANGED <<pending, asked, peer, current, publishing, forPush, shown,
                   seen, pushes, connects, errors>>

\* newCredRequests: an id is remembered for longer than a request can live.
OnlyListed(known, listed) == listed
Known(known, listed) == known \cup listed
Notifies ==
    /\ forPush # <<>> /\ forPush' = <<>>
    /\ seen' = Known(seen, Head(forPush))
    /\ pushes' = [r \in Requests |-> pushes[r] + (IF r \in Head(forPush) \ seen THEN 1 ELSE 0)]
    /\ UNCHANGED <<pending, asked, peer, current, publishing, forBrowser, stream, shown,
                   connects, errors>>

StreamNext ==
    \/ \E r \in Requests : Asked(r) \/ Resolved(r)
    \/ PeerAnswers \/ PeerFails \/ Builds \/ PublishStores \/ PublishOffers
    \/ Connects \/ Primes \/ Sends \/ Disconnects \/ Notifies
StreamSpec == StreamInit /\ [][StreamNext]_streamVars

\* The goroutines run and the peer is polled again and again.
StreamSteps == {"peer", "poll", "stream", "notifier"}
StreamStep(g) ==
    CASE g = "peer" -> PeerAnswers
      [] g = "poll" -> Builds \/ PublishStores \/ PublishOffers
      [] g = "stream" -> Primes \/ Sends
      [] g = "notifier" -> Notifies

-----------------------------------------------------------------------------
\* Although subscribers miss snapshots and a new stream may be shown an old one
\* after a newer one, once requests stop coming and going the browser shows
\* those that are pending, for good, and each was pushed.
StreamCatchesUp ==
    <>[](/\ stream = "open" => shown = Some(pending)
         /\ \A r \in pending : pushes[r] > 0)

\* A request is pushed once, although its peer drops out and comes back.
PushedOnce == \A r \in Requests : pushes[r] <= 1
=============================================================================
