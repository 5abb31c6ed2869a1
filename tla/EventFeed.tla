------------------------------ MODULE EventFeed ------------------------------
(***************************************************************************)
(* What the web API promises to its clients (api_specification/openapi.yml *)
(* as the handlers of server.rs realise it): every request has a feed of   *)
(* numbered notifications that ends with one outcome; every stream repeats *)
(* the feed of one request from its beginning; and a document is handed    *)
(* over only for a request whose feed ends with processing_success.        *)
(***************************************************************************)
EXTENDS Naturals, Sequences

CONSTANTS Requests, Streams, Downloads, NoRequest

VARIABLES
    feed,     \* the notifications of each request
    follows,  \* the request that a stream repeats
    got,      \* what the stream has repeated
    handed    \* the request whose document a download has handed over

vars == <<feed, follows, got, handed>>

Events == {"processing_update", "processing_success", "processing_failure"}
Last(f) == f[Len(f)].event
Ended(f) == f # <<>> /\ Last(f) # "processing_update"

Init ==
    /\ feed = [r \in Requests |-> <<>>]
    /\ follows = [s \in Streams |-> NoRequest]
    /\ got = [s \in Streams |-> <<>>]
    /\ handed = [d \in Downloads |-> NoRequest]

Publish(r) ==
    /\ ~Ended(feed[r])
    /\ \E e \in Events :
          feed' = [feed EXCEPT ![r] = Append(@, [event |-> e, id |-> Len(feed[r]) + 1])]
    /\ UNCHANGED <<follows, got, handed>>

Follow(s, r) ==
    /\ follows[s] = NoRequest
    /\ follows' = [follows EXCEPT ![s] = r]
    /\ UNCHANGED <<feed, got, handed>>

Repeat(s) ==
    /\ follows[s] # NoRequest
    /\ Len(got[s]) < Len(feed[follows[s]])
    /\ got' = [got EXCEPT ![s] = Append(@, feed[follows[s]][Len(@) + 1])]
    /\ UNCHANGED <<feed, follows, handed>>

HandOver(d, r) ==
    /\ handed[d] = NoRequest
    /\ feed[r] # <<>> /\ Last(feed[r]) = "processing_success"
    /\ handed' = [handed EXCEPT ![d] = r]
    /\ UNCHANGED <<feed, follows, got>>

Next ==
    \/ \E r \in Requests : Publish(r)
    \/ \E s \in Streams : Repeat(s) \/ \E r \in Requests : Follow(s, r)
    \/ \E d \in Downloads, r \in Requests : HandOver(d, r)

Spec == Init /\ [][Next]_vars

=============================================================================
