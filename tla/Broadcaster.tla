------------------------------ MODULE Broadcaster ------------------------------
(***************************************************************************)
(* The Broadcaster of the web service (server.rs): the channels of the     *)
(* event streams, and the task that pings them every ten seconds to find   *)
(* out which are stale. A stream answers its client from the notifications *)
(* alone (WebService.Poll): it never takes anything out of its channel.    *)
(***************************************************************************)
EXTENDS Naturals

CONSTANTS
    Streams,   \* event streams
    Capacity   \* of a channel: 100

VARIABLES
    streams,  \* a stream is "idle" before its request, "open", then "dropped"
    channel,  \* the number of events in its channel
    clients   \* Broadcaster.clients: the streams whose sender is kept

vars == <<streams, channel, clients>>

Init ==
    /\ streams = [s \in Streams |-> "idle"]
    /\ channel = [s \in Streams |-> 0]
    /\ clients = {}

\* new_client: "connected" goes to the channel of the new client.
NewClient(s) ==
    /\ streams[s] = "idle"
    /\ streams' = [streams EXCEPT ![s] = "open"]
    /\ channel' = [channel EXCEPT ![s] = 1]
    /\ clients' = clients \cup {s}

\* The outcome has been sent, or the connection is closed: the receiver is dropped.
DropClient(s) ==
    /\ streams[s] = "open"
    /\ streams' = [streams EXCEPT ![s] = "dropped"]
    /\ UNCHANGED <<channel, clients>>

\* try_send fails when the receiver is dropped, and when the channel is full.
CanSend(s) == streams[s] = "open" /\ channel[s] < Capacity

RemoveStaleClients ==
    /\ clients' = {s \in clients : CanSend(s)}
    /\ channel' = [s \in Streams |-> IF s \in clients' THEN channel[s] + 1 ELSE channel[s]]
    /\ UNCHANGED streams

Next ==
    \/ \E s \in Streams : NewClient(s) \/ DropClient(s)
    \/ RemoveStaleClients

Spec == Init /\ [][Next]_vars

-----------------------------------------------------------------------------
\* A ping tells who is alive: the sender of a stream that is still open stays with
\* the Broadcaster. Violated: after 99 pings the channel of a live stream is full.
LiveClientsKept == \A s \in Streams : streams[s] = "open" => s \in clients

=============================================================================
