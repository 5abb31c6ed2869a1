------------------------------ MODULE WebClients ------------------------------
(***************************************************************************)
(* The page and the command line client beside each other, on a server     *)
(* that keeps the promise of EventFeed (WebService implements it).         *)
(***************************************************************************)
EXTENDS WebPage, WebClient

CONSTANTS MaxNotifications  \* bound: notifications of each request

ASSUME RequestsAssumption ==
    /\ Requests = Files \cup Clients /\ Files \cap Clients = {}
    /\ Streams = Requests /\ Downloads = Clients
    /\ NoRequest \notin Requests
    /\ MaxNotifications \in [Requests -> Nat \ {0}]

allVars == <<vars, pageVars, clientVars>>

WebInit == Init /\ PageInit /\ ClientInit

\* The server publishes for the uploads that it has accepted.
Serve(r) ==
    /\ r \in uploaded \/ (r \in Clients /\ step[r] \in UploadDone)
    /\ Publish(r)
    /\ Len(feed'[r]) = MaxNotifications[r] => Ended(feed'[r])
    /\ UNCHANGED <<pageVars, clientVars>>

WebNext ==
    \/ PageNext /\ UNCHANGED clientVars
    \/ ClientNext /\ UNCHANGED pageVars
    \/ \E r \in Requests : Serve(r)

WebSpec == WebInit /\ [][WebNext]_allVars

\* The server answers what it has accepted and repeats what it has published, and
\* the clients look at what they are told. Nobody has to use the page.
WebFairness ==
    /\ \A r \in Requests : WF_allVars(Serve(r))
    /\ WF_allVars(AnswerStep /\ UNCHANGED clientVars)
    /\ \A k \in Clients : WF_allVars(ClientStep(k) /\ UNCHANGED pageVars)

FairWebSpec == WebSpec /\ WebFairness

-----------------------------------------------------------------------------
\* Every variable of the page and of the clients has its type, and the failures that
\* a batch hands on are at most as many as the files that it has finished.
TypeOK == PageTypeOK /\ ClientTypeOK

=============================================================================
