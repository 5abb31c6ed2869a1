------------------------------- MODULE WebClient -------------------------------
(***************************************************************************)
(* The command line web client (entrusted_webclient/src/main.rs): uploads  *)
(* one file, follows its notifications and downloads the result. A client  *)
(* stands for its upload request, its stream and its download.             *)
(***************************************************************************)
EXTENDS EventFeed

CONSTANTS
    Clients,      \* runs of the client, each with an output path of its own
    ClientFaults  \* TRUE: connections may break, the server may answer an error

VARIABLES
    step,     \* where each client is
    fetched,  \* what the body of its download is
    saved     \* what its output path holds

clientVars == <<step, fetched, saved>>

Bodies == {"nothing", "document", "problem"}
ClientSteps == {"start", "follow", "listen", "download", "save", "exit_ok", "exit_err"}
UploadDone == ClientSteps \ {"start"}

ClientInit ==
    /\ step = [k \in Clients |-> "start"]
    /\ fetched = [k \in Clients |-> "nothing"]
    /\ saved = [k \in Clients |-> "nothing"]

ClientGoes(k, l) == step' = [step EXCEPT ![k] = l]

\* The arguments, the OCR languages and the file are looked at and the file is
\* uploaded; a response that is no UploadResponse is an error, as all the rest.
Submit(k) ==
    /\ step[k] = "start"
    /\ ClientGoes(k, "follow") \/ ClientGoes(k, "exit_err")
    /\ UNCHANGED <<fetched, saved, vars>>

\* process_notifications
OpenEvents(k) ==
    /\ step[k] = "follow"
    /\ Follow(k, k)
    /\ ClientGoes(k, "listen")
    /\ UNCHANGED <<fetched, saved>>

AnyOutcomeWillDo(e) == e # "processing_update" \* mutant of Downloadable
Downloadable(e) == e = "processing_success"
ListensOn(e) == FALSE \* mutant of GivenUp
GivenUp(e) == e = "processing_failure"

ProcessNotification(k) ==
    /\ step[k] = "listen"
    /\ Repeat(k)
    /\ LET e == got'[k][Len(got'[k])].event
       IN  ClientGoes(k, CASE Downloadable(e) -> "download"
                           [] GivenUp(e) -> "exit_err"
                           [] OTHER -> "listen")
    /\ UNCHANGED <<fetched, saved>>

\* The response of the download, whatever its status.
Download(k) ==
    /\ step[k] = "download"
    /\ \/ HandOver(k, k) /\ fetched' = [fetched EXCEPT ![k] = "document"]
       \/ ClientFaults /\ UNCHANGED vars /\ fetched' = [fetched EXCEPT ![k] = "problem"]
    /\ ClientGoes(k, "save")
    /\ UNCHANGED saved

\* File::create empties the output path before the body is written to it.
SaveOutput(k) ==
    /\ step[k] = "save"
    /\ \/ saved' = [saved EXCEPT ![k] = fetched[k]] /\ ClientGoes(k, "exit_ok")
       \/ ClientFaults /\ saved' = [saved EXCEPT ![k] = "part"] /\ ClientGoes(k, "exit_err")
    /\ UNCHANGED <<fetched, vars>>

\* `?` of a connection; an error of the event stream is not retried.
GiveUp(k) ==
    /\ ClientFaults
    /\ step[k] \in {"follow", "listen", "download"}
    /\ ClientGoes(k, "exit_err")
    /\ UNCHANGED <<fetched, saved, vars>>

ClientStep(k) ==
    Submit(k) \/ OpenEvents(k) \/ ProcessNotification(k) \/ Download(k) \/ SaveOutput(k)
ClientNext == \E k \in Clients : ClientStep(k) \/ GiveUp(k)

ClientTypeOK ==
    /\ step \in [Clients -> ClientSteps]
    /\ fetched \in [Clients -> Bodies] /\ saved \in [Clients -> Bodies \cup {"part"}]

\* Whatever breaks on the way, status 0 means that the conversion of this very request
\* has succeeded on the server, and that the answer to the download is at the output
\* path: no notification is skipped or taken for another outcome.
ClientSavesAnswer ==
    \A k \in Clients : step[k] = "exit_ok" =>
        /\ Ended(feed[k]) /\ Last(feed[k]) = "processing_success"
        /\ saved[k] = IF handed[k] = k THEN "document" ELSE "problem"

\* Status 0 means that the output path holds the sanitized document: violated, since
\* the client does not look at the status of the download's response.
ClientSavesDocument ==
    \A k \in Clients : step[k] = "exit_ok" => saved[k] = "document"

\* A client ends: the server answers it in the end, and it looks at every outcome.
ClientsEnd == \A k \in Clients : step[k] = "start" ~> step[k] \in {"exit_ok", "exit_err"}

=============================================================================
