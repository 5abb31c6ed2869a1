----------------------------- MODULE Sanitization -----------------------------
(***************************************************************************)
(* What a conversion promises to whoever asked for it (convert of          *)
(* entrusted_client/src/container.rs): nothing happens to the output path  *)
(* before the sandbox has finished the document, "success" is answered     *)
(* only with the complete sanitized document of that very input in place,  *)
(* and nothing touches it once the answer is given.                        *)
(***************************************************************************)
CONSTANTS Conversions

VARIABLES
    phase,  \* how far each conversion is
    output  \* what its output path holds; a conversion stands for its document

vars == <<phase, output>>

Contents == {"absent", "old", "torn"} \cup Conversions

Init ==
    /\ phase = [c \in Conversions |-> "idle"]
    /\ output \in [Conversions -> {"absent", "old"}]

Begin(c) ==
    /\ phase[c] = "idle"
    /\ phase' = [phase EXCEPT ![c] = "working"]
    /\ UNCHANGED output

\* The sandbox is done; from here on the output path may be written.
HandOver(c) ==
    /\ phase[c] = "working"
    /\ phase' = [phase EXCEPT ![c] = "delivering"]
    /\ output' \in {output, [output EXCEPT ![c] = "torn"]}

Write(c) ==
    /\ phase[c] = "delivering"
    /\ \E d \in {"absent", "torn", c} : output' = [output EXCEPT ![c] = d]
    /\ UNCHANGED phase

Succeed(c) ==
    /\ phase[c] = "delivering"
    /\ output[c] = c
    /\ phase' = [phase EXCEPT ![c] = "ok"]
    /\ UNCHANGED output

Fail(c) ==
    /\ phase[c] \in {"idle", "working", "delivering"}
    /\ phase' = [phase EXCEPT ![c] = "failed"]
    /\ UNCHANGED output

Next ==
    \E c \in Conversions : Begin(c) \/ HandOver(c) \/ Write(c) \/ Succeed(c) \/ Fail(c)

Spec == Init /\ [][Next]_vars

===============================================================================
