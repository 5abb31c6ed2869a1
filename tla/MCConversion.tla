----------------------------- MODULE MCConversion -----------------------------
(* Values of Conversion's constants for TLC. *)
EXTENDS Conversion

CONSTANTS c1, c2

MCOneConversion == {c1}
MCTwoConversions == {c1, c2}
MCAllRuntimes == {"none", "native", "plain", "seccomp"}
MCLines == [c \in Conversions |-> IF c = c1 THEN 2 ELSE 1]
MCOneLine == [c \in Conversions |-> 1]
MCContainers == {"plain", "seccomp"}

===============================================================================
