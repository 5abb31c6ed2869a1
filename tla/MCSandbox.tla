------------------------------- MODULE MCSandbox -------------------------------
(* Values of Sandbox's constants for TLC. *)
EXTENDS Sandbox

MCNames == OpenDocument \cup OpenXml
MCArchives ==
    {[signature |-> "zip", names |-> s, odf |-> t, ooxml |-> u] :
        s \in UNION {[1 .. n -> MCNames] : n \in 0 .. 2} \cup {t \in [1 .. 3 -> MCNames] : Distinct(t)},
        t \in {"odt", Unknown}, u \in {"docx"}}
MCFiles ==
    MCArchives \cup {[signature |-> "pdf"], [signature |-> "png"], [signature |-> "other"],
                     [signature |-> "cfb", class |-> "xls"],
                     [signature |-> "none"]}
MCPasswords == {"none", "right", "wrong", "unneeded"}
MCLanguages == {"none", "known", "unknown"}

===============================================================================
