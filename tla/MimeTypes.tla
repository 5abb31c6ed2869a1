------------------------------- MODULE MimeTypes -------------------------------
(***************************************************************************)
(* The type of a document as the sandbox detects it from its bytes         *)
(* (entrusted_container/src/mimetypes.rs), and the way in which a document *)
(* of that type becomes a PDF. A file is a record of what the code looks   *)
(* at: its signature, the class of its root entry (cfb), and its entries   *)
(* with the type that "mimetype" and "_rels/.rels" mention (zip).          *)
(***************************************************************************)
EXTENDS Naturals, Sequences

CONSTANTS Unknown  \* no type is detected, or the entry mentions none

OpenDocument == {"mimetype", "content.xml"}
OpenXml == {"_rels/.rels", "[Content_Types].xml"}

Images == {"png", "gif", "jpeg", "tiff"}
OdfTypes == {"odt", "ods", "odp", "odg"}
OoxmlTypes == {"docx", "xlsx", "pptx"}
LegacyTypes == {"doc", "xls", "ppt"}

\* One step of office_mime's loop: acc holds its counters and its answer.
ProbeTogether(acc, name) ==  \* mutant of Probe
    IF acc.done \/ name \notin OpenDocument \cup OpenXml THEN acc
    ELSE LET n == acc.odf + acc.ooxml + 1
         IN  [acc EXCEPT !.odf = n, !.done = n = 2, !.family = IF name \in OpenDocument THEN "odf" ELSE "ooxml"]
Probe(acc, name) ==
    LET odf   == acc.odf + IF name \in OpenDocument THEN 1 ELSE 0
        ooxml == acc.ooxml + IF name \in OpenXml THEN 1 ELSE 0
    IN  IF acc.done THEN acc
        ELSE [odf |-> odf, ooxml |-> ooxml, done |-> 2 \in {odf, ooxml},
              family |-> IF odf = 2 THEN "odf" ELSE "ooxml"]

OfficeMime(file) ==
    LET start == [odf |-> 0, ooxml |-> 0, done |-> FALSE, family |-> "odf"]
        probed[n \in 0 .. Len(file.names)] ==
            IF n = 0 THEN start ELSE Probe(probed[n - 1], file.names[n])
        found == probed[Len(file.names)]
    IN  IF ~found.done THEN Unknown ELSE IF found.family = "odf" THEN file.odf ELSE file.ooxml

\* The signatures exclude each other, so that their order does not matter.
DetectFromPath(file) ==
    CASE file.signature = "zip" -> OfficeMime(file)
      [] file.signature = "cfb" -> file.class
      [] file.signature \in Images \cup {"rtf", "pdf"} -> file.signature
      [] OTHER -> Unknown

\* conversion_by_mimetype
ConversionType(type) ==
    CASE type = "pdf" -> "None"
      [] type \in Images -> "Convert"
      [] type \in OdfTypes \cup OoxmlTypes \cup LegacyTypes \cup {"rtf"} -> "LibreOffice"
      [] OTHER -> "unsupported"

\* What an archive is, whatever the order of its entries: of the family that has
\* both of its names, of either one if both have, or nothing.
TypesOfArchive(file) ==
    LET has(family) == family \subseteq {file.names[i] : i \in DOMAIN file.names}
    IN  IF ~has(OpenDocument) /\ ~has(OpenXml) THEN {Unknown}
        ELSE (IF has(OpenDocument) THEN {file.odf} ELSE {}) \cup
             (IF has(OpenXml) THEN {file.ooxml} ELSE {})

=============================================================================
