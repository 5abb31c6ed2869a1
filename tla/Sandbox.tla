-------------------------------- MODULE Sandbox --------------------------------
(***************************************************************************)
(* entrusted-container (entrusted_container/src/main.rs), the program that *)
(* runs inside the sandbox: it turns its input into a PDF, every page of   *)
(* that into a PNG, every PNG into a PDF of one page (with or without      *)
(* OCR), and combines these into the sanitized document. It is sequential; *)
(* LibreOffice, poppler, cairo, Tesseract and lopdf are external.          *)
(***************************************************************************)
EXTENDS MimeTypes, Lists

CONSTANTS
    Files,      \* inputs; one without a signature stands for no file
    Passwords,  \* "none", "right" or "wrong": that of the environment, for an
                \* encrypted input; "unneeded" for an input that is not encrypted
    Languages,  \* "none", "known" or "unknown": the OCR language asked for
    MaxPages,   \* bound: pages of the input
    Faults      \* TRUE: external operations may fail

\* What is read of an archive is the list of the names of its entries.
ASSUME FilesAssumption == \A f \in Files : f.signature = "zip" => f.names \in Seq(STRING)

ASSUME SandboxAssumption ==
    /\ Passwords \subseteq {"none", "right", "wrong", "unneeded"}
    /\ Languages \subseteq {"none", "known", "unknown"}
    /\ MaxPages \in Nat
    /\ Faults \in BOOLEAN

VARIABLES
    file, password, ocrLang,  \* the input and the arguments
    stage,      \* where execute is
    asked,      \* what LibreOffice's password callback has done
    range,      \* ProgressRange
    percent,    \* the percentage of the last line printed
    pageCount,
    i,          \* pages that the loop of the stage has done, or its step of seven
    png,        \* pages extracted into page-<i>.png
    pdf,        \* pages for which page-<i>.pdf exists
    blank,      \* those of pdf that have no page in them (OCR has failed)
    maxId,      \* pdf_combine_pdfs: the next object identifier
    pages,      \* documents_pages: from object identifiers to pages
    objects,    \* documents_objects: identifiers of the others
    output,     \* the pages of the sanitized document, or NoOutput
    exitCode    \* 2 while it runs

inputVars == <<file, password, ocrLang>>
combineVars == <<maxId, pages, objects>>
vars == <<inputVars, stage, asked, range, percent, pageCount, i, png, pdf, blank,
          combineVars, output, exitCode>>

-----------------------------------------------------------------------------
Detected == ConversionType(DetectFromPath(file))
NoOutput == <<0>>
Running == 2
Steps == 7
Stages == {"detect", "prepare", "load", "asking", "open", "split", "ocr", "save",
           "collect", "renumber", "combine", "move", "copied", "failed", "succeeded", "ending", "exited"}

\* ProgressRange::delta, and the percentage of step n of m of a stage.
Delta(r) == r.max - r.min
UpToMax(n, m) == range.min + (n * range.max) \div m \* mutant of Value
Value(n, m) == range.min + (n * Delta(range)) \div m

Ranges == <<[min |-> 0, max |-> 20], [min |-> 20, max |-> 45], [min |-> 45, max |-> 90],
            [min |-> 90, max |-> 98], [min |-> 98, max |-> 98]>>

Init ==
    /\ file \in Files /\ password \in Passwords /\ ocrLang \in Languages
    /\ password # "unneeded" => Detected \in {"None", "LibreOffice"}
    /\ stage = "detect"
    /\ asked = "never"
    /\ range = Ranges[1]
    /\ percent = 0
    /\ pageCount = 0
    /\ i = 0
    /\ png = {} /\ pdf = {} /\ blank = {}
    /\ maxId = 1
    /\ pages = <<>>
    /\ objects = {}
    /\ output = NoOutput
    /\ exitCode = Running

GoTo(l) == stage' = l
Log(p) == percent' = p
UpdateButForOcr(k) == range' = IF k = 3 THEN range ELSE Ranges[k] \* mutant of Update
Update(k) == range' = Ranges[k]

-----------------------------------------------------------------------------
(* input_as_pdf_to_pathbuf_uri (0 to 20)                                   *)

Detect ==
    /\ stage = "detect"
    /\ GoTo(IF Detected = "unsupported" THEN "failed" ELSE "prepare")
    /\ UNCHANGED <<inputVars, asked, range, percent, pageCount, i, png, pdf, blank, combineVars,
                   output, exitCode>>

\* A PDF is copied, an image goes through img_to_pdf.
Prepare ==
    /\ stage = "prepare"
    /\ Log(5)
    /\ GoTo(IF Detected = "LibreOffice" THEN "load" ELSE "open")
    /\ UNCHANGED <<inputVars, asked, range, pageCount, i, png, pdf, blank, combineVars,
                   output, exitCode>>

\* LibreOffice calls back for a password, if it was told that it may; it does so
\* again as long as it is given a wrong one.
LoadDocument ==
    /\ stage = "load"
    /\ GoTo(CASE password = "unneeded" -> "open"
              [] password = "none" -> "failed"
              [] OTHER -> "asking")
    /\ UNCHANGED <<inputVars, asked, range, percent, pageCount, i, png, pdf, blank, combineVars,
                   output, exitCode>>

\* The closure registered with the office: it gives the password, then none.
Insist(state) == "given" \* mutant of Callback
Callback(state) == IF state = "never" THEN "given" ELSE "withdrawn"

AskPassword ==
    /\ stage = "asking"
    /\ asked' = Callback(asked)
    /\ GoTo(CASE asked' = "given" /\ password = "right" -> "open"
              [] asked' = "withdrawn" -> "failed"
              [] OTHER -> "asking")
    /\ UNCHANGED <<inputVars, range, percent, pageCount, i, png, pdf, blank, combineVars,
                   output, exitCode>>

\* poppler opens the PDF; an encrypted one (not exported by LibreOffice) only with
\* its password.
OpenPdf ==
    /\ stage = "open"
    /\ IF Detected = "None" /\ password \in {"none", "wrong"}
       THEN GoTo("failed") /\ UNCHANGED <<pageCount, range, percent, i>>
       ELSE /\ pageCount' \in 0 .. MaxPages
            /\ Update(2)
            /\ Log(Ranges[2].min)
            /\ GoTo("split")
            /\ i' = 0
    /\ UNCHANGED <<inputVars, asked, png, pdf, blank, combineVars, output, exitCode>>

-----------------------------------------------------------------------------
(* split_pdf_pages_into_images (20 to 45)                                  *)

IndexInName(n) == n - 1 \* mutant of NumberInName
NumberInName(n) == n

\* doc.page(i) is None for a page that cannot be read: it is skipped.
SplitPage ==
    /\ stage = "split" /\ i < pageCount
    /\ i' = i + 1
    /\ \/ Log(Value(i', pageCount)) /\ png' = png \cup {NumberInName(i')}
       \/ Faults /\ UNCHANGED <<percent, png>>
    /\ UNCHANGED <<inputVars, stage, asked, range, pageCount, pdf, blank, combineVars, output, exitCode>>

SplitDone ==
    /\ stage = "split" /\ i = pageCount
    /\ Update(3)
    /\ GoTo(CASE ocrLang = "none" -> "save" [] ocrLang = "known" -> "ocr" [] OTHER -> "failed")
    /\ IF ocrLang = "unknown" THEN UNCHANGED percent ELSE Log(Ranges[3].min)
    /\ i' = 0
    /\ UNCHANGED <<inputVars, asked, pageCount, png, pdf, blank, combineVars, output, exitCode>>

-----------------------------------------------------------------------------
(* imgs_to_pdf, ocr_imgs_to_pdf (45 to 90)                                 *)

\* Opening a PNG that was not extracted is an error.
SavePage ==
    /\ stage = "save" /\ i < pageCount
    /\ i' = i + 1
    /\ Log(Value(i', pageCount))
    /\ IF i' \in png THEN pdf' = pdf \cup {i'} /\ UNCHANGED stage
                     ELSE GoTo("failed") /\ UNCHANGED pdf
    /\ UNCHANGED <<inputVars, asked, range, pageCount, png, blank, combineVars, output, exitCode>>

\* The results of Tesseract's renderer are not looked at: it may leave no file
\* (no renderer), or a file without a page (the page was not processed).
OcrPage ==
    /\ stage = "ocr" /\ i < pageCount
    /\ i' = i + 1
    /\ Log(Value(i', pageCount))
    /\ \/ i' \in png /\ pdf' = pdf \cup {i'} /\ UNCHANGED <<blank, stage>>
       \/ i' \notin png /\ GoTo("failed") /\ UNCHANGED <<pdf, blank>>
       \/ Faults /\ UNCHANGED <<pdf, blank, stage>>
       \/ /\ Faults /\ i' \in png
          /\ pdf' = pdf \cup {i'} /\ blank' = blank \cup {i'}
          /\ UNCHANGED stage
    /\ UNCHANGED <<inputVars, asked, range, pageCount, png, combineVars, output, exitCode>>

PagesDone ==
    /\ stage \in {"save", "ocr"} /\ i = pageCount
    /\ Update(4)
    /\ Log(Ranges[4].min + (1 * Delta(Ranges[4])) \div Steps)
    /\ GoTo("collect")
    /\ i' = 0
    /\ UNCHANGED <<inputVars, asked, pageCount, png, pdf, blank, combineVars, output, exitCode>>

-----------------------------------------------------------------------------
(* pdf_combine_pdfs (90 to 98)                                             *)

CollectPage ==
    /\ stage = "collect" /\ i < pageCount
    /\ i' = i + 1
    /\ IF i' \in pdf THEN UNCHANGED stage ELSE GoTo("failed")
    /\ UNCHANGED <<inputVars, asked, range, percent, pageCount, png, pdf, blank, combineVars,
                   output, exitCode>>

CollectDone ==
    /\ stage = "collect" /\ i = pageCount
    /\ Log(Value(2, Steps))
    /\ GoTo("renumber")
    /\ i' = 0
    /\ UNCHANGED <<inputVars, asked, range, pageCount, png, pdf, blank, combineVars, output, exitCode>>

\* renumber_objects_with gives a document the identifiers from maxId on; besides its
\* page (wherever that comes among them) it has a catalog and a page tree.
LastId(last) == last \* mutant of NextId
NextId(last) == last + 1

RenumberDocument ==
    /\ stage = "renumber" /\ i < pageCount
    /\ i' = i + 1
    /\ LET size == IF i' \in blank THEN 2 ELSE 3
           ids == maxId .. maxId + size - 1
       IN  /\ \E id \in ids :
                 LET mine == IF i' \in blank THEN {} ELSE {id}
                 IN  /\ pages' = [x \in DOMAIN pages \cup mine |-> IF x \in mine THEN i' ELSE pages[x]]
                     /\ objects' = objects \cup (ids \ mine)
           /\ maxId' = NextId(maxId + size - 1)
    /\ UNCHANGED <<inputVars, stage, asked, range, percent, pageCount, png, pdf, blank, output, exitCode>>

\* Without a document there is no "Pages" object.
RenumberDone ==
    /\ stage = "renumber" /\ i = pageCount
    /\ Log(Value(3, Steps))
    /\ GoTo(IF objects = {} THEN "failed" ELSE "combine")
    /\ i' = 3
    /\ UNCHANGED <<inputVars, asked, range, pageCount, png, pdf, blank, combineVars, output, exitCode>>

\* Dictionary, merge, compress and save; "Kids" are the keys of documents_pages in
\* their order.
CombineStep ==
    /\ stage = "combine" /\ i < Steps
    /\ i' = i + 1
    /\ Log(Value(i', Steps))
    /\ UNCHANGED <<inputVars, stage, asked, range, pageCount, png, pdf, blank, combineVars, output, exitCode>>

CombineDone ==
    /\ stage = "combine" /\ i = Steps
    /\ Update(5)
    /\ GoTo("move")
    /\ UNCHANGED <<inputVars, asked, percent, pageCount, i, png, pdf, blank, combineVars, output, exitCode>>

-----------------------------------------------------------------------------
(* move_file_to_dir, and the end of main.                                  *)

Kids == Image(pages, Without(UpTo(maxId), (1 .. maxId) \ DOMAIN pages))

CopyResult ==
    /\ stage = "move"
    /\ output' = Kids
    /\ GoTo("copied")
    /\ UNCHANGED <<inputVars, asked, range, percent, pageCount, i, png, pdf, blank, combineVars, exitCode>>

RemoveSource ==
    /\ stage = "copied"
    /\ Log(range.min)
    /\ GoTo("succeeded")
    /\ UNCHANGED <<inputVars, asked, range, pageCount, i, png, pdf, blank, combineVars, output, exitCode>>

\* `?` of any external operation.
FailStage ==
    /\ Faults
    /\ stage \notin {"failed", "succeeded", "ending", "exited"}
    /\ GoTo("failed")
    /\ UNCHANGED <<inputVars, asked, range, percent, pageCount, i, png, pdf, blank, combineVars,
                   output, exitCode>>

LogResult ==
    /\ stage \in {"failed", "succeeded"}
    /\ exitCode' = IF stage = "failed" THEN 1 ELSE 0
    /\ Log(99)
    /\ GoTo("ending")
    /\ UNCHANGED <<inputVars, asked, range, pageCount, i, png, pdf, blank, combineVars, output>>

Exit ==
    /\ stage = "ending"
    /\ Log(100)
    /\ GoTo("exited")
    /\ UNCHANGED <<inputVars, asked, range, pageCount, i, png, pdf, blank, combineVars, output, exitCode>>

-----------------------------------------------------------------------------
Stage ==
    \/ Detect \/ Prepare \/ LoadDocument \/ AskPassword \/ OpenPdf
    \/ SplitPage \/ SplitDone \/ SavePage \/ OcrPage \/ PagesDone
    \/ CollectPage \/ CollectDone \/ RenumberDocument \/ RenumberDone \/ CombineStep \/ CombineDone
    \/ CopyResult \/ RemoveSource \/ LogResult \/ Exit

Next == Stage \/ FailStage

Spec == Init /\ [][Next]_vars

\* The program runs; its external operations return.
FairSpec == Spec /\ WF_vars(Stage)

-----------------------------------------------------------------------------
\* Type invariant: stages, pages and identifiers are in their ranges.
TypeOK ==
    /\ stage \in Stages
    /\ asked \in {"never", "given", "withdrawn"}
    /\ range \in [min : Nat, max : Nat] /\ range.min <= range.max
    /\ percent \in Nat
    /\ pageCount \in 0 .. MaxPages
    /\ i \in Nat
    /\ stage \in {"split", "save", "ocr", "collect", "renumber"} => i <= pageCount
    /\ png \subseteq 1 .. pageCount
    /\ pdf \subseteq png
    /\ blank \subseteq pdf
    /\ maxId \in Nat
    /\ exitCode \in 0 .. 2

\* The percentage stays in the range of its stage, for any number of pages, and
\* whatever pages are skipped (ProgressRange and the divisions of each loop).
PercentInStage ==
    stage \in {"split", "save", "ocr", "collect", "renumber", "combine"} =>
        percent \in range.min .. range.max

\* A progress bar never goes back: the loops of five functions that know nothing of
\* each other print percentages that never fall, also when a stage breaks off.
PercentNeverFalls == [][percent' >= percent]_percent

\* Status 0 means that the sanitized document has every page of the input, once and
\* in order, except for pages that Tesseract did not process; a page that could
\* not be extracted is never left out silently.
SuccessMeansEveryPage ==
    exitCode = 0 => png = 1 .. pageCount /\ output = Without(UpTo(pageCount), blank)

\* An archive (no name of which comes twice) is detected by its two names, in whatever
\* order its entries come and whatever other family one of its names belongs to.
DetectionFitsArchive ==
    file.signature = "zip" /\ Distinct(file.names) => DetectFromPath(file) \in TypesOfArchive(file)

\* The program ends, also when LibreOffice keeps asking for another password.
SandboxEnds == <>(stage = "exited")

=============================================================================
