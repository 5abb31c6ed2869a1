----------------------------- MODULE SandboxProofs -----------------------------
(***************************************************************************)
(* Theorems of Sandbox, for inputs of any number of pages and entries: the *)
(* state is well typed, the percentage stays in the range of its stage and *)
(* never falls; the sanitized document has every page of the input, in     *)
(* order; and an archive is detected whatever the order of its entries.    *)
(***************************************************************************)
EXTENDS Sandbox, ListTheorems

-----------------------------------------------------------------------------
(* The divisions of ProgressRange.                                         *)

\* n of m steps of a range of d per cent stay within it.
LEMMA QuotientBounds ==
    ASSUME NEW n \in Nat, NEW m \in Nat \ {0}, NEW d \in Nat, n <= m
    PROVE  (n * d) \div m \in 0 .. d
<1> DEFINE q == (n * d) \div m
<1>1. q \in Int /\ m * q <= n * d /\ n * d < m * (q + 1)
    BY SMT
<1>2. q >= 0
    BY <1>1, SMT
<1>3. q <= d
    <2>1. CASE d < q
        <3>1. m * (d + 1) <= m * q
            BY <1>1, <2>1, SMT
        <3>2. n * d <= m * d
            BY SMT
        <3>3. QED BY <1>1, <3>1, <3>2, SMT
    <2>2. QED BY <1>1, <2>1, SMT
<1>4. QED BY <1>1, <1>2, <1>3

\* One more step is no less.
LEMMA QuotientGrows ==
    ASSUME NEW n \in Nat, NEW m \in Nat \ {0}, NEW d \in Nat
    PROVE  (n * d) \div m <= ((n + 1) * d) \div m
<1> DEFINE q == (n * d) \div m
<1> DEFINE r == ((n + 1) * d) \div m
<1>1. q \in Int /\ m * q <= n * d /\ n * d < m * (q + 1)
    BY SMT
<1>2. r \in Int /\ m * r <= (n + 1) * d /\ (n + 1) * d < m * (r + 1)
    BY SMT
<1>3. n * d <= (n + 1) * d
    BY SMT
<1>4. m * q < m * (r + 1)
    BY <1>1, <1>2, <1>3, SMT
<1>5. q < r + 1
    BY <1>1, <1>2, <1>4, SMT
<1>6. QED BY <1>1, <1>2, <1>5

-----------------------------------------------------------------------------
(* The inductive invariant.                                                *)

Early == {"detect", "prepare", "load", "asking", "open"}

\* Nothing is extracted before the pages are counted.
NoPagesYet == stage \in Early => png = {}

\* The range of each stage, and what its loop may have printed: a loop that has done
\* i of its pages has printed no more than Value(i, pageCount).
ProgressInv ==
    /\ stage \in Early => range = Ranges[1] /\ percent <= 5
    /\ stage = "split" => range = Ranges[2]
    /\ stage \in {"save", "ocr"} => range = Ranges[3]
    /\ stage \in {"split", "save", "ocr"} =>
        /\ percent \in range.min .. range.max
        /\ i = 0 => percent = range.min
        /\ i > 0 => percent <= Value(i, pageCount)
    /\ stage \in {"collect", "renumber", "combine"} => range = Ranges[4]
    /\ stage = "collect" => percent = 91
    /\ stage = "renumber" => percent = 92
    /\ stage = "combine" => i \in 3 .. 7 /\ percent = Value(i, Steps)
    /\ stage \in {"move", "copied", "succeeded"} => range = Ranges[5] /\ percent = 98
    /\ stage = "failed" => percent <= 98
    /\ stage = "ending" => percent = 99
    /\ stage = "exited" => percent = 100

Inv == TypeOK /\ NoPagesYet /\ ProgressInv

\* A stage whose loop has a page left prints within its range, and no less than before.
LEMMA LoopPercent ==
    ASSUME Inv, stage \in {"split", "save", "ocr"}, i < pageCount
    PROVE  /\ Value(i + 1, pageCount) \in range.min .. range.max
           /\ percent <= Value(i + 1, pageCount)
<1>1. /\ i \in Nat /\ pageCount \in Nat \ {0} /\ i + 1 \in Nat /\ i + 1 <= pageCount
      /\ percent \in Nat
    BY SandboxAssumption DEF Inv, TypeOK
<1>2. /\ range.min \in Nat /\ range.max \in Nat /\ range.min <= range.max
      /\ Delta(range) \in Nat
    BY DEF Inv, TypeOK, Delta
<1> DEFINE d == Delta(range)
<1>3. /\ ((i + 1) * d) \div pageCount \in 0 .. d
      /\ (i * d) \div pageCount <= ((i + 1) * d) \div pageCount
      /\ i <= pageCount => (i * d) \div pageCount \in 0 .. d
    BY <1>1, <1>2, QuotientBounds, QuotientGrows
<1>4. Value(i + 1, pageCount) \in range.min .. range.max
    BY <1>2, <1>3 DEF Value, Delta
<1>5. percent <= Value(i + 1, pageCount)
    <2>1. CASE i = 0
        BY <1>2, <1>4, <2>1 DEF Inv, ProgressInv
    <2>2. CASE i > 0
        <3>1. percent <= Value(i, pageCount)
            BY <2>2 DEF Inv, ProgressInv
        <3>2. QED BY <1>1, <1>2, <1>3, <3>1 DEF Value
    <2>3. QED BY <1>1, <2>1, <2>2
<1>6. QED BY <1>4, <1>5

\* A page is done: the loop goes on, or fails.
LEMMA LoopStep ==
    ASSUME Inv, stage \in {"split", "save", "ocr"}, i < pageCount, i' = i + 1,
           UNCHANGED <<range, pageCount>>, stage' \in {stage, "failed"},
           percent' \in {percent, Value(i', pageCount)}
    PROVE  percent' \in Nat /\ percent' >= percent /\ ProgressInv'
<1>1. /\ Value(i + 1, pageCount) \in range.min .. range.max
      /\ percent <= Value(i + 1, pageCount)
    BY LoopPercent
<1>2. /\ i \in Nat /\ percent \in range.min .. range.max
      /\ range.min \in Nat /\ range.max \in Nat /\ range.max <= 90
    BY DEF Inv, TypeOK, ProgressInv, Ranges
<1>3. percent' >= percent /\ percent' \in range.min .. range.max /\ percent' <= Value(i + 1, pageCount)
    BY <1>1, <1>2
<1>4. Value(i, pageCount)' = Value(i + 1, pageCount)
    BY DEF Value, Delta
<1>5. ProgressInv'
    BY <1>2, <1>3, <1>4 DEF Inv, ProgressInv, Early
<1>6. QED BY <1>2, <1>3, <1>5

LEMMA InitInv == Init => Inv
BY SandboxAssumption DEF Init, Inv, TypeOK, NoPagesYet, ProgressInv, Early, Ranges, Stages, Running

\* What each step must do.
Kept == Inv' /\ percent' >= percent

LEMMA EarlyKept ==
    ASSUME Inv, Detect \/ Prepare \/ LoadDocument \/ AskPassword \/ OpenPdf
    PROVE  Kept
<1> USE SandboxAssumption DEF Kept, Inv, TypeOK, NoPagesYet, ProgressInv, Early, Ranges, Stages, GoTo, Log,
        Update, inputVars, combineVars
<1>1. CASE Detect
    BY <1>1 DEF Detect
<1>2. CASE Prepare
    BY <1>2 DEF Prepare
<1>3. CASE LoadDocument
    BY <1>3 DEF LoadDocument
<1>4. CASE AskPassword
    BY <1>4 DEF AskPassword, Callback
<1>5. CASE OpenPdf
    BY <1>5 DEF OpenPdf
<1>6. QED BY <1>1, <1>2, <1>3, <1>4, <1>5

\* What the two loops that make a PDF of every page change.
LEMMA SavePageFacts ==
    ASSUME SavePage
    PROVE  /\ stage' \in {"save", "failed"} /\ i < pageCount /\ i' = i + 1
           /\ UNCHANGED <<asked, range, pageCount, png, blank, maxId, exitCode>>
           /\ (pdf' = pdf \/ (i' \in png /\ pdf' = pdf \cup {i'}))
<1>1. stage = "save" /\ i < pageCount /\ i' = i + 1 /\ UNCHANGED <<asked, range, pageCount, png, blank, maxId, exitCode>>
    BY DEF SavePage, combineVars
<1>2. CASE i' \in png
    BY <1>1, <1>2 DEF SavePage
<1>3. CASE i' \notin png
    BY <1>1, <1>3 DEF SavePage, GoTo
<1>4. QED BY <1>1, <1>2, <1>3

LEMMA OcrPageFacts ==
    ASSUME OcrPage
    PROVE  /\ stage' \in {"ocr", "failed"} /\ i < pageCount /\ i' = i + 1
           /\ UNCHANGED <<asked, range, pageCount, png, maxId, exitCode>>
           /\ (pdf' = pdf \/ (i' \in png /\ pdf' = pdf \cup {i'}))
           /\ (blank' = blank \/ (pdf' = pdf \cup {i'} /\ blank' = blank \cup {i'}))
<1>1. /\ stage = "ocr" /\ i < pageCount /\ i' = i + 1
      /\ UNCHANGED <<asked, range, pageCount, png, maxId, exitCode>>
    BY DEF OcrPage, combineVars
<1>2. \/ i' \in png /\ pdf' = pdf \cup {i'} /\ UNCHANGED <<blank, stage>>
      \/ GoTo("failed") /\ UNCHANGED <<pdf, blank>>
      \/ UNCHANGED <<pdf, blank, stage>>
      \/ /\ i' \in png /\ pdf' = pdf \cup {i'} /\ blank' = blank \cup {i'}
         /\ UNCHANGED stage
    BY Zenon DEF OcrPage
<1>3. QED BY <1>1, <1>2, Zenon DEF GoTo

LEMMA PagesKept ==
    ASSUME Inv, SplitPage \/ SplitDone \/ SavePage \/ OcrPage \/ PagesDone
    PROVE  Kept
<1> USE DEF Kept, Inv, NoPagesYet, Early, GoTo, Log, inputVars, combineVars
<1>1. CASE SplitPage
    <2>1. percent' \in Nat /\ percent' >= percent /\ ProgressInv'
        BY <1>1, LoopStep DEF SplitPage
    <2>2. /\ stage' = "split" /\ stage = "split" /\ i < pageCount /\ i' = i + 1
          /\ png' \in {png, png \cup {i + 1}}
          /\ UNCHANGED <<asked, range, pageCount, pdf, blank, maxId, exitCode>>
        BY <1>1 DEF SplitPage, NumberInName
    <2>3. TypeOK'
        BY <2>1, <2>2 DEF TypeOK
    <2>4. QED BY <2>1, <2>2, <2>3
<1>2. CASE SplitDone
    <2>1. \/ stage' \in {"save", "ocr"} /\ percent' = Ranges[3].min
          \/ stage' = "failed" /\ percent' \in {percent, Ranges[3].min}
        <3>1. /\ stage' = CASE ocrLang = "none" -> "save" [] ocrLang = "known" -> "ocr" [] OTHER -> "failed"
              /\ IF ocrLang = "unknown" THEN percent' = percent ELSE percent' = Ranges[3].min
            BY <1>2 DEF SplitDone
        <3>2. CASE ocrLang = "none"
            BY <3>1, <3>2
        <3>3. CASE ocrLang = "known"
            BY <3>1, <3>3
        <3>4. CASE ocrLang \notin {"none", "known"}
            <4>1. stage' = "failed"
                BY <3>1, <3>4, Zenon
            <4>2. QED BY <3>1, <4>1
        <3>5. QED BY <3>2, <3>3, <3>4
    <2>2. /\ stage = "split" /\ range' = Ranges[3] /\ i' = 0
          /\ UNCHANGED <<asked, pageCount, png, pdf, blank, maxId, exitCode>>
        BY <1>2 DEF SplitDone, Update
    <2>3. QED BY <2>1, <2>2 DEF Ranges, TypeOK, ProgressInv, Stages
<1>3. CASE SavePage
    <2>1. percent' \in Nat /\ percent' >= percent /\ ProgressInv'
        BY <1>3, LoopStep DEF SavePage
    <2>2. /\ stage' \in {"save", "failed"} /\ i < pageCount /\ i' = i + 1
          /\ UNCHANGED <<asked, range, pageCount, png, blank, maxId, exitCode>>
          /\ (pdf' = pdf \/ (i' \in png /\ pdf' = pdf \cup {i'}))
        BY <1>3, SavePageFacts
    <2>3. pdf' \subseteq png /\ blank' \subseteq pdf'
        BY <2>2 DEF TypeOK
    <2>4. i' \in Nat /\ i' <= pageCount
        BY <2>2 DEF TypeOK
    <2>5. TypeOK'
        BY <2>1, <2>2, <2>3, <2>4 DEF TypeOK, Stages
    <2>6. QED BY <2>1, <2>2, <2>5
<1>4. CASE OcrPage
    <2>1. percent' \in Nat /\ percent' >= percent /\ ProgressInv'
        BY <1>4, LoopStep DEF OcrPage
    <2>2. /\ stage' \in {"ocr", "failed"} /\ i < pageCount /\ i' = i + 1
          /\ UNCHANGED <<asked, range, pageCount, png, maxId, exitCode>>
          /\ (pdf' = pdf \/ (i' \in png /\ pdf' = pdf \cup {i'}))
          /\ (blank' = blank \/ (pdf' = pdf \cup {i'} /\ blank' = blank \cup {i'}))
        BY <1>4, OcrPageFacts
    <2>3. pdf' \subseteq png /\ blank' \subseteq pdf'
        BY <2>2 DEF TypeOK
    <2>4. i' \in Nat /\ i' <= pageCount
        BY <2>2 DEF TypeOK
    <2>5. TypeOK'
        BY <2>1, <2>2, <2>3, <2>4 DEF TypeOK, Stages
    <2>6. QED BY <2>1, <2>2, <2>5
<1>5. CASE PagesDone
    <2>1. /\ stage \in {"save", "ocr"} /\ stage' = "collect" /\ range' = Ranges[4] /\ i' = 0
          /\ percent' = 91
          /\ UNCHANGED <<asked, pageCount, png, pdf, blank, maxId, exitCode>>
        BY <1>5 DEF PagesDone, Update, Ranges, Delta, Steps
    <2>2. percent <= 90
        BY <2>1 DEF ProgressInv, Ranges, TypeOK
    <2>3. QED BY <2>1, <2>2 DEF TypeOK, ProgressInv, Ranges, Stages
<1>6. QED BY <1>1, <1>2, <1>3, <1>4, <1>5

LEMMA CombineKept ==
    ASSUME Inv, \/ CollectPage \/ CollectDone \/ RenumberDocument \/ RenumberDone
                \/ CombineStep \/ CombineDone
    PROVE  Kept
<1> USE DEF Kept, Inv, TypeOK, NoPagesYet, ProgressInv, Early, Stages, GoTo, Log, Value, Delta, Steps, Ranges,
            inputVars, combineVars
<1>1. CASE CollectPage
    BY <1>1 DEF CollectPage
<1>2. CASE CollectDone
    BY <1>2 DEF CollectDone
<1>3. CASE RenumberDocument
    BY <1>3 DEF RenumberDocument, NextId
<1>4. CASE RenumberDone
    BY <1>4 DEF RenumberDone
<1>5. CASE CombineStep
    BY <1>5 DEF CombineStep
<1>6. CASE CombineDone
    BY <1>6 DEF CombineDone, Update
<1>7. QED BY <1>1, <1>2, <1>3, <1>4, <1>5, <1>6

LEMMA EndKept ==
    ASSUME Inv, CopyResult \/ RemoveSource \/ FailStage \/ LogResult \/ Exit
    PROVE  Kept
<1> USE DEF Kept, Inv, TypeOK, NoPagesYet, ProgressInv, Early, Stages, GoTo, Log, Ranges, inputVars, combineVars
<1>1. CASE CopyResult
    BY <1>1 DEF CopyResult
<1>2. CASE RemoveSource
    BY <1>2 DEF RemoveSource
<1>3. CASE FailStage
    <2>1. percent <= 98
        <3>1. CASE stage = "combine"
            <4>1. percent = 90 + (i * 8) \div 7 /\ i \in 3 .. 7
                BY <3>1 DEF Value, Delta, Steps
            <4>2. QED BY <4>1
        <3>2. CASE stage \in {"split", "save", "ocr"}
            <4>1. percent <= range.max /\ range.max <= 90
                BY <3>2
            <4>2. QED BY <4>1
        <3>3. CASE stage \in Early \cup {"collect", "renumber", "move", "copied"}
            BY <3>3
        <3>4. QED BY <1>3, <3>1, <3>2, <3>3 DEF FailStage
    <2>2. QED BY <1>3, <2>1 DEF FailStage
<1>4. CASE LogResult
    BY <1>4 DEF LogResult
<1>5. CASE Exit
    BY <1>5 DEF Exit
<1>6. QED BY <1>1, <1>2, <1>3, <1>4, <1>5

LEMMA StepKept == Inv /\ Next => Kept
BY EarlyKept, PagesKept, CombineKept, EndKept DEF Next, Stage

-----------------------------------------------------------------------------
(* The theorems.                                                           *)

LEMMA StutterKept == Inv /\ UNCHANGED vars => Inv'
BY DEF vars, inputVars, combineVars, Inv, TypeOK, NoPagesYet, ProgressInv, Value, Delta

LEMMA InvHolds == Spec => []Inv
<1>1. Inv /\ [Next]_vars => Inv'
    BY StepKept, StutterKept DEF Kept
<1>2. QED BY <1>1, InitInv, PTL DEF Spec

\* The state is well typed: in particular, a page is only made into a PDF when its
\* image was extracted, whatever pages are skipped and whatever operation fails.
THEOREM TypeCorrectness == Spec => []TypeOK
<1>1. Inv => TypeOK
    BY DEF Inv
<1>2. QED BY <1>1, InvHolds, PTL

\* The percentage stays in the range of its stage, for any number of pages.
THEOREM PercentStaysInStage == Spec => []PercentInStage
<1>1. Inv => PercentInStage
    <2> SUFFICES ASSUME Inv,
                        stage \in {"split", "save", "ocr", "collect", "renumber", "combine"}
                 PROVE  percent \in range.min .. range.max
        BY DEF PercentInStage
    <2>1. CASE stage \in {"split", "save", "ocr"}
        BY <2>1 DEF Inv, ProgressInv
    <2>2. CASE stage \in {"collect", "renumber"}
        BY <2>2 DEF Inv, ProgressInv, Ranges
    <2>3. CASE stage = "combine"
        <3>1. i \in 3 .. 7 /\ percent = 90 + (i * 8) \div 7 /\ range = Ranges[4]
            BY <2>3 DEF Inv, ProgressInv, Value, Delta, Steps, Ranges
        <3>2. (i * 8) \div 7 \in 0 .. 8
            BY <3>1
        <3>3. QED BY <3>1, <3>2 DEF Ranges
    <2>4. QED BY <2>1, <2>2, <2>3
<1>2. QED BY <1>1, InvHolds, PTL

\* No step of the program prints a lower percentage than the one before.
THEOREM ProgressNeverFalls == Spec => PercentNeverFalls
<1>1. Inv /\ [Next]_vars => [percent' >= percent]_percent
    BY StepKept DEF Kept, vars
<1>2. QED BY <1>1, InvHolds, PTL DEF Spec, PercentNeverFalls

-----------------------------------------------------------------------------
(* The pages of the sanitized document.                                    *)

Before == Early \cup {"split", "save", "ocr", "collect"}
Whole == Without(UpTo(pageCount), blank)

\* The pages that the loops have shown to exist.
ExtractedInv ==
    /\ stage = "collect" => 1 .. i \subseteq pdf
    /\ stage \in {"renumber", "combine", "move", "copied", "succeeded"} \/ exitCode = 0 => 1 .. pageCount \subseteq pdf

\* The documents whose identifiers are below maxId, in order.
OrderInv ==
    /\ maxId > 0 /\ DOMAIN pages \subseteq 1 .. maxId - 1
    /\ pages \in [DOMAIN pages -> 1 .. pageCount]
    /\ stage \in Before => DOMAIN pages = {}
    /\ stage = "renumber" => Kids = Without(UpTo(i), blank)
    /\ stage \in {"combine", "move"} => Kids = Whole
    /\ stage \in {"copied", "succeeded"} \/ exitCode = 0 => output = Whole
    /\ exitCode = 0 => stage \in {"ending", "exited"}

PageInv == Inv /\ ExtractedInv /\ OrderInv

\* Kids lists the pages in the order of their identifiers.
LEMMA KidsListed == Kids = Listed(pages, maxId)
BY DEF Kids, Listed, Keys

LEMMA InitPages == Init => PageInv
<1> SUFFICES ASSUME Init PROVE PageInv
    OBVIOUS
<1>1. Inv
    BY InitInv
<1>2. ExtractedInv
    BY DEF Init, ExtractedInv, Running
<1>3. DOMAIN pages = {} /\ pages \in [DOMAIN pages -> 1 .. pageCount]
    BY DEF Init
<1>4. OrderInv
    BY <1>3 DEF Init, OrderInv, Running
<1>5. QED BY <1>1, <1>2, <1>4 DEF PageInv

\* The documents that are left alone stay in order.
LEMMA SamePages ==
    ASSUME PageInv, UNCHANGED <<pages, maxId>>
    PROVE  Kids' = Kids
BY DEF Kids

\* A loop or a step before the documents are renumbered.
LEMMA PagesBefore ==
    ASSUME PageInv, Inv', stage \in Before, stage' \in Before \cup {"failed"},
           UNCHANGED <<pages, maxId, output, exitCode>>,
           stage' = "collect" => \/ i' = 0
                                 \/ stage = "collect" /\ UNCHANGED pdf /\ i' = i + 1 /\ i' \in pdf
    PROVE  PageInv'
<1>1. exitCode # 0
    BY DEF PageInv, OrderInv, Before, Early
<1>2. ExtractedInv'
    <2>1. CASE stage' = "collect"
        <3>1. CASE i' = 0
            BY <1>1, <2>1, <3>1 DEF ExtractedInv
        <3>2. CASE stage = "collect" /\ UNCHANGED pdf /\ i' = i + 1 /\ i' \in pdf
            <4>1. 1 .. i \subseteq pdf /\ i \in Nat
                BY <3>2 DEF PageInv, ExtractedInv, Inv, TypeOK
            <4>2. 1 .. i' \subseteq pdf'
                BY <3>2, <4>1
            <4>3. QED BY <1>1, <2>1, <4>2 DEF ExtractedInv
        <3>3. QED BY <2>1, <3>1, <3>2
    <2>2. CASE stage' # "collect"
        BY <1>1, <2>2 DEF ExtractedInv, Before, Early
    <2>3. QED BY <2>1, <2>2
<1>3. DOMAIN pages = {} /\ pages \in [DOMAIN pages -> 1 .. pageCount]
    BY DEF PageInv, OrderInv
<1>4. pages' \in [DOMAIN pages' -> 1 .. pageCount']
    BY <1>3
<1>5. OrderInv'
    BY <1>1, <1>3, <1>4 DEF PageInv, OrderInv, Before, Early
<1>6. QED BY <1>2, <1>5 DEF PageInv

\* From there on the pages that exist stay.
LEMMA PagesAfter ==
    ASSUME PageInv, Inv', UNCHANGED <<pages, maxId, pageCount, pdf, blank>>,
           stage \notin Before,
           \/ stage = "renumber" /\ i = pageCount /\ stage' \in {"combine", "failed"} /\ UNCHANGED <<output, exitCode>>
           \/ stage = "combine" /\ stage' \in {"combine", "move"} /\ UNCHANGED <<output, exitCode>>
           \/ stage = "move" /\ output' = Kids /\ stage' = "copied" /\ UNCHANGED exitCode
           \/ stage = "copied" /\ stage' = "succeeded" /\ UNCHANGED <<output, exitCode>>
           \/ stage' = "failed" /\ stage \notin {"ending", "exited"} /\ UNCHANGED <<output, exitCode>>
           \/ stage = "failed" /\ stage' = "ending" /\ exitCode' = 1 /\ UNCHANGED output
           \/ stage = "succeeded" /\ stage' = "ending" /\ exitCode' = 0 /\ UNCHANGED output
           \/ stage = "ending" /\ stage' = "exited" /\ UNCHANGED <<output, exitCode>>
    PROVE  PageInv'
<1>1. Kids' = Kids /\ Whole' = Whole
    BY SamePages DEF Whole
<1>2. ExtractedInv'
    BY DEF PageInv, OrderInv, ExtractedInv, Before, Early
<1>3. /\ maxId' > 0 /\ DOMAIN pages' \subseteq 1 .. maxId' - 1
      /\ pages' \in [DOMAIN pages' -> 1 .. pageCount']
    BY DEF PageInv, OrderInv
<1>4. stage' \notin Before /\ stage' # "renumber"
    BY DEF Before, Early
<1>5. stage' \in {"combine", "move"} => Kids' = Whole'
    BY <1>1 DEF PageInv, OrderInv, Whole
<1>6. stage' \in {"copied", "succeeded"} \/ exitCode' = 0 => output' = Whole'
    BY <1>1 DEF PageInv, OrderInv
<1>7. exitCode' = 0 => stage' \in {"ending", "exited"}
    BY DEF PageInv, OrderInv
<1>8. OrderInv'
    BY <1>3, <1>4, <1>5, <1>6, <1>7, Zenon DEF OrderInv
<1>9. QED BY <1>2, <1>8 DEF PageInv

\* One more document: its page comes after those of the documents before it.
LEMMA RenumberPages ==
    ASSUME PageInv, Inv', RenumberDocument
    PROVE  PageInv'
<1> DEFINE D == DOMAIN pages
<1> DEFINE page == i + 1
<1> DEFINE size == IF page \in blank THEN 2 ELSE 3
<1>1. /\ stage = "renumber" /\ stage' = "renumber" /\ i \in Nat /\ i < pageCount /\ i' = page /\ pageCount \in Nat
      /\ maxId \in Nat /\ maxId > 0 /\ maxId' = maxId + size
      /\ UNCHANGED <<pageCount, pdf, blank, output, exitCode>>
    BY SandboxAssumption DEF PageInv, Inv, TypeOK, OrderInv, RenumberDocument, NextId
<1>2. /\ D \subseteq 1 .. maxId - 1 /\ D \in SUBSET Nat /\ pages \in [D -> 1 .. pageCount]
      /\ Kids = Without(UpTo(i), blank) /\ exitCode # 0
    BY <1>1 DEF PageInv, OrderInv
<1>3. PICK id \in maxId .. maxId + size - 1 :
          LET mine == IF page \in blank THEN {} ELSE {id}
          IN  pages' = [x \in D \cup mine |-> IF x \in mine THEN page ELSE pages[x]]
    BY <1>1 DEF RenumberDocument
<1> DEFINE mine == IF page \in blank THEN {} ELSE {id}
<1> DEFINE E == D \cup mine
<1>4. pages' = [x \in E |-> IF x \in mine THEN page ELSE pages[x]]
    BY <1>3
<1>5. /\ id \in Nat /\ id >= maxId /\ id < maxId' /\ maxId' \in Nat /\ maxId - 1 \in Nat
      /\ E \in SUBSET Nat /\ E \subseteq 1 .. maxId' - 1 /\ page \in 1 .. pageCount
    BY <1>1, <1>2
<1> HIDE DEF D, page, size
<1>6. pages' \in [E -> 1 .. pageCount] /\ DOMAIN pages' = E
    BY <1>2, <1>4, <1>5
<1>7. Kids = Listed(pages, maxId - 1)
    <2>1. \A k \in (maxId - 1) + 1 .. maxId : k \notin D
        BY <1>1, <1>2
    <2>2. Listed(pages, maxId) = Listed(pages, maxId - 1)
        <3>1. maxId - 1 <= maxId
            BY <1>1
        <3>2. QED BY <1>1, <1>2, <1>5, <2>1, <3>1, ListedSpan
    <2>3. QED BY <2>2, KidsListed
<1>8. Listed(pages', maxId - 1) = Listed(pages, maxId - 1)
    <2>1. \A k \in 1 .. maxId - 1 : (k \in D <=> k \in E) /\ (k \in D => pages[k] = pages'[k])
        BY <1>1, <1>4, <1>5
    <2>2. QED
        <3> HIDE DEF E
        <3>1. QED BY <1>2, <1>5, <1>6, <2>1, ListedSame
<1>9. Kids' = Listed(pages', maxId')
    BY Zenon DEF Kids, Listed, Keys
<1>10. AppendKept(UpTo(i), page, blank) /\ UpTo(page) = Append(UpTo(i), page)
    <2>1. UpTo(i) \in Seq(Nat) /\ page \in Nat /\ UpToGrows(i)
        <3>1. i \in Nat /\ page \in Nat
            BY <1>1 DEF page
        <3>2. QED BY <3>1, UpToNext
    <2>2. AppendKept(UpTo(i), page, blank)
        BY <2>1, WithoutAppend, Zenon
    <2>3. QED BY <2>1, <2>2 DEF UpToGrows, page
<1>11. Kids' = Without(UpTo(page), blank)
    <2>1. CASE page \in blank
        <3>1. \A k \in (maxId - 1) + 1 .. maxId' : k \notin E
            BY <1>1, <1>2, <2>1
        <3>2. Listed(pages', maxId') = Listed(pages', maxId - 1)
            <4> HIDE DEF E
            <4>1. maxId - 1 <= maxId' /\ maxId - 1 \in Nat /\ maxId' \in Nat /\ E \in SUBSET Nat
                BY <1>1, <1>5
            <4>2. QED BY <1>6, <3>1, <4>1, ListedSpan
        <3>3. Without(UpTo(page), blank) = Without(UpTo(i), blank)
            BY <1>10, <2>1, Zenon DEF AppendKept
        <3>4. QED BY <1>2, <1>7, <1>8, <1>9, <3>2, <3>3, Zenon
    <2>2. CASE page \notin blank
        <3>1. /\ id - 1 \in Nat /\ (id - 1) + 1 = id /\ id \in E /\ pages'[id] = page
              /\ \A k \in (maxId - 1) + 1 .. id - 1 : k \notin E
              /\ \A k \in id + 1 .. maxId' : k \notin E
              /\ maxId - 1 <= id - 1 /\ id <= maxId'
            BY <1>1, <1>2, <1>4, <1>5, <2>2
        <3> HIDE DEF E
        <3>2. Listed(pages', id - 1) = Listed(pages', maxId - 1)
            BY <1>5, <1>6, <3>1, ListedSpan
        <3>3. Listed(pages', id) = Append(Listed(pages', id - 1), page)
            <4>1. Extended(pages', id - 1)
                BY <1>5, <1>6, <3>1, ListedNext
            <4>2. QED BY <1>6, <3>1, <4>1, Zenon DEF Extended
        <3>4. Listed(pages', maxId') = Listed(pages', id)
            BY <1>5, <1>6, <3>1, ListedSpan
        <3>5. Without(UpTo(page), blank) = Append(Without(UpTo(i), blank), page)
            BY <1>10, <2>2, Zenon DEF AppendKept
        <3>6. QED BY <1>2, <1>7, <1>8, <1>9, <3>2, <3>3, <3>4, <3>5, Zenon
    <2>3. QED BY <2>1, <2>2
<1> HIDE DEF E
<1>12. ExtractedInv'
    BY <1>1, <1>2 DEF PageInv, ExtractedInv
<1>13. OrderInv'
    <2>1. maxId' > 0 /\ DOMAIN pages' \subseteq 1 .. maxId' - 1 /\ pages' \in [DOMAIN pages' -> 1 .. pageCount']
        BY <1>1, <1>5, <1>6
    <2>2. Kids' = Without(UpTo(i), blank)'
        BY <1>1, <1>11
    <2>3. QED BY <1>1, <1>2, <2>1, <2>2 DEF OrderInv, Before, Early
<1>14. QED BY <1>12, <1>13 DEF PageInv

\* Every step keeps the pages in order.
LEMMA PageStep ==
    ASSUME PageInv, Inv', Next
    PROVE  PageInv'
<1>1. CASE Detect \/ Prepare \/ LoadDocument \/ AskPassword \/ OpenPdf \/ SplitPage \/ SplitDone
    BY <1>1, PagesBefore DEF Detect, Prepare, LoadDocument, AskPassword, OpenPdf, SplitPage, SplitDone,
       GoTo, combineVars, Before, Early
<1>2. CASE SavePage \/ OcrPage
    BY <1>2, PagesBefore, SavePageFacts, OcrPageFacts DEF SavePage, OcrPage, combineVars, Before
<1>3. CASE PagesDone \/ CollectPage
    BY <1>3, PagesBefore DEF PagesDone, CollectPage, GoTo, combineVars, Before
<1>4. CASE CollectDone
    <2>1. /\ stage = "collect" /\ i = pageCount /\ stage' = "renumber" /\ i' = 0
          /\ UNCHANGED <<pageCount, pdf, blank, maxId, pages, output, exitCode>>
        BY <1>4 DEF CollectDone, GoTo, combineVars
    <2>2. exitCode # 0 /\ DOMAIN pages = {} /\ maxId \in Nat
        BY <2>1 DEF PageInv, OrderInv, Before, Inv, TypeOK
    <2>3. ExtractedInv'
        BY <2>1, <2>2 DEF PageInv, ExtractedInv
    <2>4. Kids = Without(UpTo(0), blank)
        <3>1. Without(UpTo(0), blank) = <<>>
            BY WithoutOfEmpty DEF UpTo
        <3>2. Kids = <<>>
            <4> DEFINE D == DOMAIN pages
            <4>1. D = {} /\ D \in SUBSET Nat /\ pages \in [D -> 1 .. pageCount]
                BY <2>2 DEF PageInv, OrderInv
            <4>2. Listed(pages, maxId) = Listed(pages, 0)
                <5>1. \A k \in 0 + 1 .. maxId : k \notin D
                    BY <4>1
                <5>2. 0 \in Nat /\ maxId \in Nat /\ 0 <= maxId
                    BY <2>2
                <5>3. D \in SUBSET Nat /\ pages \in [D -> 1 .. pageCount]
                    BY <4>1
                <5> HIDE DEF D
                <5>4. QED BY <5>1, <5>2, <5>3, ListedSpan
            <4>3. Listed(pages, 0) = <<>>
                <5>1. UpTo(0) = <<>>
                    BY DEF UpTo
                <5>2. Keys(pages, 0) = <<>>
                    BY <5>1, WithoutOfEmpty DEF Keys
                <5>3. QED BY <5>2 DEF Listed, Image
            <4>4. QED BY <4>2, <4>3, KidsListed
        <3>3. QED BY <3>1, <3>2
    <2>5. Kids' = Without(UpTo(i), blank)'
        BY <2>1, <2>4, SamePages
    <2>6. OrderInv'
        BY <2>1, <2>2, <2>5 DEF PageInv, OrderInv, Before, Early
    <2>7. QED BY <2>3, <2>6 DEF PageInv
<1>5. CASE RenumberDocument
    BY <1>5, RenumberPages
<1>6. CASE RenumberDone \/ CombineStep \/ CombineDone \/ CopyResult \/ RemoveSource \/ LogResult \/ Exit
    BY <1>6, PagesAfter DEF RenumberDone, CombineStep, CombineDone, CopyResult, RemoveSource, LogResult, Exit,
       GoTo, combineVars, Before, Early
<1>7. CASE FailStage
    BY <1>7, PagesBefore, PagesAfter DEF FailStage, GoTo, combineVars, Before, Early
<1>8. QED BY <1>1, <1>2, <1>3, <1>4, <1>5, <1>6, <1>7 DEF Next, Stage

\* Status 0 means a document of every page, in order and once, for any number of pages.
THEOREM EveryPageInOrder == Spec => []SuccessMeansEveryPage
<1>1. PageInv /\ [Next]_vars => PageInv'
    <2>1. ASSUME PageInv, Next PROVE PageInv'
        BY <2>1, PageStep, StepKept DEF PageInv, Kept
    <2>2. ASSUME PageInv, UNCHANGED vars PROVE PageInv'
        <3>1. Inv'
            BY <2>2, StutterKept DEF PageInv
        <3>2. ExtractedInv' /\ OrderInv'
            BY <2>2 DEF PageInv, ExtractedInv, OrderInv, vars, combineVars, Kids, Whole
        <3>3. QED BY <3>1, <3>2 DEF PageInv
    <2>3. QED BY <2>1, <2>2
<1>2. PageInv => SuccessMeansEveryPage
    BY DEF PageInv, Inv, TypeOK, ExtractedInv, OrderInv, SuccessMeansEveryPage, Whole
<1>3. QED BY <1>1, <1>2, InitPages, PTL DEF Spec

-----------------------------------------------------------------------------
(* Detection of an archive.                                                *)

Families == {"odf", "ooxml"}
Probes == [odf : Nat, ooxml : Nat, done : BOOLEAN, family : Families]
Start == [odf |-> 0, ooxml |-> 0, done |-> FALSE, family |-> "odf"]

\* What office_mime has counted after each entry.
Probing(h, names) ==
    h = [n \in 0 .. Len(names) |-> IF n = 0 THEN Start ELSE Probe(h[n - 1], names[n])]

LEMMA ProbeType ==
    ASSUME NEW acc \in Probes, NEW name
    PROVE  Probe(acc, name) \in Probes
<1>1. acc.odf \in Nat /\ acc.ooxml \in Nat
    BY DEF Probes
<1>2. QED BY <1>1 DEF Probe, Probes, Families

LEMMA ProbingExists ==
    ASSUME NEW names \in Seq(STRING)
    PROVE  \E h : Probing(h, names)
<1> DEFINE N == Len(names)
<1> DEFINE g == [p \in Probes \X (1 .. N) |-> Probe(p[1], names[p[2]])]
<1>1. N \in Nat /\ Start \in Probes
    BY DEF Start, Probes, Families
<1>2. g \in [Probes \X (1 .. N) -> Probes]
    <2>1. \A p \in Probes \X (1 .. N) : Probe(p[1], names[p[2]]) \in Probes
        BY ProbeType
    <2>2. QED BY <2>1
<1>3. PICK h \in [0 .. N -> Probes] : IsRecursion(h, N, Start, g)
    <2> HIDE DEF g, N
    <2>1. QED BY <1>1, <1>2, RecursionExists
<1> DEFINE e == [n \in 0 .. N |-> IF n = 0 THEN Start ELSE Probe(h[n - 1], names[n])]
<1>4. ASSUME NEW n \in 0 .. N PROVE h[n] = e[n]
    <2>1. CASE n = 0
        BY <1>3, <2>1 DEF IsRecursion
    <2>2. CASE n # 0
        <3>1. n \in 1 .. N /\ n - 1 \in 0 .. N
            BY <1>1, <2>2
        <3>2. h[n] = g[<<h[n - 1], n>>]
            <4> HIDE DEF g
            <4>1. QED BY <1>3, <3>1 DEF IsRecursion
        <3>3. h[n - 1] \in Probes
            BY <1>3, <3>1
        <3>4. <<h[n - 1], n>> \in Probes \X (1 .. N)
            BY <3>1, <3>3
        <3>5. g[<<h[n - 1], n>>] = Probe(h[n - 1], names[n])
            BY <3>4
        <3>6. QED BY <2>2, <3>2, <3>5
    <2>3. QED BY <2>1, <2>2
<1>5. h = [n \in 0 .. N |-> h[n]] /\ e = [n \in 0 .. N |-> e[n]]
    BY <1>3
<1>6. h = e
    <2> HIDE DEF e
    <2>1. QED BY <1>4, <1>5
<1>7. Probing(h, names)
    BY <1>6, Zenon DEF Probing
<1>8. QED BY <1>7

\* The names of a family that have been seen, as its counter tells.
Counted(n, family, seen) ==
    \/ n = 0 /\ family \cap seen = {}
    \/ n = 1 /\ \E x \in family : family \cap seen = {x}

\* What the counters and the answer say of the names seen.
ProbeInv(acc, seen) ==
    /\ acc \in Probes
    /\ ~acc.done => Counted(acc.odf, OpenDocument, seen) /\ Counted(acc.ooxml, OpenXml, seen)
    /\ acc.done => IF acc.family = "odf" THEN OpenDocument \subseteq seen ELSE OpenXml \subseteq seen

More(n, family, name) == n + IF name \in family THEN 1 ELSE 0
IsPair(family) == \E x, y : x # y /\ family = {x, y}

LEMMA FamiliesArePairs == IsPair(OpenDocument) /\ IsPair(OpenXml)
<1>1. "mimetype" # "content.xml" /\ "_rels/.rels" # "[Content_Types].xml"
    OBVIOUS
<1>2. QED BY <1>1, Zenon DEF IsPair, OpenDocument, OpenXml

\* A counter that is not complete counts one name more.
LEMMA CountMore ==
    ASSUME NEW n, NEW family, IsPair(family), NEW seen, NEW name, name \notin seen, Counted(n, family, seen)
    PROVE  LET m == More(n, family, name)
           IN  /\ m \in {0, 1, 2}
               /\ m # 2 => Counted(m, family, seen \cup {name})
               /\ m = 2 => family \subseteq seen \cup {name}
<1>1. PICK x, y : x # y /\ family = {x, y}
    BY DEF IsPair
<1>2. CASE name \notin family
    <2>1. More(n, family, name) = n /\ n \in {0, 1} /\ family \cap (seen \cup {name}) = family \cap seen
        BY <1>2 DEF More, Counted
    <2>2. QED BY <2>1 DEF Counted
<1>3. CASE name \in family /\ n = 0
    <2>1. family \cap (seen \cup {name}) = {name} /\ More(n, family, name) = 1
        BY <1>3 DEF Counted, More
    <2>2. QED BY <1>3, <2>1 DEF Counted
<1>4. CASE name \in family /\ n = 1
    <2>1. PICK z \in family : family \cap seen = {z}
        BY <1>4 DEF Counted
    <2>2. z # name /\ z \in seen
        BY <2>1
    <2>3. family \subseteq seen \cup {name}
        BY <1>1, <1>4, <2>1, <2>2
    <2>4. More(n, family, name) = 2
        BY <1>4 DEF More
    <2>5. QED BY <2>3, <2>4
<1>5. n \in {0, 1}
    BY DEF Counted
<1>6. QED BY <1>2, <1>3, <1>4, <1>5

LEMMA ProbeKeeps ==
    ASSUME NEW acc, NEW seen, NEW name, ProbeInv(acc, seen), name \notin seen
    PROVE  ProbeInv(Probe(acc, name), seen \cup {name})
<1> DEFINE odf == More(acc.odf, OpenDocument, name)
<1> DEFINE ooxml == More(acc.ooxml, OpenXml, name)
<1>1. Probe(acc, name) \in Probes
    BY ProbeType DEF ProbeInv
<1>2. CASE acc.done
    <2>1. Probe(acc, name) = acc
        BY <1>2 DEF Probe
    <2>2. QED BY <1>2, <2>1 DEF ProbeInv
<1>3. CASE ~acc.done
    <2>1. Probe(acc, name) = [odf |-> odf, ooxml |-> ooxml, done |-> 2 \in {odf, ooxml},
                              family |-> IF odf = 2 THEN "odf" ELSE "ooxml"]
        BY <1>3, Zenon DEF Probe, More
    <2>2. /\ odf \in {0, 1, 2}
          /\ odf # 2 => Counted(odf, OpenDocument, seen \cup {name})
          /\ odf = 2 => OpenDocument \subseteq seen \cup {name}
        <3>1. Counted(acc.odf, OpenDocument, seen) /\ IsPair(OpenDocument)
            BY <1>3, FamiliesArePairs DEF ProbeInv
        <3>2. QED BY <3>1, CountMore
    <2>3. /\ ooxml \in {0, 1, 2}
          /\ ooxml # 2 => Counted(ooxml, OpenXml, seen \cup {name})
          /\ ooxml = 2 => OpenXml \subseteq seen \cup {name}
        <3>1. Counted(acc.ooxml, OpenXml, seen) /\ IsPair(OpenXml)
            BY <1>3, FamiliesArePairs DEF ProbeInv
        <3>2. QED BY <3>1, CountMore
    <2> HIDE DEF odf, ooxml
    <2>4. \/ Probe(acc, name).done /\ 2 \in {odf, ooxml}
          \/ ~Probe(acc, name).done /\ odf # 2 /\ ooxml # 2
        <3>1. CASE 2 \in {odf, ooxml}
            <4>1. (2 \in {odf, ooxml}) = TRUE
                BY <3>1
            <4>2. Probe(acc, name) = [odf |-> odf, ooxml |-> ooxml, done |-> TRUE,
                                      family |-> IF odf = 2 THEN "odf" ELSE "ooxml"]
                BY <2>1, <4>1, Zenon
            <4>3. QED BY <3>1, <4>2
        <3>2. CASE 2 \notin {odf, ooxml}
            <4>1. (2 \in {odf, ooxml}) = FALSE
                BY <3>2
            <4>2. Probe(acc, name) = [odf |-> odf, ooxml |-> ooxml, done |-> FALSE,
                                      family |-> IF odf = 2 THEN "odf" ELSE "ooxml"]
                BY <2>1, <4>1, Zenon
            <4>3. QED BY <3>2, <4>2
        <3>3. QED BY <3>1, <3>2
    <2>5. /\ Probe(acc, name).odf = odf /\ Probe(acc, name).ooxml = ooxml
          /\ Probe(acc, name).family = IF odf = 2 THEN "odf" ELSE "ooxml"
        BY <2>1
    <2>6. QED BY <1>1, <2>2, <2>3, <2>4, <2>5 DEF ProbeInv
<1>4. QED BY <1>2, <1>3

\* No name comes twice: the loop sees a family exactly when both of its names are there.
LEMMA OfficeMimeFits ==
    ASSUME NEW f, f.names \in Seq(STRING), Distinct(f.names)
    PROVE  OfficeMime(f) \in TypesOfArchive(f)
<1> DEFINE N == Len(f.names)
<1> DEFINE h == CHOOSE k : Probing(k, f.names)
<1> DEFINE all == {f.names[k] : k \in DOMAIN f.names}
<1> DEFINE seen(n) == {f.names[k] : k \in 1 .. n}
<1>1. Probing(h, f.names)
    <2>1. \E k : Probing(k, f.names)
        BY ProbingExists
    <2>2. QED BY <2>1, Zenon
<1>2. OfficeMime(f) = IF ~h[N].done THEN Unknown ELSE IF h[N].family = "odf" THEN f.odf ELSE f.ooxml
    BY Zenon DEF OfficeMime, Probing, Start
<1> HIDE DEF h
<1>3. N \in Nat /\ DOMAIN f.names = 1 .. N
    OBVIOUS
<1>4. \A n \in 0 .. N : h[n] = IF n = 0 THEN Start ELSE Probe(h[n - 1], f.names[n])
    BY <1>1, Zenon DEF Probing
<1> DEFINE T == {n \in 0 .. N : ProbeInv(h[n], seen(n))}
<1>5. 0 \in T
    <2>1. h[0] = Start
        BY <1>3, <1>4
    <2>2. seen(0) = {}
        OBVIOUS
    <2>3. ProbeInv(Start, {})
        BY DEF ProbeInv, Start, Probes, Families, Counted
    <2>4. 0 \in 0 .. N
        BY <1>3
    <2>5. QED BY <2>1, <2>2, <2>3, <2>4
<1>6. ASSUME NEW n \in 0 .. N - 1, n \in T PROVE n + 1 \in T
    <2>1. n + 1 \in 1 .. N /\ n + 1 \in 0 .. N /\ (n + 1) - 1 = n /\ n + 1 # 0 /\ 1 .. n \subseteq 1 .. N
          /\ n + 1 \notin 1 .. n /\ 1 .. n + 1 = 1 .. n \cup {n + 1}
        BY <1>3
    <2>2. h[n + 1] = Probe(h[n], f.names[n + 1])
        BY <1>4, <2>1
    <2>3. f.names[n + 1] \notin seen(n)
        BY <1>3, <2>1 DEF Distinct
    <2>4. seen(n + 1) = seen(n) \cup {f.names[n + 1]}
        BY <2>1
    <2>5. ProbeInv(h[n], seen(n))
        BY <1>6
    <2> HIDE DEF seen
    <2>6. ProbeInv(h[n + 1], seen(n + 1))
        BY <2>2, <2>3, <2>4, <2>5, ProbeKeeps
    <2>7. QED BY <2>1, <2>6
<1>7. 0 .. N \subseteq T
    <2> HIDE DEF T, N
    <2>1. QED BY <1>3, <1>5, <1>6, BoundedInduction
<1>8. ProbeInv(h[N], all)
    <2>1. N \in T
        <3> HIDE DEF T, N
        <3>1. QED BY <1>3, <1>7
    <2>2. seen(N) = all
        BY <1>3, Zenon
    <2>3. ProbeInv(h[N], seen(N))
        BY <2>1
    <2>4. QED BY <2>2, <2>3, Zenon
<1> DEFINE has(family) == family \subseteq all
<1>9. TypesOfArchive(f) = IF ~has(OpenDocument) /\ ~has(OpenXml) THEN {Unknown}
                          ELSE (IF has(OpenDocument) THEN {f.odf} ELSE {}) \cup
                               (IF has(OpenXml) THEN {f.ooxml} ELSE {})
    BY Zenon DEF TypesOfArchive
<1> HIDE DEF all, N
<1>10. CASE ~h[N].done
    <2>1. ~has(OpenDocument) /\ ~has(OpenXml)
        BY <1>8, <1>10 DEF ProbeInv, Counted, OpenDocument, OpenXml
    <2>2. OfficeMime(f) = Unknown
        BY <1>2, <1>10
    <2>3. QED BY <1>9, <2>1, <2>2
<1>11. CASE h[N].done /\ h[N].family = "odf"
    <2>1. has(OpenDocument)
        BY <1>8, <1>11 DEF ProbeInv
    <2>2. OfficeMime(f) = f.odf
        BY <1>2, <1>11
    <2>3. QED BY <1>9, <2>1, <2>2
<1>12. CASE h[N].done /\ h[N].family # "odf"
    <2>1. has(OpenXml)
        BY <1>8, <1>12 DEF ProbeInv
    <2>2. OfficeMime(f) = f.ooxml
        BY <1>2, <1>12
    <2>3. QED BY <1>9, <2>1, <2>2
<1>13. QED BY <1>10, <1>11, <1>12

\* An archive is detected by its two names, however many entries it has and in
\* whatever order they come.
THEOREM DetectionFits == Spec => []DetectionFitsArchive
<1> DEFINE Given == file \in Files
<1>1. Init => Given
    BY DEF Init
<1>2. Given /\ [Next]_vars => Given'
    BY DEF Next, Stage, Detect, Prepare, LoadDocument, AskPassword, OpenPdf, SplitPage, SplitDone, SavePage,
       OcrPage, PagesDone, CollectPage, CollectDone, RenumberDocument, RenumberDone, CombineStep, CombineDone,
       CopyResult, RemoveSource, LogResult, Exit, FailStage, vars, inputVars
<1>3. Given => DetectionFitsArchive
    <2> SUFFICES ASSUME file \in Files, file.signature = "zip", Distinct(file.names)
                 PROVE  DetectFromPath(file) \in TypesOfArchive(file)
        BY DEF DetectionFitsArchive
    <2>1. OfficeMime(file) \in TypesOfArchive(file)
        BY FilesAssumption, OfficeMimeFits
    <2>2. DetectFromPath(file) = OfficeMime(file)
        BY DEF DetectFromPath, Images
    <2>3. QED BY <2>1, <2>2
<1> HIDE DEF Given
<1>4. QED BY <1>1, <1>2, <1>3, PTL DEF Spec

================================================================================
