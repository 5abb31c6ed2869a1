---------------------------- MODULE ConversionProofs ----------------------------
(***************************************************************************)
(* Theorems of Conversion, for any number of conversions beside each other,*)
(* any runtime, any output of the commands, failing file operations and    *)
(* killed processes: types, the sweep of the folders, the progress bar,    *)
(* the shared profile, and the refinement of Sanitization.                 *)
(***************************************************************************)
EXTENDS Conversion, TLAPS

-----------------------------------------------------------------------------
(* The inductive invariant. But for the profile it speaks of one           *)
(* conversion at a time, and nobody else changes what it speaks of.        *)

BeforeRun == {"idle", "rejected", "runtime", "inspect", "pull", "prepare", "create", "write", "folder"}
InProcess == {"inspect", "pull", "prepare", "create", "write", "folder", "replace", "copy", "copying",
              "copied", "cleanup", "sweep_ok", "sweep_failed"}
Delivering == {"replace", "copy", "copying", "copied", "cleanup", "sweep_ok"}

\* There is a command only while convert waits for it, or was killed.
PlaceInv(c) ==
    /\ place[c] \in InProcess => InContainer
    /\ place[c] = "run" => runtime # "none"
    /\ place[c] \notin Commands \cup {"crashed"} => child[c] = "none"

\* What is in the folder, and that it is gone unless something has failed.
FolderInv(c) ==
    /\ folder[c] \in {"absent", "empty", c}
    /\ place[c] \in BeforeRun => folder[c] = "absent"
    /\ place[c] = "run" /\ runtime = "native" => folder[c] = "absent"
    /\ place[c] = "run" /\ child[c] \in {"none", "starting", "running"} => folder[c] # c
    /\ place[c] = "copying" => folder[c] = c
    /\ Answered(c) /\ folder[c] # "absent" => spoiled[c] # "nothing"

\* The output is written only after the sandbox has handed its document over.
OutputInv(c) ==
    /\ place[c] = "idle" => ~handover[c]
    /\ place[c] \in Delivering => handover[c]
    /\ child[c] = "moving" => handover[c]
    /\ place[c] = "run" /\ child[c] = "exit_ok" => handover[c]
    /\ place[c] = "run" /\ runtime = "native" /\ child[c] \in {"moved", "exit_ok"} => output[c] = c
    /\ place[c] \in {"copied", "cleanup", "sweep_ok"} => output[c] = c

\* The sandbox keeps its last line until its result is stored, and the line says 100.
BarInv(c) ==
    /\ place[c] = "run" /\ child[c] \in {"starting", "running", "moving"} => owed[c].out > 0
    /\ place[c] = "run" /\ child[c] = "moved" /\ owed[c].out = 0 /\ pipe[c].out = 0 => told[c] = 100
    /\ place[c] = "run" /\ child[c] = "exit_ok" =>
        /\ owed[c].out = 0
        /\ pipe[c].out = 0 /\ (runtime = "native" \/ folder[c] = c) => told[c] = 100
    /\ place[c] \in {"replace", "copy"} /\ folder[c] = c => told[c] = 100
    /\ place[c] \in {"copying", "copied", "cleanup", "sweep_ok"} => told[c] = 100
    /\ Answered(c) => told[c] = 100

Good(c) == PlaceInv(c) /\ FolderInv(c) /\ OutputInv(c) /\ BarInv(c)

Inv == TypeOK /\ IncompleteProfileHasWriter /\ \A c \in Conversions : Good(c)


-----------------------------------------------------------------------------
(* What a step of c does to the invariant: c itself stays good, nobody else is *)
(* touched, and an incomplete profile keeps its writer.                    *)

Untouched(d) ==
    /\ place'[d] = place[d] /\ told'[d] = told[d] /\ child'[d] = child[d]
    /\ owed'[d] = owed[d] /\ pipe'[d] = pipe[d] /\ handover'[d] = handover[d]
    /\ folder'[d] = folder[d] /\ output'[d] = output[d] /\ spoiled'[d] = spoiled[d]

Writers == {"write", "crashed", "failed"}

ProfileStep(c) ==
    \/ profile' = "whole"
    \/ place'[c] = "write"
    \/ profile' = profile /\ (place[c] \in Writers => place'[c] \in Writers)

Kept(c) ==
    /\ TypeOK'
    /\ Good(c)'
    /\ runtime' = runtime
    /\ \A d \in Conversions \ {c} : Untouched(d)
    /\ ProfileStep(c)

LEMMA KeptIsEnough ==
    ASSUME Inv, NEW c \in Conversions, Kept(c)
    PROVE  Inv'
<1>1. ASSUME NEW d \in Conversions PROVE Good(d)'
    <2>1. CASE d = c
        BY <2>1 DEF Kept
    <2>2. CASE d # c
        BY <2>2 DEF Inv, Kept, Untouched, Good, PlaceInv, FolderInv, OutputInv, BarInv, Answered, InContainer
    <2>3. QED BY <2>1, <2>2
<1>2. IncompleteProfileHasWriter'
    <2>1. CASE profile' = "whole"
        BY <2>1 DEF IncompleteProfileHasWriter
    <2>2. CASE place'[c] = "write"
        BY <2>2 DEF IncompleteProfileHasWriter
    <2>3. CASE profile' = profile /\ (place[c] \in Writers => place'[c] \in Writers)
        BY <2>3 DEF Inv, Kept, Untouched, IncompleteProfileHasWriter, Writers
    <2>4. QED BY <2>1, <2>2, <2>3 DEF Kept, ProfileStep
<1>3. QED BY <1>1, <1>2 DEF Inv, Kept

LEMMA InitInv == Init => Inv
BY ConversionAssumption
   DEF Init, Inv, TypeOK, IncompleteProfileHasWriter, Good, PlaceInv, FolderInv, OutputInv, BarInv,
       Answered, BeforeRun, InProcess, Delivering, Places, Commands, Ended, Percentages, Quiet, Pipes,
       InContainer, Exited

-----------------------------------------------------------------------------
(* Each action. Its lemma lists what its step does to the types, to the    *)
(* parts of the invariant, to the other conversions and to the profile.    *)

USE ConversionAssumption DEF Inv, TypeOK, Places, Commands, Ended, Exited, Percentages, Quiet, Pipes

LEMMA RejectKept ==
    ASSUME Inv, NEW c \in Conversions, Reject(c)
    PROVE  Kept(c)
<1> USE DEF Reject, GoTo, commandVars
<1>1. TypeOK'
    OBVIOUS
<1>2. PlaceInv(c)'
    BY DEF Good, PlaceInv, InContainer, InProcess, FolderInv, OutputInv, BarInv
<1>3. FolderInv(c)'
    BY DEF Good, FolderInv, InContainer, BeforeRun, Answered, PlaceInv, OutputInv
<1>4. OutputInv(c)'
    BY DEF Good, OutputInv, InContainer, Delivering, PlaceInv, FolderInv
<1>5. BarInv(c)'
    BY DEF Good, BarInv, InContainer, Answered, PlaceInv, FolderInv
<1>6. runtime' = runtime
    OBVIOUS
<1>7. ASSUME NEW d \in Conversions \ {c} PROVE Untouched(d)
    BY DEF Untouched
<1>8. ProfileStep(c)
    BY DEF ProfileStep, Writers
<1>9. QED BY <1>1, <1>2, <1>3, <1>4, <1>5, <1>6, <1>7, <1>8 DEF Kept, Good

LEMMA ConvertKept ==
    ASSUME Inv, NEW c \in Conversions, Convert(c)
    PROVE  Kept(c)
<1> USE DEF Convert, GoTo, Tell, commandVars
<1>1. TypeOK'
    OBVIOUS
<1>2. PlaceInv(c)'
    BY DEF Good, PlaceInv, InContainer, InProcess, FolderInv, OutputInv, BarInv
<1>3. FolderInv(c)'
    BY DEF Good, FolderInv, InContainer, BeforeRun, Answered, PlaceInv, OutputInv
<1>4. OutputInv(c)'
    BY DEF Good, OutputInv, InContainer, Delivering, PlaceInv, FolderInv
<1>5. BarInv(c)'
    BY DEF Good, BarInv, InContainer, Answered, PlaceInv, FolderInv
<1>6. runtime' = runtime
    OBVIOUS
<1>7. ASSUME NEW d \in Conversions \ {c} PROVE Untouched(d)
    BY DEF Untouched
<1>8. ProfileStep(c)
    BY DEF ProfileStep, Writers
<1>9. QED BY <1>1, <1>2, <1>3, <1>4, <1>5, <1>6, <1>7, <1>8 DEF Kept, Good

LEMMA ChooseRuntimeKept ==
    ASSUME Inv, NEW c \in Conversions, ChooseRuntime(c)
    PROVE  Kept(c)
<1> USE DEF ChooseRuntime, GoTo, Tell, GiveUp, commandVars
<1>1. TypeOK'
    <2>1. place' \in [Conversions -> Places] /\ runtime' \in {"none", "native", "plain", "seccomp"}
        <3>1. \E l \in {"failed", "run", "inspect"} : place' = [place EXCEPT ![c] = l]
            OBVIOUS
        <3>2. runtime' = runtime
            OBVIOUS
        <3>3. QED BY <3>1, <3>2
    <2>2. told' \in [Conversions -> Percentages]
        OBVIOUS
    <2>3. child' \in [Conversions -> {"none", "starting", "running", "moving", "moved"} \cup Exited]
        OBVIOUS
    <2>4. owed' \in [Conversions -> [Pipes -> Nat]] /\ pipe' \in [Conversions -> [Pipes -> 0 .. PipeSize]]
        OBVIOUS
    <2>5. handover' \in [Conversions -> BOOLEAN] /\ profile' \in {"absent", "empty", "whole"}
        OBVIOUS
    <2>6. folder' \in [Conversions -> {"absent", "empty"} \cup Conversions]
        OBVIOUS
    <2>7. output' \in [Conversions -> {"absent", "old", "torn"} \cup Conversions]
        OBVIOUS
    <2>8. spoiled' \in [Conversions -> {"nothing", "delivery", "sweep"}]
        OBVIOUS
    <2>9. QED BY <2>1, <2>2, <2>3, <2>4, <2>5, <2>6, <2>7, <2>8
<1>2. PlaceInv(c)'
    BY DEF Good, PlaceInv, InContainer, InProcess, FolderInv, OutputInv, BarInv
<1>3. FolderInv(c)'
    BY DEF Good, FolderInv, InContainer, BeforeRun, Answered, PlaceInv, OutputInv
<1>4. OutputInv(c)'
    BY DEF Good, OutputInv, InContainer, Delivering, PlaceInv, FolderInv
<1>5. BarInv(c)'
    <2>1. /\ child'[c] = "none" /\ place'[c] \in {"run", "inspect", "failed"}
          /\ place'[c] = "failed" => told'[c] = 100
        BY DEF Good, PlaceInv
    <2>2. QED BY <2>1 DEF BarInv, Answered
<1>6. runtime' = runtime
    OBVIOUS
<1>7. ASSUME NEW d \in Conversions \ {c} PROVE Untouched(d)
    BY DEF Untouched
<1>8. ProfileStep(c)
    BY DEF ProfileStep, Writers
<1>9. QED BY <1>1, <1>2, <1>3, <1>4, <1>5, <1>6, <1>7, <1>8 DEF Kept, Good

LEMMA SpawnKept ==
    ASSUME Inv, NEW c \in Conversions, Spawn(c)
    PROVE  Kept(c)
<1> USE DEF Spawn, Tell
<1>1. TypeOK'
    <2>1. place' \in [Conversions -> Places] /\ runtime' \in {"none", "native", "plain", "seccomp"}
        OBVIOUS
    <2>2. told' \in [Conversions -> Percentages]
        OBVIOUS
    <2>3. child' \in [Conversions -> {"none", "starting", "running", "moving", "moved"} \cup Exited]
        OBVIOUS
    <2>4. owed' \in [Conversions -> [Pipes -> Nat]] /\ pipe' \in [Conversions -> [Pipes -> 0 .. PipeSize]]
        OBVIOUS
    <2>5. handover' \in [Conversions -> BOOLEAN] /\ profile' \in {"absent", "empty", "whole"}
        OBVIOUS
    <2>6. folder' \in [Conversions -> {"absent", "empty"} \cup Conversions]
        OBVIOUS
    <2>7. output' \in [Conversions -> {"absent", "old", "torn"} \cup Conversions]
        OBVIOUS
    <2>8. spoiled' \in [Conversions -> {"nothing", "delivery", "sweep"}]
        OBVIOUS
    <2>9. QED BY <2>1, <2>2, <2>3, <2>4, <2>5, <2>6, <2>7, <2>8
<1>2. PlaceInv(c)'
    BY DEF Good, PlaceInv, InContainer, InProcess, FolderInv, OutputInv, BarInv
<1>3. FolderInv(c)'
    BY DEF Good, FolderInv, InContainer, BeforeRun, Answered, PlaceInv, OutputInv
<1>4. OutputInv(c)'
    BY DEF Good, OutputInv, InContainer, Delivering, PlaceInv, FolderInv
<1>5. BarInv(c)'
    BY DEF Good, BarInv, InContainer, Answered, PlaceInv, FolderInv
<1>6. runtime' = runtime
    OBVIOUS
<1>7. ASSUME NEW d \in Conversions \ {c} PROVE Untouched(d)
    BY DEF Untouched
<1>8. ProfileStep(c)
    BY DEF ProfileStep, Writers
<1>9. QED BY <1>1, <1>2, <1>3, <1>4, <1>5, <1>6, <1>7, <1>8 DEF Kept, Good

LEMMA StartSandboxKept ==
    ASSUME Inv, NEW c \in Conversions, StartSandbox(c)
    PROVE  Kept(c)
<1> USE DEF StartSandbox
<1>1. TypeOK'
    OBVIOUS
<1>2. PlaceInv(c)'
    BY DEF Good, PlaceInv, InContainer, InProcess, FolderInv, OutputInv, BarInv
<1>3. FolderInv(c)'
    BY DEF Good, FolderInv, InContainer, BeforeRun, Answered, PlaceInv, OutputInv
<1>4. OutputInv(c)'
    BY DEF Good, OutputInv, InContainer, Delivering, PlaceInv, FolderInv
<1>5. BarInv(c)'
    BY DEF Good, BarInv, InContainer, Answered, PlaceInv, FolderInv
<1>6. runtime' = runtime
    OBVIOUS
<1>7. ASSUME NEW d \in Conversions \ {c} PROVE Untouched(d)
    BY DEF Untouched
<1>8. ProfileStep(c)
    BY DEF ProfileStep, Writers
<1>9. QED BY <1>1, <1>2, <1>3, <1>4, <1>5, <1>6, <1>7, <1>8 DEF Kept, Good

LEMMA StoreResultKept ==
    ASSUME Inv, NEW c \in Conversions, StoreResult(c)
    PROVE  Kept(c)
<1> USE DEF StoreResult, SafeDir
<1>1. TypeOK'
    OBVIOUS
<1>2. PlaceInv(c)'
    BY DEF Good, PlaceInv, InContainer, InProcess, FolderInv, OutputInv, BarInv
<1>3. FolderInv(c)'
    BY DEF Good, FolderInv, InContainer, BeforeRun, Answered, PlaceInv, OutputInv
<1>4. OutputInv(c)'
    BY DEF Good, OutputInv, InContainer, Delivering, PlaceInv, FolderInv
<1>5. BarInv(c)'
    BY DEF Good, BarInv, InContainer, Answered, PlaceInv, FolderInv
<1>6. runtime' = runtime
    OBVIOUS
<1>7. ASSUME NEW d \in Conversions \ {c} PROVE Untouched(d)
    BY DEF Untouched
<1>8. ProfileStep(c)
    BY DEF ProfileStep, Writers
<1>9. QED BY <1>1, <1>2, <1>3, <1>4, <1>5, <1>6, <1>7, <1>8 DEF Kept, Good

LEMMA StartMoveKept ==
    ASSUME Inv, NEW c \in Conversions, StartMove(c)
    PROVE  Kept(c)
<1> USE DEF StartMove
<1>1. TypeOK'
    OBVIOUS
<1>2. PlaceInv(c)'
    BY DEF Good, PlaceInv, InContainer, InProcess, FolderInv, OutputInv, BarInv
<1>3. FolderInv(c)'
    BY DEF Good, FolderInv, InContainer, BeforeRun, Answered, PlaceInv, OutputInv
<1>4. OutputInv(c)'
    BY DEF Good, OutputInv, InContainer, Delivering, PlaceInv, FolderInv
<1>5. BarInv(c)'
    BY DEF Good, BarInv, InContainer, Answered, PlaceInv, FolderInv
<1>6. runtime' = runtime
    OBVIOUS
<1>7. ASSUME NEW d \in Conversions \ {c} PROVE Untouched(d)
    BY DEF Untouched
<1>8. ProfileStep(c)
    BY DEF ProfileStep, Writers
<1>9. QED BY <1>1, <1>2, <1>3, <1>4, <1>5, <1>6, <1>7, <1>8 DEF Kept, Good

LEMMA FinishMoveKept ==
    ASSUME Inv, NEW c \in Conversions, FinishMove(c)
    PROVE  Kept(c)
<1> USE DEF FinishMove
<1>1. TypeOK'
    OBVIOUS
<1>2. PlaceInv(c)'
    BY DEF Good, PlaceInv, InContainer, InProcess, FolderInv, OutputInv, BarInv
<1>3. FolderInv(c)'
    BY DEF Good, FolderInv, InContainer, BeforeRun, Answered, PlaceInv, OutputInv
<1>4. OutputInv(c)'
    BY DEF Good, OutputInv, InContainer, Delivering, PlaceInv, FolderInv
<1>5. BarInv(c)'
    BY DEF Good, BarInv, InContainer, Answered, PlaceInv, FolderInv
<1>6. runtime' = runtime
    OBVIOUS
<1>7. ASSUME NEW d \in Conversions \ {c} PROVE Untouched(d)
    BY DEF Untouched
<1>8. ProfileStep(c)
    BY DEF ProfileStep, Writers
<1>9. QED BY <1>1, <1>2, <1>3, <1>4, <1>5, <1>6, <1>7, <1>8 DEF Kept, Good

LEMMA ExitCommandKept ==
    ASSUME Inv, NEW c \in Conversions, ExitCommand(c)
    PROVE  Kept(c)
<1> USE DEF ExitCommand
<1>1. TypeOK'
    OBVIOUS
<1>2. PlaceInv(c)'
    BY DEF Good, PlaceInv, InContainer, InProcess, FolderInv, OutputInv, BarInv
<1>3. FolderInv(c)'
    BY DEF Good, FolderInv, InContainer, BeforeRun, Answered, PlaceInv, OutputInv
<1>4. OutputInv(c)'
    <2>1. place'[c] = place[c] /\ child'[c] = "exit_ok" /\ output'[c] = output[c]
        OBVIOUS
    <2>2. handover'[c] = (handover[c] \/ place[c] = "run")
        OBVIOUS
    <2>3. place[c] \notin Delivering \cup {"idle"}
        BY DEF Delivering, Good, PlaceInv
    <2>4. place[c] = "run" => child[c] = "moved"
        OBVIOUS
    <2>5. QED BY <2>1, <2>2, <2>3, <2>4 DEF Good, OutputInv, Delivering
<1>5. BarInv(c)'
    BY DEF Good, BarInv, InContainer, Answered, PlaceInv, FolderInv
<1>6. runtime' = runtime
    OBVIOUS
<1>7. ASSUME NEW d \in Conversions \ {c} PROVE Untouched(d)
    BY DEF Untouched
<1>8. ProfileStep(c)
    BY DEF ProfileStep, Writers
<1>9. QED BY <1>1, <1>2, <1>3, <1>4, <1>5, <1>6, <1>7, <1>8 DEF Kept, Good

LEMMA DieCommandKept ==
    ASSUME Inv, NEW c \in Conversions, DieCommand(c)
    PROVE  Kept(c)
<1> USE DEF DieCommand
<1>1. TypeOK'
    <2>1. place' \in [Conversions -> Places] /\ runtime' \in {"none", "native", "plain", "seccomp"}
        OBVIOUS
    <2>2. told' \in [Conversions -> Percentages]
        OBVIOUS
    <2>3. child' \in [Conversions -> {"none", "starting", "running", "moving", "moved"} \cup Exited]
        OBVIOUS
    <2>4. owed' \in [Conversions -> [Pipes -> Nat]] /\ pipe' \in [Conversions -> [Pipes -> 0 .. PipeSize]]
        OBVIOUS
    <2>5. handover' \in [Conversions -> BOOLEAN] /\ profile' \in {"absent", "empty", "whole"}
        <3>1. handover' = handover \/ handover' = [handover EXCEPT ![c] = TRUE]
            OBVIOUS
        <3>2. profile' = profile
            OBVIOUS
        <3>3. handover \in [Conversions -> BOOLEAN] /\ profile \in {"absent", "empty", "whole"}
            OBVIOUS
        <3>4. QED BY ONLY <3>1, <3>2, <3>3
    <2>6. folder' \in [Conversions -> {"absent", "empty"} \cup Conversions]
        OBVIOUS
    <2>7. output' \in [Conversions -> {"absent", "old", "torn"} \cup Conversions]
        OBVIOUS
    <2>8. spoiled' \in [Conversions -> {"nothing", "delivery", "sweep"}]
        OBVIOUS
    <2>9. QED BY <2>1, <2>2, <2>3, <2>4, <2>5, <2>6, <2>7, <2>8
<1>2. PlaceInv(c)'
    BY DEF Good, PlaceInv, InContainer, InProcess, FolderInv, OutputInv, BarInv
<1>3. FolderInv(c)'
    BY DEF Good, FolderInv, InContainer, BeforeRun, Answered, PlaceInv, OutputInv
<1>4. OutputInv(c)'
    BY DEF Good, OutputInv, InContainer, Delivering, PlaceInv, FolderInv
<1>5. BarInv(c)'
    BY DEF Good, BarInv, InContainer, Answered, PlaceInv, FolderInv
<1>6. runtime' = runtime
    OBVIOUS
<1>7. ASSUME NEW d \in Conversions \ {c} PROVE Untouched(d)
    BY DEF Untouched
<1>8. ProfileStep(c)
    BY DEF ProfileStep, Writers
<1>9. QED BY <1>1, <1>2, <1>3, <1>4, <1>5, <1>6, <1>7, <1>8 DEF Kept, Good

LEMMA ImageFoundKept ==
    ASSUME Inv, NEW c \in Conversions, ImageFound(c)
    PROVE  Kept(c)
<1> USE DEF ImageFound, GoTo, Forget, Returns
<1>1. TypeOK'
    OBVIOUS
<1>2. PlaceInv(c)'
    BY DEF Good, PlaceInv, InContainer, InProcess, FolderInv, OutputInv, BarInv
<1>3. FolderInv(c)'
    BY DEF Good, FolderInv, InContainer, BeforeRun, Answered, PlaceInv, OutputInv
<1>4. OutputInv(c)'
    BY DEF Good, OutputInv, InContainer, Delivering, PlaceInv, FolderInv
<1>5. BarInv(c)'
    BY DEF Good, BarInv, InContainer, Answered, PlaceInv, FolderInv
<1>6. runtime' = runtime
    OBVIOUS
<1>7. ASSUME NEW d \in Conversions \ {c} PROVE Untouched(d)
    BY DEF Untouched
<1>8. ProfileStep(c)
    BY DEF ProfileStep, Writers
<1>9. QED BY <1>1, <1>2, <1>3, <1>4, <1>5, <1>6, <1>7, <1>8 DEF Kept, Good

LEMMA ImageMissingKept ==
    ASSUME Inv, NEW c \in Conversions, ImageMissing(c)
    PROVE  Kept(c)
<1> USE DEF ImageMissing, GoTo, Tell, Forget, Returns
<1>1. TypeOK'
    OBVIOUS
<1>2. PlaceInv(c)'
    BY DEF Good, PlaceInv, InContainer, InProcess, FolderInv, OutputInv, BarInv
<1>3. FolderInv(c)'
    BY DEF Good, FolderInv, InContainer, BeforeRun, Answered, PlaceInv, OutputInv
<1>4. OutputInv(c)'
    BY DEF Good, OutputInv, InContainer, Delivering, PlaceInv, FolderInv
<1>5. BarInv(c)'
    BY DEF Good, BarInv, InContainer, Answered, PlaceInv, FolderInv
<1>6. runtime' = runtime
    OBVIOUS
<1>7. ASSUME NEW d \in Conversions \ {c} PROVE Untouched(d)
    BY DEF Untouched
<1>8. ProfileStep(c)
    BY DEF ProfileStep, Writers
<1>9. QED BY <1>1, <1>2, <1>3, <1>4, <1>5, <1>6, <1>7, <1>8 DEF Kept, Good

LEMMA PulledKept ==
    ASSUME Inv, NEW c \in Conversions, Pulled(c)
    PROVE  Kept(c)
<1> USE DEF Pulled, GoTo, Tell, GiveUp, Forget, Returns
<1>1. TypeOK'
    OBVIOUS
<1>2. PlaceInv(c)'
    BY DEF Good, PlaceInv, InContainer, InProcess, FolderInv, OutputInv, BarInv
<1>3. FolderInv(c)'
    BY DEF Good, FolderInv, InContainer, BeforeRun, Answered, PlaceInv, OutputInv
<1>4. OutputInv(c)'
    BY DEF Good, OutputInv, InContainer, Delivering, PlaceInv, FolderInv
<1>5. BarInv(c)'
    BY DEF Good, BarInv, InContainer, Answered, PlaceInv, FolderInv
<1>6. runtime' = runtime
    OBVIOUS
<1>7. ASSUME NEW d \in Conversions \ {c} PROVE Untouched(d)
    BY DEF Untouched
<1>8. ProfileStep(c)
    BY DEF ProfileStep, Writers
<1>9. QED BY <1>1, <1>2, <1>3, <1>4, <1>5, <1>6, <1>7, <1>8 DEF Kept, Good

LEMMA FailToPrepareKept ==
    ASSUME Inv, NEW c \in Conversions, FailToPrepare(c)
    PROVE  Kept(c)
<1> USE DEF FailToPrepare, GoTo, Tell, GiveUp, commandVars
<1>1. TypeOK'
    OBVIOUS
<1>2. PlaceInv(c)'
    BY DEF Good, PlaceInv, InContainer, InProcess, FolderInv, OutputInv, BarInv
<1>3. FolderInv(c)'
    BY DEF Good, FolderInv, InContainer, BeforeRun, Answered, PlaceInv, OutputInv
<1>4. OutputInv(c)'
    BY DEF Good, OutputInv, InContainer, Delivering, PlaceInv, FolderInv
<1>5. BarInv(c)'
    BY DEF Good, BarInv, InContainer, Answered, PlaceInv, FolderInv
<1>6. runtime' = runtime
    OBVIOUS
<1>7. ASSUME NEW d \in Conversions \ {c} PROVE Untouched(d)
    BY DEF Untouched
<1>8. ProfileStep(c)
    BY DEF ProfileStep, Writers
<1>9. QED BY <1>1, <1>2, <1>3, <1>4, <1>5, <1>6, <1>7, <1>8 DEF Kept, Good

LEMMA CheckProfileKept ==
    ASSUME Inv, NEW c \in Conversions, CheckProfile(c)
    PROVE  Kept(c)
<1> USE DEF CheckProfile, GoTo, commandVars
<1>1. TypeOK'
    OBVIOUS
<1>2. PlaceInv(c)'
    BY DEF Good, PlaceInv, InContainer, InProcess, FolderInv, OutputInv, BarInv
<1>3. FolderInv(c)'
    BY DEF Good, FolderInv, InContainer, BeforeRun, Answered, PlaceInv, OutputInv
<1>4. OutputInv(c)'
    BY DEF Good, OutputInv, InContainer, Delivering, PlaceInv, FolderInv
<1>5. BarInv(c)'
    BY DEF Good, BarInv, InContainer, Answered, PlaceInv, FolderInv
<1>6. runtime' = runtime
    OBVIOUS
<1>7. ASSUME NEW d \in Conversions \ {c} PROVE Untouched(d)
    BY DEF Untouched
<1>8. ProfileStep(c)
    BY DEF ProfileStep, Writers
<1>9. QED BY <1>1, <1>2, <1>3, <1>4, <1>5, <1>6, <1>7, <1>8 DEF Kept, Good

LEMMA CreateProfileKept ==
    ASSUME Inv, NEW c \in Conversions, CreateProfile(c)
    PROVE  Kept(c)
<1> USE DEF CreateProfile, GoTo, commandVars
<1>1. TypeOK'
    OBVIOUS
<1>2. PlaceInv(c)'
    BY DEF Good, PlaceInv, InContainer, InProcess, FolderInv, OutputInv, BarInv
<1>3. FolderInv(c)'
    BY DEF Good, FolderInv, InContainer, BeforeRun, Answered, PlaceInv, OutputInv
<1>4. OutputInv(c)'
    BY DEF Good, OutputInv, InContainer, Delivering, PlaceInv, FolderInv
<1>5. BarInv(c)'
    BY DEF Good, BarInv, InContainer, Answered, PlaceInv, FolderInv
<1>6. runtime' = runtime
    OBVIOUS
<1>7. ASSUME NEW d \in Conversions \ {c} PROVE Untouched(d)
    BY DEF Untouched
<1>8. ProfileStep(c)
    BY DEF ProfileStep, Writers
<1>9. QED BY <1>1, <1>2, <1>3, <1>4, <1>5, <1>6, <1>7, <1>8 DEF Kept, Good

LEMMA WriteProfileKept ==
    ASSUME Inv, NEW c \in Conversions, WriteProfile(c)
    PROVE  Kept(c)
<1> USE DEF WriteProfile, GoTo, commandVars
<1>1. TypeOK'
    OBVIOUS
<1>2. PlaceInv(c)'
    BY DEF Good, PlaceInv, InContainer, InProcess, FolderInv, OutputInv, BarInv
<1>3. FolderInv(c)'
    BY DEF Good, FolderInv, InContainer, BeforeRun, Answered, PlaceInv, OutputInv
<1>4. OutputInv(c)'
    BY DEF Good, OutputInv, InContainer, Delivering, PlaceInv, FolderInv
<1>5. BarInv(c)'
    BY DEF Good, BarInv, InContainer, Answered, PlaceInv, FolderInv
<1>6. runtime' = runtime
    OBVIOUS
<1>7. ASSUME NEW d \in Conversions \ {c} PROVE Untouched(d)
    BY DEF Untouched
<1>8. ProfileStep(c)
    BY DEF ProfileStep, Writers
<1>9. QED BY <1>1, <1>2, <1>3, <1>4, <1>5, <1>6, <1>7, <1>8 DEF Kept, Good

LEMMA MakeFolderKept ==
    ASSUME Inv, NEW c \in Conversions, MakeFolder(c)
    PROVE  Kept(c)
<1> USE DEF MakeFolder, GoTo, SafeDir, commandVars
<1>1. TypeOK'
    OBVIOUS
<1>2. PlaceInv(c)'
    BY DEF Good, PlaceInv, InContainer, InProcess, FolderInv, OutputInv, BarInv
<1>3. FolderInv(c)'
    BY DEF Good, FolderInv, InContainer, InProcess, BeforeRun, Answered, PlaceInv, OutputInv
<1>4. OutputInv(c)'
    BY DEF Good, OutputInv, InContainer, Delivering, PlaceInv, FolderInv
<1>5. BarInv(c)'
    <2>1. place'[c] = "run" /\ child'[c] = "none"
        BY DEF Good, PlaceInv
    <2>2. QED BY <2>1 DEF BarInv, Answered
<1>6. runtime' = runtime
    OBVIOUS
<1>7. ASSUME NEW d \in Conversions \ {c} PROVE Untouched(d)
    BY DEF Untouched
<1>8. ProfileStep(c)
    BY DEF ProfileStep, Writers
<1>9. QED BY <1>1, <1>2, <1>3, <1>4, <1>5, <1>6, <1>7, <1>8 DEF Kept, Good

LEMMA SandboxFailedKept ==
    ASSUME Inv, NEW c \in Conversions, SandboxFailed(c)
    PROVE  Kept(c)
<1> USE DEF SandboxFailed, GoTo, Tell, Forget, Returns
<1>1. TypeOK'
    OBVIOUS
<1>2. PlaceInv(c)'
    BY DEF Good, PlaceInv, InContainer, InProcess, FolderInv, OutputInv, BarInv
<1>3. FolderInv(c)'
    BY DEF Good, FolderInv, InContainer, InProcess, BeforeRun, Answered, PlaceInv, OutputInv
<1>4. OutputInv(c)'
    BY DEF Good, OutputInv, InContainer, Delivering, PlaceInv, FolderInv
<1>5. BarInv(c)'
    BY DEF Good, BarInv, InContainer, Answered, PlaceInv, FolderInv
<1>6. runtime' = runtime
    OBVIOUS
<1>7. ASSUME NEW d \in Conversions \ {c} PROVE Untouched(d)
    BY DEF Untouched
<1>8. ProfileStep(c)
    BY DEF ProfileStep, Writers
<1>9. QED BY <1>1, <1>2, <1>3, <1>4, <1>5, <1>6, <1>7, <1>8 DEF Kept, Good

LEMMA NativeReturnedKept ==
    ASSUME Inv, NEW c \in Conversions, NativeReturned(c)
    PROVE  Kept(c)
<1> USE DEF NativeReturned, GoTo, Tell, GiveUp, Forget, Returns
<1>1. TypeOK'
    OBVIOUS
<1>2. PlaceInv(c)'
    BY DEF Good, PlaceInv, InContainer, InProcess, FolderInv, OutputInv, BarInv
<1>3. FolderInv(c)'
    BY DEF Good, FolderInv, InContainer, BeforeRun, Answered, PlaceInv, OutputInv
<1>4. OutputInv(c)'
    BY DEF Good, OutputInv, InContainer, Delivering, PlaceInv, FolderInv
<1>5. BarInv(c)'
    BY DEF Good, BarInv, InContainer, Answered, PlaceInv, FolderInv
<1>6. runtime' = runtime
    OBVIOUS
<1>7. ASSUME NEW d \in Conversions \ {c} PROVE Untouched(d)
    BY DEF Untouched
<1>8. ProfileStep(c)
    BY DEF ProfileStep, Writers
<1>9. QED BY <1>1, <1>2, <1>3, <1>4, <1>5, <1>6, <1>7, <1>8 DEF Kept, Good

LEMMA SandboxReturnedKept ==
    ASSUME Inv, NEW c \in Conversions, SandboxReturned(c)
    PROVE  Kept(c)
<1> USE DEF SandboxReturned, GoTo, Forget, Returns
<1>1. TypeOK'
    OBVIOUS
<1>2. PlaceInv(c)'
    BY DEF Good, PlaceInv, InContainer, InProcess, FolderInv, OutputInv, BarInv
<1>3. FolderInv(c)'
    BY DEF Good, FolderInv, InContainer, BeforeRun, Answered, PlaceInv, OutputInv
<1>4. OutputInv(c)'
    BY DEF Good, OutputInv, InContainer, Delivering, PlaceInv, FolderInv
<1>5. BarInv(c)'
    BY DEF Good, BarInv, InContainer, Answered, PlaceInv, FolderInv
<1>6. runtime' = runtime
    OBVIOUS
<1>7. ASSUME NEW d \in Conversions \ {c} PROVE Untouched(d)
    BY DEF Untouched
<1>8. ProfileStep(c)
    BY DEF ProfileStep, Writers
<1>9. QED BY <1>1, <1>2, <1>3, <1>4, <1>5, <1>6, <1>7, <1>8 DEF Kept, Good

LEMMA RemoveOldKept ==
    ASSUME Inv, NEW c \in Conversions, RemoveOld(c)
    PROVE  Kept(c)
<1> USE DEF RemoveOld, GoTo, commandVars
<1>1. TypeOK'
    OBVIOUS
<1>2. PlaceInv(c)'
    BY DEF Good, PlaceInv, InContainer, InProcess, FolderInv, OutputInv, BarInv
<1>3. FolderInv(c)'
    BY DEF Good, FolderInv, InContainer, BeforeRun, Answered, PlaceInv, OutputInv
<1>4. OutputInv(c)'
    BY DEF Good, OutputInv, InContainer, Delivering, PlaceInv, FolderInv
<1>5. BarInv(c)'
    BY DEF Good, BarInv, InContainer, Answered, PlaceInv, FolderInv
<1>6. runtime' = runtime
    OBVIOUS
<1>7. ASSUME NEW d \in Conversions \ {c} PROVE Untouched(d)
    BY DEF Untouched
<1>8. ProfileStep(c)
    BY DEF ProfileStep, Writers
<1>9. QED BY <1>1, <1>2, <1>3, <1>4, <1>5, <1>6, <1>7, <1>8 DEF Kept, Good

LEMMA ResultMissingKept ==
    ASSUME Inv, NEW c \in Conversions, ResultMissing(c)
    PROVE  Kept(c)
<1> USE DEF ResultMissing, GoTo, SafeDir, commandVars, HasResult
<1>1. TypeOK'
    OBVIOUS
<1>2. PlaceInv(c)'
    BY DEF Good, PlaceInv, InContainer, InProcess, FolderInv, OutputInv, BarInv
<1>3. FolderInv(c)'
    BY DEF Good, FolderInv, InContainer, BeforeRun, Answered, PlaceInv, OutputInv
<1>4. OutputInv(c)'
    BY DEF Good, OutputInv, InContainer, Delivering, PlaceInv, FolderInv
<1>5. BarInv(c)'
    BY DEF Good, BarInv, InContainer, Answered, PlaceInv, FolderInv
<1>6. runtime' = runtime
    OBVIOUS
<1>7. ASSUME NEW d \in Conversions \ {c} PROVE Untouched(d)
    BY DEF Untouched
<1>8. ProfileStep(c)
    BY DEF ProfileStep, Writers
<1>9. QED BY <1>1, <1>2, <1>3, <1>4, <1>5, <1>6, <1>7, <1>8 DEF Kept, Good

LEMMA StartCopyKept ==
    ASSUME Inv, NEW c \in Conversions, StartCopy(c)
    PROVE  Kept(c)
<1> USE DEF StartCopy, GoTo, SafeDir, commandVars, HasResult
<1>1. TypeOK'
    OBVIOUS
<1>2. PlaceInv(c)'
    BY DEF Good, PlaceInv, InContainer, InProcess, FolderInv, OutputInv, BarInv
<1>3. FolderInv(c)'
    BY DEF Good, FolderInv, InContainer, BeforeRun, Answered, PlaceInv, OutputInv
<1>4. OutputInv(c)'
    BY DEF Good, OutputInv, InContainer, Delivering, PlaceInv, FolderInv
<1>5. BarInv(c)'
    BY DEF Good, BarInv, InContainer, Answered, PlaceInv, FolderInv
<1>6. runtime' = runtime
    OBVIOUS
<1>7. ASSUME NEW d \in Conversions \ {c} PROVE Untouched(d)
    BY DEF Untouched
<1>8. ProfileStep(c)
    BY DEF ProfileStep, Writers
<1>9. QED BY <1>1, <1>2, <1>3, <1>4, <1>5, <1>6, <1>7, <1>8 DEF Kept, Good

LEMMA FinishCopyKept ==
    ASSUME Inv, NEW c \in Conversions, FinishCopy(c)
    PROVE  Kept(c)
<1> USE DEF FinishCopy, GoTo, SafeDir, commandVars
<1>1. TypeOK'
    <2>1. place' \in [Conversions -> Places] /\ runtime' \in {"none", "native", "plain", "seccomp"}
        OBVIOUS
    <2>2. told' \in [Conversions -> Percentages]
        OBVIOUS
    <2>3. child' \in [Conversions -> {"none", "starting", "running", "moving", "moved"} \cup Exited]
        OBVIOUS
    <2>4. owed' \in [Conversions -> [Pipes -> Nat]] /\ pipe' \in [Conversions -> [Pipes -> 0 .. PipeSize]]
        OBVIOUS
    <2>5. handover' \in [Conversions -> BOOLEAN] /\ profile' \in {"absent", "empty", "whole"}
        OBVIOUS
    <2>6. folder' \in [Conversions -> {"absent", "empty"} \cup Conversions]
        OBVIOUS
    <2>7. output' \in [Conversions -> {"absent", "old", "torn"} \cup Conversions]
        BY DEF Good, FolderInv
    <2>8. spoiled' \in [Conversions -> {"nothing", "delivery", "sweep"}]
        OBVIOUS
    <2>9. QED BY <2>1, <2>2, <2>3, <2>4, <2>5, <2>6, <2>7, <2>8
<1>2. PlaceInv(c)'
    BY DEF Good, PlaceInv, InContainer, InProcess, FolderInv, OutputInv, BarInv
<1>3. FolderInv(c)'
    BY DEF Good, FolderInv, InContainer, BeforeRun, Answered, PlaceInv, OutputInv
<1>4. OutputInv(c)'
    BY DEF Good, OutputInv, InContainer, Delivering, PlaceInv, FolderInv
<1>5. BarInv(c)'
    BY DEF Good, BarInv, InContainer, Answered, PlaceInv, FolderInv
<1>6. runtime' = runtime
    OBVIOUS
<1>7. ASSUME NEW d \in Conversions \ {c} PROVE Untouched(d)
    BY DEF Untouched
<1>8. ProfileStep(c)
    BY DEF ProfileStep, Writers
<1>9. QED BY <1>1, <1>2, <1>3, <1>4, <1>5, <1>6, <1>7, <1>8 DEF Kept, Good

LEMMA RemoveResultKept ==
    ASSUME Inv, NEW c \in Conversions, RemoveResult(c)
    PROVE  Kept(c)
<1> USE DEF RemoveResult, GoTo, SafeDir, commandVars
<1>1. TypeOK'
    OBVIOUS
<1>2. PlaceInv(c)'
    BY DEF Good, PlaceInv, InContainer, InProcess, FolderInv, OutputInv, BarInv
<1>3. FolderInv(c)'
    BY DEF Good, FolderInv, InContainer, BeforeRun, Answered, PlaceInv, OutputInv
<1>4. OutputInv(c)'
    BY DEF Good, OutputInv, InContainer, Delivering, PlaceInv, FolderInv
<1>5. BarInv(c)'
    BY DEF Good, BarInv, InContainer, Answered, PlaceInv, FolderInv
<1>6. runtime' = runtime
    OBVIOUS
<1>7. ASSUME NEW d \in Conversions \ {c} PROVE Untouched(d)
    BY DEF Untouched
<1>8. ProfileStep(c)
    BY DEF ProfileStep, Writers
<1>9. QED BY <1>1, <1>2, <1>3, <1>4, <1>5, <1>6, <1>7, <1>8 DEF Kept, Good

LEMMA FailToDeliverKept ==
    ASSUME Inv, NEW c \in Conversions, FailToDeliver(c)
    PROVE  Kept(c)
<1> USE DEF FailToDeliver, GoTo, Tell, GiveUp, SafeDir, commandVars, HasResult
<1>1. TypeOK'
    OBVIOUS
<1>2. PlaceInv(c)'
    BY DEF Good, PlaceInv, InContainer, InProcess, FolderInv, OutputInv, BarInv
<1>3. FolderInv(c)'
    BY DEF Good, FolderInv, InContainer, BeforeRun, Answered, PlaceInv, OutputInv
<1>4. OutputInv(c)'
    BY DEF Good, OutputInv, InContainer, Delivering, PlaceInv, FolderInv
<1>5. BarInv(c)'
    BY DEF Good, BarInv, InContainer, Answered, PlaceInv, FolderInv
<1>6. runtime' = runtime
    OBVIOUS
<1>7. ASSUME NEW d \in Conversions \ {c} PROVE Untouched(d)
    BY DEF Untouched
<1>8. ProfileStep(c)
    BY DEF ProfileStep, Writers
<1>9. QED BY <1>1, <1>2, <1>3, <1>4, <1>5, <1>6, <1>7, <1>8 DEF Kept, Good

LEMMA CleanUpKept ==
    ASSUME Inv, NEW c \in Conversions, CleanUp(c)
    PROVE  Kept(c)
<1> USE DEF CleanUp, GoTo, Tell, SafeDir, commandVars
<1>1. TypeOK'
    OBVIOUS
<1>2. PlaceInv(c)'
    BY DEF Good, PlaceInv, InContainer, InProcess, FolderInv, OutputInv, BarInv
<1>3. FolderInv(c)'
    BY DEF Good, FolderInv, InContainer, BeforeRun, Answered, PlaceInv, OutputInv
<1>4. OutputInv(c)'
    BY DEF Good, OutputInv, InContainer, Delivering, PlaceInv, FolderInv
<1>5. BarInv(c)'
    BY DEF Good, BarInv, InContainer, Answered, PlaceInv, FolderInv
<1>6. runtime' = runtime
    OBVIOUS
<1>7. ASSUME NEW d \in Conversions \ {c} PROVE Untouched(d)
    BY DEF Untouched
<1>8. ProfileStep(c)
    BY DEF ProfileStep, Writers
<1>9. QED BY <1>1, <1>2, <1>3, <1>4, <1>5, <1>6, <1>7, <1>8 DEF Kept, Good

LEMMA AnswerKept ==
    ASSUME Inv, NEW c \in Conversions, Answer(c)
    PROVE  Kept(c)
<1> USE DEF Answer, GoTo, Tell, GiveUp, SafeDir, commandVars, Sweeps
<1>1. TypeOK'
    <2>1. place' \in [Conversions -> Places] /\ runtime' \in {"none", "native", "plain", "seccomp"}
        <3>1. CASE place[c] = "sweep_ok"
            BY <3>1
        <3>2. CASE place[c] = "sweep_failed"
            BY <3>2
        <3>3. QED BY <3>1, <3>2
    <2>2. told' \in [Conversions -> Percentages]
        OBVIOUS
    <2>3. child' \in [Conversions -> {"none", "starting", "running", "moving", "moved"} \cup Exited]
        OBVIOUS
    <2>4. owed' \in [Conversions -> [Pipes -> Nat]] /\ pipe' \in [Conversions -> [Pipes -> 0 .. PipeSize]]
        OBVIOUS
    <2>5. handover' \in [Conversions -> BOOLEAN] /\ profile' \in {"absent", "empty", "whole"}
        OBVIOUS
    <2>6. folder' \in [Conversions -> {"absent", "empty"} \cup Conversions]
        OBVIOUS
    <2>7. output' \in [Conversions -> {"absent", "old", "torn"} \cup Conversions]
        OBVIOUS
    <2>8. spoiled' \in [Conversions -> {"nothing", "delivery", "sweep"}]
        OBVIOUS
    <2>9. QED BY <2>1, <2>2, <2>3, <2>4, <2>5, <2>6, <2>7, <2>8
<1>2. PlaceInv(c)'
    BY DEF Good, PlaceInv, InContainer, InProcess, FolderInv, OutputInv, BarInv
<1>3. FolderInv(c)'
    BY DEF Good, FolderInv, InContainer, BeforeRun, Answered, PlaceInv, OutputInv
<1>4. OutputInv(c)'
    BY DEF Good, OutputInv, InContainer, Delivering, PlaceInv, FolderInv
<1>5. BarInv(c)'
    BY DEF Good, BarInv, InContainer, Answered, PlaceInv, FolderInv
<1>6. runtime' = runtime
    OBVIOUS
<1>7. ASSUME NEW d \in Conversions \ {c} PROVE Untouched(d)
    BY DEF Untouched
<1>8. ProfileStep(c)
    BY DEF ProfileStep, Writers
<1>9. QED BY <1>1, <1>2, <1>3, <1>4, <1>5, <1>6, <1>7, <1>8 DEF Kept, Good

LEMMA CrashKept ==
    ASSUME Inv, NEW c \in Conversions, Crash(c)
    PROVE  Kept(c)
<1> USE DEF Crash, GoTo
<1>1. TypeOK'
    OBVIOUS
<1>2. PlaceInv(c)'
    BY DEF Good, PlaceInv, InContainer, InProcess, FolderInv, OutputInv, BarInv
<1>3. FolderInv(c)'
    BY DEF Good, FolderInv, InContainer, BeforeRun, Answered, PlaceInv, OutputInv
<1>4. OutputInv(c)'
    BY DEF Good, OutputInv, InContainer, Delivering, PlaceInv, FolderInv
<1>5. BarInv(c)'
    BY DEF Good, BarInv, InContainer, Answered, PlaceInv, FolderInv
<1>6. runtime' = runtime
    OBVIOUS
<1>7. ASSUME NEW d \in Conversions \ {c} PROVE Untouched(d)
    BY DEF Untouched
<1>8. ProfileStep(c)
    BY DEF ProfileStep, Writers
<1>9. QED BY <1>1, <1>2, <1>3, <1>4, <1>5, <1>6, <1>7, <1>8 DEF Kept, Good

LEMMA PrintLineKept ==
    ASSUME Inv, NEW c \in Conversions, NEW p \in Pipes, PrintLine(c, p)
    PROVE  Kept(c)
<1> USE DEF PrintLine
<1>1. TypeOK'
    OBVIOUS
<1>2. PlaceInv(c)'
    BY DEF Good, PlaceInv, InContainer, InProcess, FolderInv, OutputInv, BarInv
<1>3. FolderInv(c)'
    BY DEF Good, FolderInv, InContainer, BeforeRun, Answered, PlaceInv, OutputInv
<1>4. OutputInv(c)'
    BY DEF Good, OutputInv, InContainer, Delivering, PlaceInv, FolderInv
<1>5. BarInv(c)'
    BY DEF Good, BarInv, InContainer, Answered, PlaceInv, FolderInv
<1>6. runtime' = runtime
    OBVIOUS
<1>7. ASSUME NEW d \in Conversions \ {c} PROVE Untouched(d)
    BY DEF Untouched
<1>8. ProfileStep(c)
    BY DEF ProfileStep, Writers
<1>9. QED BY <1>1, <1>2, <1>3, <1>4, <1>5, <1>6, <1>7, <1>8 DEF Kept, Good

LEMMA ReadLineKept ==
    ASSUME Inv, NEW c \in Conversions, NEW p \in Pipes, ReadLine(c, p)
    PROVE  Kept(c)
<1> USE DEF ReadLine, Tell, HasLine, LastLine
<1>1. TypeOK'
    <2>1. place' \in [Conversions -> Places] /\ runtime' \in {"none", "native", "plain", "seccomp"}
        OBVIOUS
    <2>2. told' \in [Conversions -> Percentages]
        <3>1. told' = told \/ \E n \in {50, 100} : told' = [told EXCEPT ![c] = n]
            OBVIOUS
        <3>2. told \in [Conversions -> Percentages]
            OBVIOUS
        <3>3. QED BY ONLY <3>1, <3>2 DEF Percentages
    <2>3. child' \in [Conversions -> {"none", "starting", "running", "moving", "moved"} \cup Exited]
        OBVIOUS
    <2>4. owed' \in [Conversions -> [Pipes -> Nat]] /\ pipe' \in [Conversions -> [Pipes -> 0 .. PipeSize]]
        OBVIOUS
    <2>5. handover' \in [Conversions -> BOOLEAN] /\ profile' \in {"absent", "empty", "whole"}
        OBVIOUS
    <2>6. folder' \in [Conversions -> {"absent", "empty"} \cup Conversions]
        OBVIOUS
    <2>7. output' \in [Conversions -> {"absent", "old", "torn"} \cup Conversions]
        OBVIOUS
    <2>8. spoiled' \in [Conversions -> {"nothing", "delivery", "sweep"}]
        OBVIOUS
    <2>9. QED BY <2>1, <2>2, <2>3, <2>4, <2>5, <2>6, <2>7, <2>8
<1>2. PlaceInv(c)'
    BY DEF Good, PlaceInv, InContainer, InProcess, FolderInv, OutputInv, BarInv
<1>3. FolderInv(c)'
    BY DEF Good, FolderInv, InContainer, BeforeRun, Answered, PlaceInv, OutputInv
<1>4. OutputInv(c)'
    BY DEF Good, OutputInv, InContainer, Delivering, PlaceInv, FolderInv
<1>5. BarInv(c)'
    BY DEF Good, BarInv, InContainer, Answered, PlaceInv, FolderInv
<1>6. runtime' = runtime
    OBVIOUS
<1>7. ASSUME NEW d \in Conversions \ {c} PROVE Untouched(d)
    BY DEF Untouched
<1>8. ProfileStep(c)
    BY DEF ProfileStep, Writers
<1>9. QED BY <1>1, <1>2, <1>3, <1>4, <1>5, <1>6, <1>7, <1>8 DEF Kept, Good

HIDE ConversionAssumption DEF Inv, TypeOK, Places, Commands, Ended, Exited, Percentages, Quiet, Pipes

-----------------------------------------------------------------------------
(* The invariant holds, and with it what it implies.                       *)

LEMMA StepKept ==
    ASSUME Inv, NEW c \in Conversions,
           \/ Reject(c) \/ Convert(c) \/ ConvertStep(c) \/ ReaderStep(c) \/ CommandStep(c)
           \/ DieCommand(c) \/ Crash(c)
    PROVE  Kept(c)
<1>1. CASE ConvertStep(c)
    BY <1>1, ChooseRuntimeKept, SpawnKept, ImageFoundKept, ImageMissingKept, PulledKept, FailToPrepareKept,
       CheckProfileKept, CreateProfileKept, WriteProfileKept, MakeFolderKept, SandboxFailedKept,
       NativeReturnedKept, SandboxReturnedKept, RemoveOldKept, ResultMissingKept, StartCopyKept,
       FinishCopyKept, RemoveResultKept, FailToDeliverKept, CleanUpKept, AnswerKept DEF ConvertStep
<1>2. CASE ReaderStep(c)
    BY <1>2, ReadLineKept DEF ReaderStep
<1>3. CASE CommandStep(c)
    BY <1>3, StartSandboxKept, StoreResultKept, StartMoveKept, FinishMoveKept, ExitCommandKept, PrintLineKept
       DEF CommandStep
<1>4. QED BY <1>1, <1>2, <1>3, RejectKept, ConvertKept, DieCommandKept, CrashKept

LEMMA StutterKept ==
    ASSUME Inv, UNCHANGED vars
    PROVE  Inv'
BY DEF Inv, vars, commandVars, TypeOK, IncompleteProfileHasWriter, Good, PlaceInv, FolderInv, OutputInv,
       BarInv, Answered, InContainer

LEMMA Invariance == Spec => []Inv
<1>1. Inv /\ [Next]_vars => Inv'
    <2>1. ASSUME Inv, Next PROVE Inv'
        BY <2>1, StepKept, KeptIsEnough DEF Next
    <2>2. QED BY <2>1, StutterKept
<1>2. QED BY InitInv, <1>1, PTL DEF Spec

\* The state of a conversion, of its command and of the files stays well typed.
THEOREM TypeCorrectness == Spec => []TypeOK
<1>1. Inv => TypeOK
    BY DEF Inv
<1>2. QED BY Invariance, <1>1, PTL

\* Whatever was missing on the way, the folder of an answered conversion is gone unless
\* a file operation of the delivery or of the sweep has failed (process).
THEOREM FoldersAreSwept == Spec => []FoldersSwept
<1>1. Inv => FoldersSwept
    BY DEF Inv, Good, FolderInv, FoldersSwept, SafeDir
<1>2. QED BY Invariance, <1>1, PTL

\* The last percentage of an answered conversion is 100, on every path (convert, install,
\* process, exec_crt_command).
THEOREM BarsAreFilled == Spec => []BarFilled
<1>1. Inv => BarFilled
    BY DEF Inv, Good, BarInv, BarFilled
<1>2. QED BY Invariance, <1>1, PTL

\* A profile that is not whole is being written, or was left by a conversion that was
\* killed or could not write it, however many conversions share it.
THEOREM ProfileHasWriter == Spec => []IncompleteProfileHasWriter
<1>1. Inv => IncompleteProfileHasWriter
    BY DEF Inv
<1>2. QED BY Invariance, <1>1, PTL

-----------------------------------------------------------------------------
(* The refinement of Sanitization: every step of a conversion is one of the *)
(* promise, or leaves its phase and its output alone.                      *)

Going(c) == place[c] \notin {"idle", "ok", "rejected", "failed"}

LEMMA PhaseOf ==
    ASSUME NEW c
    PROVE  /\ place[c] = "idle" => Phase(c) = "idle"
           /\ place[c] = "ok" => Phase(c) = "ok"
           /\ place[c] \in {"rejected", "failed"} => Phase(c) = "failed"
           /\ Going(c) /\ handover[c] => Phase(c) = "delivering"
           /\ Going(c) /\ ~handover[c] => Phase(c) = "working"
<1>1. place[c] = "idle" => Phase(c) = "idle"
    BY Zenon DEF Phase
<1>2. place[c] = "ok" => Phase(c) = "ok"
    BY Zenon DEF Phase
<1>3. place[c] \in {"rejected", "failed"} => Phase(c) = "failed"
    BY Zenon DEF Phase
<1>4. Going(c) => Phase(c) = IF handover[c] THEN "delivering" ELSE "working"
    BY Zenon DEF Phase, Going
<1>5. QED BY <1>1, <1>2, <1>3, <1>4

LEMMA PhaseAfter ==
    ASSUME NEW c
    PROVE  /\ place'[c] = "ok" => Phase(c)' = "ok"
           /\ place'[c] \in {"rejected", "failed"} => Phase(c)' = "failed"
           /\ Going(c)' /\ handover'[c] => Phase(c)' = "delivering"
           /\ Going(c)' /\ ~handover'[c] => Phase(c)' = "working"
<1>1. place'[c] = "ok" => Phase(c)' = "ok"
    BY Zenon DEF Phase
<1>2. place'[c] \in {"rejected", "failed"} => Phase(c)' = "failed"
    BY Zenon DEF Phase
<1>3. Going(c)' => Phase(c)' = IF handover'[c] THEN "delivering" ELSE "working"
    BY Zenon DEF Phase, Going
<1>4. QED BY <1>1, <1>2, <1>3

\* The ways in which a step of c may change its phase and its output.
Promised(c, before, after) ==
    \/ before = after /\ output'[c] = output[c]
    \/ before = "idle" /\ after = "working" /\ output'[c] = output[c]
    \/ before = "working" /\ after = "delivering" /\ output'[c] \in {output[c], "torn"}
    \/ before = "delivering" /\ after = "delivering" /\ output'[c] \in {"absent", "torn", c}
    \/ before = "delivering" /\ after = "ok" /\ output[c] = c /\ output'[c] = output[c]
    \/ before \in {"idle", "working", "delivering"} /\ after = "failed" /\ output'[c] = output[c]

Phases == [c \in Conversions |-> Phase(c)]

LEMMA PromisedStep ==
    ASSUME Inv, NEW c \in Conversions, Kept(c), Promised(c, Phase(c), Phase(c)')
    PROVE  [Promise!Next]_(Promise!vars)
<1> DEFINE ph == Phases
<1> DEFINE v == Phase(c)'
<1>1. /\ output \in [Conversions -> {"absent", "old", "torn"} \cup Conversions]
      /\ output' \in [Conversions -> {"absent", "old", "torn"} \cup Conversions]
    BY DEF Inv, Kept, TypeOK
<1>2. output' = [output EXCEPT ![c] = output'[c]]
    BY <1>1 DEF Kept, Untouched
<1>3. \A d \in Conversions \ {c} : Phase(d)' = Phase(d)
    <2>1. TAKE d \in Conversions \ {c}
    <2>2. place'[d] = place[d] /\ handover'[d] = handover[d]
        BY DEF Kept, Untouched
    <2>3. QED BY <2>2, Zenon DEF Phase
<1>4. Phases' = [Phases EXCEPT ![c] = v]
    BY <1>3 DEF Phases
<1>5. Phases[c] = Phase(c)
    BY DEF Phases
<1>6. CASE Phase(c) = v /\ output'[c] = output[c]
    <2>1. output' = output
        BY <1>1, <1>2, <1>6
    <2>2. Phases' = Phases
        BY <1>3, <1>6 DEF Phases
    <2>3. QED BY <2>1, <2>2 DEF Promise!vars, Phases
<1>7. CASE Phase(c) = "idle" /\ v = "working" /\ output'[c] = output[c]
    <2>1. output' = output
        BY <1>1, <1>2, <1>7
    <2>2. Promise!Begin(c)
        BY <1>4, <1>5, <1>7, <2>1 DEF Promise!Begin, Phases
    <2>3. QED BY <2>2 DEF Promise!Next
<1>8. CASE Phase(c) = "working" /\ v = "delivering" /\ output'[c] \in {output[c], "torn"}
    <2>1. output' \in {output, [output EXCEPT ![c] = "torn"]}
        BY <1>1, <1>2, <1>8
    <2>2. Promise!HandOver(c)
        BY <1>4, <1>5, <1>8, <2>1 DEF Promise!HandOver, Phases
    <2>3. QED BY <2>2 DEF Promise!Next
<1>9. CASE Phase(c) = "delivering" /\ v = "delivering" /\ output'[c] \in {"absent", "torn", c}
    <2>1. Phases' = Phases
        BY <1>3, <1>9 DEF Phases
    <2>2. Promise!Write(c)
        BY <1>2, <1>5, <1>9, <2>1 DEF Promise!Write, Phases
    <2>3. QED BY <2>2 DEF Promise!Next
<1>10. CASE Phase(c) = "delivering" /\ v = "ok" /\ output[c] = c /\ output'[c] = output[c]
    <2>1. output' = output
        BY <1>1, <1>2, <1>10
    <2>2. Promise!Succeed(c)
        BY <1>4, <1>5, <1>10, <2>1 DEF Promise!Succeed, Phases
    <2>3. QED BY <2>2 DEF Promise!Next
<1>11. CASE Phase(c) \in {"idle", "working", "delivering"} /\ v = "failed" /\ output'[c] = output[c]
    <2>1. output' = output
        BY <1>1, <1>2, <1>11
    <2>2. Promise!Fail(c)
        BY <1>4, <1>5, <1>11, <2>1 DEF Promise!Fail, Phases
    <2>3. QED BY <2>2 DEF Promise!Next
<1>12. QED BY <1>6, <1>7, <1>8, <1>9, <1>10, <1>11 DEF Promised

Step(c) == Promised(c, Phase(c), Phase(c)')

\* A step on the way that leaves the output alone is a stutter,
LEMMA OnTheWay ==
    ASSUME NEW c \in Conversions, Going(c), Going(c)', handover'[c] = handover[c], output'[c] = output[c]
    PROVE  Step(c)
BY PhaseOf, PhaseAfter DEF Step, Promised

\* or hands the document over,
LEMMA HandsOver ==
    ASSUME Inv, NEW c \in Conversions, Going(c), Going(c)', handover'[c], output'[c] \in {output[c], "torn"}
    PROVE  Step(c)
BY PhaseOf, PhaseAfter DEF Step, Promised

\* one after the handover may write,
LEMMA Writes ==
    ASSUME NEW c \in Conversions, Going(c), Going(c)', handover[c], handover'[c],
           output'[c] \in {output[c], "absent", "torn", c}
    PROVE  Step(c)
BY PhaseOf, PhaseAfter DEF Step, Promised

\* and every end but "ok" is a failure.
LEMMA Fails ==
    ASSUME Inv, NEW c \in Conversions, Going(c) \/ place[c] = "idle",
           place'[c] \in {"rejected", "failed"}, output'[c] = output[c]
    PROVE  Step(c)
BY PhaseOf, PhaseAfter DEF Step, Promised

LEMMA Succeeds ==
    ASSUME NEW c \in Conversions, Going(c), handover[c], output[c] = c,
           place'[c] = "ok", output'[c] = output[c]
    PROVE  Step(c)
BY PhaseOf, PhaseAfter DEF Step, Promised

LEMMA ConvertPromised ==
    ASSUME Inv, NEW c \in Conversions, Convert(c)
    PROVE  Step(c)
<1>1. /\ place[c] = "idle" /\ place'[c] = "runtime" /\ ~handover[c]
      /\ handover' = handover /\ output' = output
    BY DEF Inv, TypeOK, Convert, GoTo, Good, OutputInv
<1>2. Going(c)' /\ ~handover'[c]
    BY <1>1 DEF Going
<1>3. QED BY <1>1, <1>2, PhaseOf, PhaseAfter DEF Step, Promised

\* Before the sandbox has run, and in its readers.
LEMMA PreparationPromised ==
    ASSUME Inv, NEW c \in Conversions,
           \/ ChooseRuntime(c) \/ Spawn(c) \/ ImageFound(c) \/ ImageMissing(c) \/ Pulled(c)
           \/ FailToPrepare(c) \/ CheckProfile(c) \/ CreateProfile(c) \/ WriteProfile(c)
           \/ MakeFolder(c) \/ ReaderStep(c) \/ Crash(c)
    PROVE  Step(c)
<1>1. /\ Going(c)
      /\ handover'[c] = handover[c] /\ output'[c] = output[c]
      /\ Going(c)' \/ place'[c] = "failed"
    BY DEF Inv, TypeOK, Going, ChooseRuntime, Spawn, ImageFound, ImageMissing, Pulled, FailToPrepare, CheckProfile,
           CreateProfile, WriteProfile, MakeFolder, ReaderStep, ReadLine, Crash, GoTo, GiveUp, Commands, Ended
<1>2. QED BY <1>1, OnTheWay, Fails

LEMMA CommandPromised ==
    ASSUME Inv, NEW c \in Conversions, CommandStep(c) \/ DieCommand(c)
    PROVE  Step(c)
<1> USE DEF Inv, TypeOK
<1>1. /\ Going(c)
      /\ place'[c] = place[c] /\ Going(c)'
    <2>1. child[c] # "none"
        BY DEF CommandStep, DieCommand, StartSandbox, StoreResult, StartMove, FinishMove, ExitCommand, PrintLine
    <2>2. Going(c)
        BY <2>1 DEF Good, PlaceInv, Going, Commands
    <2>3. place'[c] = place[c]
        BY DEF CommandStep, DieCommand, StartSandbox, StoreResult, StartMove, FinishMove, ExitCommand, PrintLine
    <2>4. QED BY <2>2, <2>3 DEF Going
<1>2. CASE StartSandbox(c) \/ StoreResult(c) \/ \E p \in Pipes : PrintLine(c, p)
    BY <1>1, <1>2, OnTheWay DEF StartSandbox, StoreResult, PrintLine
<1>3. CASE StartMove(c)
    BY <1>1, <1>3, HandsOver DEF StartMove
<1>4. CASE FinishMove(c)
    BY <1>1, <1>4, Writes DEF FinishMove, Good, OutputInv
<1>5. CASE ExitCommand(c)
    <2>1. output'[c] = output[c] /\ handover'[c] \in {handover[c], TRUE}
        BY <1>5 DEF ExitCommand
    <2>2. QED BY <1>1, <2>1, OnTheWay, HandsOver
<1>6. CASE DieCommand(c)
    <2>1. output'[c] = output[c] /\ handover'[c] \in {handover[c], TRUE}
        BY <1>6 DEF DieCommand
    <2>2. QED BY <1>1, <2>1, OnTheWay, HandsOver
<1>7. QED BY <1>2, <1>3, <1>4, <1>5, <1>6 DEF CommandStep

LEMMA DeliveryPromised ==
    ASSUME Inv, NEW c \in Conversions,
           \/ SandboxFailed(c) \/ NativeReturned(c) \/ SandboxReturned(c) \/ RemoveOld(c) \/ ResultMissing(c)
           \/ StartCopy(c) \/ FinishCopy(c) \/ RemoveResult(c) \/ FailToDeliver(c) \/ CleanUp(c) \/ Answer(c)
    PROVE  Step(c)
<1> USE DEF Inv, TypeOK, GoTo, GiveUp
<1>1. Going(c) /\ handover' = handover
    BY DEF Going, SandboxFailed, NativeReturned, SandboxReturned, RemoveOld, ResultMissing, StartCopy, FinishCopy,
           RemoveResult, FailToDeliver, CleanUp, Answer
<1>2. CASE \/ SandboxFailed(c) \/ SandboxReturned(c) \/ ResultMissing(c) \/ RemoveResult(c)
           \/ FailToDeliver(c) \/ CleanUp(c)
    <2>1. output' = output /\ (place'[c] = "failed" \/ Going(c)')
        BY <1>2 DEF Going, SandboxFailed, SandboxReturned, ResultMissing, RemoveResult, FailToDeliver, CleanUp
    <2>2. QED BY <1>1, <2>1, OnTheWay, Fails
<1>3. CASE NativeReturned(c)
    <2>1. handover[c] /\ output[c] = c /\ output' = output /\ place'[c] \in {"ok", "failed"}
        BY <1>3 DEF NativeReturned, Returns, Good, OutputInv
    <2>2. QED BY <1>1, <2>1, Succeeds, Fails
<1>4. CASE RemoveOld(c) \/ StartCopy(c) \/ FinishCopy(c)
    <2>1. handover[c] /\ Going(c)' /\ output'[c] \in {output[c], "absent", "torn", c}
        BY <1>4 DEF Going, RemoveOld, StartCopy, FinishCopy, Good, OutputInv, FolderInv, Delivering, SafeDir
    <2>2. QED BY <1>1, <2>1, Writes
<1>5. CASE Answer(c)
    <2>1. output' = output
        BY <1>5 DEF Answer
    <2>2. CASE place[c] = "sweep_ok"
        <3>1. handover[c] /\ output[c] = c /\ place'[c] = "ok"
            BY <1>5, <2>2 DEF Answer, Good, OutputInv, Delivering
        <3>2. QED BY <1>1, <2>1, <3>1, Succeeds
    <2>3. CASE place[c] = "sweep_failed"
        <3>1. place'[c] = "failed"
            BY <1>5, <2>3 DEF Answer
        <3>2. QED BY <1>1, <2>1, <3>1, Fails
    <2>4. QED BY <1>5, <2>2, <2>3 DEF Answer
<1>6. QED BY <1>2, <1>3, <1>4, <1>5

LEMMA RejectPromised ==
    ASSUME Inv, NEW c \in Conversions, Reject(c)
    PROVE  Step(c)
BY Fails DEF Inv, TypeOK, Reject, GoTo

\* convert implements Sanitization: "ok" stands for the complete document of this very
\* conversion, and nothing is written before the handover or after the answer.
THEOREM KeepsThePromise == Spec => ImplementsSanitization
<1>1. Init => Promise!Init
    BY PhaseOf DEF Init, Promise!Init, Phase
<1>2. Inv /\ Next => [Promise!Next]_(Promise!vars)
    <2>1. ASSUME Inv, NEW c \in Conversions,
                 \/ Reject(c) \/ Convert(c) \/ ConvertStep(c) \/ ReaderStep(c) \/ CommandStep(c)
                 \/ DieCommand(c) \/ Crash(c)
          PROVE  Step(c)
        BY <2>1, RejectPromised, ConvertPromised, PreparationPromised, CommandPromised, DeliveryPromised
           DEF ConvertStep
    <2>2. QED BY <2>1, StepKept, PromisedStep DEF Next, Step
<1>3. UNCHANGED vars => UNCHANGED (Promise!vars)
    <2>1. ASSUME UNCHANGED vars, NEW c \in Conversions PROVE Phase(c)' = Phase(c)
        BY <2>1, Zenon DEF vars, Phase
    <2>2. QED BY <2>1 DEF vars, Promise!vars
<1>4. QED BY Invariance, <1>1, <1>2, <1>3, PTL DEF Spec, ImplementsSanitization, Promise!Spec

===============================================================================
