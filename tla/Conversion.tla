------------------------------ MODULE Conversion ------------------------------
(***************************************************************************)
(* The conversion of a document by the clients (convert of                 *)
(* entrusted_client/src/container.rs and the runtimes behind it): the      *)
(* image is looked up and downloaded, the sandbox is run with a folder of  *)
(* its own, its result is copied to the output path, the folder is swept.  *)
(* entrusted-cli does it once, the desktop client in its worker thread, and*)
(* the web server in one entrusted-cli per upload, so that several         *)
(* conversions share the temporary directory and the seccomp profile in it.*)
(*                                                                         *)
(* One action stands for the code between two accesses to the file system, *)
(* to the pipes of the command or to the sender of progress messages.      *)
(***************************************************************************)
EXTENDS Naturals

CONSTANTS
    Conversions,  \* calls of convert, each in its own process or thread
    Runtimes,     \* the runtimes that container_runtime_path may find
    PipeSize,     \* lines that fit into a pipe
    MaxLines,     \* bound: lines that a command of each conversion prints on a pipe
    OldOutputs,   \* the conversions whose output path holds a document already
    Faults,       \* TRUE: file operations and the start of commands may fail
    Crashes       \* TRUE: the converting process may be killed

ASSUME ConversionAssumption ==
    /\ Runtimes \subseteq {"none", "native", "plain", "seccomp"}
    /\ Conversions \cap {"absent", "empty", "old", "torn"} = {}
    /\ PipeSize \in Nat \ {0}
    /\ MaxLines \in [Conversions -> Nat \ {0}]
    /\ OldOutputs \subseteq Conversions
    /\ Faults \in BOOLEAN
    /\ Crashes \in BOOLEAN

VARIABLES
    place,    \* where convert is
    runtime,  \* of this machine: "native" in Flatpak, "seccomp" a container with the profile
    told,     \* the percentage of the last progress message
    child,    \* the running command of exec_crt_command
    owed,     \* lines that it still has to print on each pipe
    pipe,     \* lines in each pipe
    handover, \* history: the sandbox has finished the document
    profile,  \* the seccomp profile in the temporary directory, shared by all
    folder,   \* the folders safe/<uuid>, and the document in each
    output,   \* the output path; a conversion stands for its sanitized document
    spoiled   \* history: what has failed, "delivery" of the result or "sweep" of the folder

commandVars == <<child, owed, pipe>>
vars == <<place, runtime, told, commandVars, handover, profile, folder, output, spoiled>>

-----------------------------------------------------------------------------
Pipes == {"out", "err"}
Commands == {"inspect", "pull", "run"}
Exited == {"exit_ok", "exit_err"}
Ended == {"rejected", "ok", "failed"}
Percentages == {0, 1, 5, 50, 100} \* 50 stands for those of the sandbox below 100
Places == {"idle", "runtime", "prepare", "create", "write", "folder", "replace", "copy",
           "copying", "copied", "cleanup", "sweep_ok", "sweep_failed", "crashed"}
             \cup Commands \cup Ended

Quiet == [p \in Pipes |-> 0]
InContainer == runtime \in {"plain", "seccomp"}

\* The name is a fresh UUID.
OneForAll(c) == CHOOSE d \in Conversions : TRUE \* mutant of SafeDir
SafeDir(c) == c

GoTo(c, l) == place' = [place EXCEPT ![c] = l]
Tell(c, percent) == told' = [told EXCEPT ![c] = percent]
GiveUp(c) == GoTo(c, "failed") /\ Tell(c, 100)

Init ==
    /\ place = [c \in Conversions |-> "idle"]
    /\ runtime \in Runtimes
    /\ told = [c \in Conversions |-> 0]
    /\ child = [c \in Conversions |-> "none"]
    /\ owed = [c \in Conversions |-> Quiet]
    /\ pipe = [c \in Conversions |-> Quiet]
    /\ handover = [c \in Conversions |-> FALSE]
    /\ profile = "absent"
    /\ folder = [d \in Conversions |-> "absent"]
    /\ output = [c \in Conversions |-> IF c \in OldOutputs THEN "old" ELSE "absent"]
    /\ spoiled = [c \in Conversions |-> "nothing"]

-----------------------------------------------------------------------------
(* convert: the input, the runtime.                                        *)

\* The input, its languages or its password are refused, before any message.
Reject(c) ==
    /\ place[c] = "idle"
    /\ GoTo(c, "rejected")
    /\ UNCHANGED <<runtime, told, commandVars, handover, profile, folder, output, spoiled>>

Convert(c) ==
    /\ place[c] = "idle"
    /\ GoTo(c, "runtime")
    /\ Tell(c, 1)
    /\ UNCHANGED <<runtime, commandVars, handover, profile, folder, output, spoiled>>

ChooseRuntime(c) ==
    /\ place[c] = "runtime"
    /\ \/ runtime = "none" /\ GiveUp(c)
       \/ runtime = "native" /\ GoTo(c, "run") /\ UNCHANGED told
       \/ InContainer /\ GoTo(c, "inspect") /\ UNCHANGED told
    /\ UNCHANGED <<runtime, commandVars, handover, profile, folder, output, spoiled>>

-----------------------------------------------------------------------------
(* exec_crt_command: the command, its two pipes and their reader threads.  *)

\* A command that cannot be spawned is an error like its exit with one.
Spawn(c) ==
    /\ place[c] \in Commands
    /\ child[c] = "none"
    /\ Tell(c, 1)
    /\ \/ /\ child' = [child EXCEPT ![c] = IF place[c] = "run" THEN "starting" ELSE "running"]
          /\ \E n \in 1 .. MaxLines[c], m \in 0 .. MaxLines[c] :
                owed' = [owed EXCEPT ![c] = [p \in Pipes |-> IF p = "out" THEN n ELSE m]]
       \/ Faults /\ child' = [child EXCEPT ![c] = "exit_err"] /\ UNCHANGED owed
    /\ UNCHANGED <<place, runtime, pipe, handover, profile, folder, output, spoiled>>

\* A container starts only with a profile that can be parsed.
StartSandbox(c) ==
    /\ child[c] = "starting"
    /\ child' = [child EXCEPT ![c] = IF runtime = "seccomp" /\ profile # "whole"
                                     THEN "exit_err" ELSE "running"]
    /\ UNCHANGED <<place, runtime, told, owed, pipe, handover, profile, folder, output, spoiled>>

\* The sandbox prints its last line on stdout when its result is in place.
PrintLine(c, p) ==
    /\ child[c] \in {"running", "moved"}
    /\ owed[c][p] > IF place[c] = "run" /\ child[c] = "running" /\ p = "out" THEN 1 ELSE 0
    /\ pipe[c][p] < PipeSize
    /\ owed' = [owed EXCEPT ![c][p] = @ - 1]
    /\ pipe' = [pipe EXCEPT ![c][p] = @ + 1]
    /\ UNCHANGED <<place, runtime, told, child, handover, profile, folder, output, spoiled>>

\* The sandbox puts its result into the folder mounted at /safezone.
StoreResult(c) ==
    /\ place[c] \in {"run", "crashed"} /\ child[c] = "running" /\ InContainer
    /\ folder[SafeDir(c)] # "absent"
    /\ child' = [child EXCEPT ![c] = "moved"]
    /\ folder' = [folder EXCEPT ![SafeDir(c)] = c]
    /\ UNCHANGED <<place, runtime, told, owed, pipe, handover, profile, output, spoiled>>

\* Without a container it writes the output path itself.
StartMove(c) ==
    /\ place[c] \in {"run", "crashed"} /\ child[c] = "running" /\ runtime = "native"
    /\ child' = [child EXCEPT ![c] = "moving"]
    /\ handover' = [handover EXCEPT ![c] = TRUE]
    /\ output' = [output EXCEPT ![c] = "torn"]
    /\ UNCHANGED <<place, runtime, told, owed, pipe, profile, folder, spoiled>>

FinishMove(c) ==
    /\ child[c] = "moving"
    /\ child' = [child EXCEPT ![c] = "moved"]
    /\ output' = [output EXCEPT ![c] = c]
    /\ UNCHANGED <<place, runtime, told, owed, pipe, handover, profile, folder, spoiled>>

\* With status 0 once everything is printed and the result is stored.
ExitCommand(c) ==
    /\ owed[c] = Quiet
    /\ \/ child[c] = "moved"
       \/ child[c] = "running" /\ place[c] \in {"inspect", "pull"}
    /\ child' = [child EXCEPT ![c] = "exit_ok"]
    /\ handover' = [handover EXCEPT ![c] = @ \/ place[c] = "run"]
    /\ UNCHANGED <<place, runtime, told, owed, pipe, profile, folder, output, spoiled>>

\* It fails or is killed, at any time; the runtime may report the crash of a
\* container as status 0 (the code is prepared for a missing result).
DieCommand(c) ==
    /\ \/ /\ child[c] \in {"running", "moving", "moved"}
          /\ child' = [child EXCEPT ![c] = "exit_err"]
          /\ UNCHANGED <<owed, handover>>
       \/ /\ Faults /\ child[c] = "running" /\ place[c] = "run" /\ InContainer
          /\ child' = [child EXCEPT ![c] = "exit_ok"]
          /\ owed' = [owed EXCEPT ![c] = Quiet]
          /\ handover' = [handover EXCEPT ![c] = TRUE]
    /\ UNCHANGED <<place, runtime, told, pipe, profile, folder, output, spoiled>>

\* One thread per pipe, which sends every line of the sandbox (those of the other
\* commands go to NoOpEventSender).
OutThenErr(c, p) == pipe[c][p] > 0 /\ (p = "out" \/ child[c] \in Exited) \* mutant of HasLine
HasLine(c, p) == pipe[c][p] > 0

LastLine(c) == owed[c].out = 0 /\ pipe[c].out = 1

ReadLine(c, p) ==
    /\ place[c] \in Commands
    /\ HasLine(c, p)
    /\ pipe' = [pipe EXCEPT ![c][p] = @ - 1]
    /\ IF place[c] = "run" /\ p = "out"
       THEN Tell(c, IF LastLine(c) THEN 100 ELSE 50)
       ELSE UNCHANGED told
    /\ UNCHANGED <<place, runtime, child, owed, handover, profile, folder, output, spoiled>>

\* Both threads have been joined and the command has been waited for.
Returns(c, status) == child[c] = status /\ pipe[c] = Quiet
Forget(c) ==
    /\ child' = [child EXCEPT ![c] = "none"]
    /\ owed' = [owed EXCEPT ![c] = Quiet]
    /\ UNCHANGED pipe

-----------------------------------------------------------------------------
(* install: inspect the image, download it if there is none.               *)

ImageFound(c) ==
    /\ place[c] = "inspect" /\ Returns(c, "exit_ok")
    /\ GoTo(c, "prepare") /\ Forget(c)
    /\ UNCHANGED <<runtime, told, handover, profile, folder, output, spoiled>>

ImageMissing(c) ==
    /\ place[c] = "inspect" /\ Returns(c, "exit_err")
    /\ GoTo(c, "pull") /\ Tell(c, 1) /\ Forget(c)
    /\ UNCHANGED <<runtime, handover, profile, folder, output, spoiled>>

QuietPull(c) ==  \* mutant of Pulled
    /\ place[c] = "pull" /\ Forget(c)
    /\ \/ Returns(c, "exit_ok") /\ GoTo(c, "prepare") /\ Tell(c, 5)
       \/ Returns(c, "exit_err") /\ GoTo(c, "failed") /\ UNCHANGED told
    /\ UNCHANGED <<runtime, handover, profile, folder, output, spoiled>>
Pulled(c) ==
    /\ place[c] = "pull" /\ Forget(c)
    /\ \/ Returns(c, "exit_ok") /\ GoTo(c, "prepare") /\ Tell(c, 5)
       \/ Returns(c, "exit_err") /\ GiveUp(c)
    /\ UNCHANGED <<runtime, handover, profile, folder, output, spoiled>>

-----------------------------------------------------------------------------
(* process: the temporary directory, the seccomp profile, the folder.      *)

FailToPrepare(c) ==
    /\ Faults
    /\ place[c] \in {"prepare", "create", "write", "folder"}
    /\ GiveUp(c)
    /\ UNCHANGED <<runtime, commandVars, handover, profile, folder, output, spoiled>>

CreateThenCheck(c) ==  \* mutant of CheckProfile
    /\ place[c] = "prepare"
    /\ profile' = IF runtime = "seccomp" /\ profile = "absent" THEN "empty" ELSE profile
    /\ GoTo(c, "folder")
    /\ UNCHANGED <<runtime, told, commandVars, handover, folder, output, spoiled>>
CheckProfile(c) ==
    /\ place[c] = "prepare"
    /\ GoTo(c, IF runtime = "seccomp" /\ profile = "absent" THEN "create" ELSE "folder")
    /\ UNCHANGED <<runtime, told, commandVars, handover, profile, folder, output, spoiled>>

\* File::create: also empties the profile that another conversion has written.
CreateProfile(c) ==
    /\ place[c] = "create"
    /\ profile' = "empty"
    /\ GoTo(c, "write")
    /\ UNCHANGED <<runtime, told, commandVars, handover, folder, output, spoiled>>

WriteProfile(c) ==
    /\ place[c] = "write"
    /\ profile' = "whole"
    /\ GoTo(c, "folder")
    /\ UNCHANGED <<runtime, told, commandVars, handover, folder, output, spoiled>>

MakeFolder(c) ==
    /\ place[c] = "folder"
    /\ folder' = [folder EXCEPT ![SafeDir(c)] = IF @ = "absent" THEN "empty" ELSE @]
    /\ GoTo(c, "run")
    /\ UNCHANGED <<runtime, told, commandVars, handover, profile, output, spoiled>>

-----------------------------------------------------------------------------
(* process: the sandbox has returned.                                      *)

\* Also after exit codes 137 and 139, which are explained in one more message.
SandboxFailed(c) ==
    /\ place[c] = "run" /\ Returns(c, "exit_err") /\ Forget(c)
    /\ Tell(c, 100)
    /\ GoTo(c, IF InContainer THEN "sweep_failed" ELSE "failed")
    /\ UNCHANGED <<runtime, handover, profile, folder, output, spoiled>>

\* NativeSanitizerRt opens the output to set its times.
NativeReturned(c) ==
    /\ place[c] = "run" /\ runtime = "native" /\ Returns(c, "exit_ok") /\ Forget(c)
    /\ \/ GoTo(c, "ok") /\ UNCHANGED told
       \/ Faults /\ GiveUp(c)
    /\ UNCHANGED <<runtime, handover, profile, folder, output, spoiled>>

SandboxReturned(c) ==
    /\ place[c] = "run" /\ InContainer /\ Returns(c, "exit_ok") /\ Forget(c)
    /\ GoTo(c, "replace")
    /\ UNCHANGED <<runtime, told, handover, profile, folder, output, spoiled>>

\* An error is printed, and the copy is tried all the same.
RemoveOld(c) ==
    /\ place[c] = "replace"
    /\ \/ output' = [output EXCEPT ![c] = "absent"]
       \/ Faults /\ UNCHANGED output
    /\ GoTo(c, "copy")
    /\ UNCHANGED <<runtime, told, commandVars, handover, profile, folder, spoiled>>

HasFolder(c) == folder[SafeDir(c)] # "absent" \* mutant of HasResult
HasResult(c) == folder[SafeDir(c)] \notin {"absent", "empty"}

ResultMissing(c) ==
    /\ place[c] = "copy"
    /\ ~HasResult(c)
    /\ GoTo(c, "sweep_failed")
    /\ UNCHANGED <<runtime, told, commandVars, handover, profile, folder, output, spoiled>>

StartCopy(c) ==
    /\ place[c] = "copy"
    /\ HasResult(c)
    /\ output' = [output EXCEPT ![c] = "torn"]
    /\ GoTo(c, "copying")
    /\ UNCHANGED <<runtime, told, commandVars, handover, profile, folder, spoiled>>

FinishCopy(c) ==
    /\ place[c] = "copying"
    /\ output' = [output EXCEPT ![c] = folder[SafeDir(c)]]
    /\ GoTo(c, "copied")
    /\ UNCHANGED <<runtime, told, commandVars, handover, profile, folder, spoiled>>

\* The result leaves the folder and the output is opened to set its times.
RemoveResult(c) ==
    /\ place[c] = "copied"
    /\ folder' = [folder EXCEPT ![SafeDir(c)] = "empty"]
    /\ GoTo(c, "cleanup")
    /\ UNCHANGED <<runtime, told, commandVars, handover, profile, output, spoiled>>

\* The copy, the removal of the result or the opening of the output fails: `?`
\* returns past the sweep.
FailToDeliver(c) ==
    /\ Faults
    /\ place[c] \in {"copy", "copying", "copied", "cleanup"}
    /\ place[c] = "copy" => HasResult(c)
    /\ GiveUp(c)
    /\ spoiled' = [spoiled EXCEPT ![c] = "delivery"]
    /\ UNCHANGED <<runtime, commandVars, handover, profile, folder, output>>

CleanUp(c) ==
    /\ place[c] = "cleanup"
    /\ \/ folder' = [folder EXCEPT ![SafeDir(c)] = "absent"] /\ UNCHANGED told
       \/ Faults /\ Tell(c, 100) /\ UNCHANGED folder
    /\ GoTo(c, "sweep_ok")
    /\ UNCHANGED <<runtime, commandVars, handover, profile, output, spoiled>>

\* The second cleanup_dir, whose errors are dropped; then convert answers.
SweepOnSuccess(c) == place[c] = "sweep_ok" \* mutant of Sweeps
Sweeps(c) == place[c] \in {"sweep_ok", "sweep_failed"}

Answer(c) ==
    /\ place[c] \in {"sweep_ok", "sweep_failed"}
    /\ \/ /\ folder' = IF Sweeps(c) THEN [folder EXCEPT ![SafeDir(c)] = "absent"] ELSE folder
          /\ UNCHANGED spoiled
       \/ /\ Faults /\ folder[SafeDir(c)] # "absent"
          /\ spoiled' = [spoiled EXCEPT ![c] = "sweep"]
          /\ UNCHANGED folder
    /\ IF place[c] = "sweep_ok" THEN GoTo(c, "ok") /\ UNCHANGED told ELSE GiveUp(c)
    /\ UNCHANGED <<runtime, commandVars, handover, profile, output>>

-----------------------------------------------------------------------------
\* The process is killed; the command lives on, without readers.
Crash(c) ==
    /\ Crashes
    /\ place[c] \notin Ended \cup {"idle", "crashed"}
    /\ GoTo(c, "crashed")
    /\ owed' = [owed EXCEPT ![c] = Quiet]
    /\ pipe' = [pipe EXCEPT ![c] = Quiet]
    /\ UNCHANGED <<runtime, told, child, handover, profile, folder, output, spoiled>>

CommandStep(c) ==
    \/ StartSandbox(c) \/ StoreResult(c) \/ StartMove(c) \/ FinishMove(c) \/ ExitCommand(c)
    \/ \E p \in Pipes : PrintLine(c, p)
ReaderStep(c) == \E p \in Pipes : ReadLine(c, p)
ConvertStep(c) ==
    \/ ChooseRuntime(c) \/ Spawn(c) \/ ImageFound(c) \/ ImageMissing(c) \/ Pulled(c)
    \/ FailToPrepare(c) \/ CheckProfile(c) \/ CreateProfile(c) \/ WriteProfile(c)
    \/ MakeFolder(c) \/ SandboxFailed(c) \/ NativeReturned(c) \/ SandboxReturned(c)
    \/ RemoveOld(c) \/ ResultMissing(c) \/ StartCopy(c) \/ FinishCopy(c)
    \/ RemoveResult(c) \/ FailToDeliver(c) \/ CleanUp(c) \/ Answer(c)

Next ==
    \E c \in Conversions :
        \/ Reject(c) \/ Convert(c) \/ ConvertStep(c) \/ ReaderStep(c) \/ CommandStep(c)
        \/ DieCommand(c) \/ Crash(c)

Spec == Init /\ [][Next]_vars

\* The scheduler runs every thread and every command, and a command ends by
\* itself when nobody keeps it from printing. Nobody has to convert anything.
Fairness ==
    \A c \in Conversions : WF_vars(ConvertStep(c)) /\ WF_vars(ReaderStep(c))
                          /\ WF_vars(CommandStep(c))

FairSpec == Spec /\ Fairness

-----------------------------------------------------------------------------
(* Type invariant: every conversion, command, folder and output is in one of *)
(* its states, and the pipes never hold more than they can.                *)
TypeOK ==
    /\ place \in [Conversions -> Places]
    /\ runtime \in {"none", "native", "plain", "seccomp"}
    /\ told \in [Conversions -> Percentages]
    /\ child \in [Conversions -> {"none", "starting", "running", "moving", "moved"} \cup Exited]
    /\ owed \in [Conversions -> [Pipes -> Nat]]
    /\ pipe \in [Conversions -> [Pipes -> 0 .. PipeSize]]
    /\ handover \in [Conversions -> BOOLEAN]
    /\ profile \in {"absent", "empty", "whole"}
    /\ folder \in [Conversions -> {"absent", "empty"} \cup Conversions]
    /\ output \in [Conversions -> {"absent", "old", "torn"} \cup Conversions]
    /\ spoiled \in [Conversions -> {"nothing", "delivery", "sweep"}]

Answered(c) == place[c] \in {"ok", "failed"}

\* The folder of a conversion is gone when convert answers, whether the image, the
\* profile, the sandbox or its result was missing, unless a file operation of the
\* delivery or the sweep itself has failed.
FoldersSwept ==
    \A c \in Conversions :
        Answered(c) /\ folder[SafeDir(c)] # "absent" => spoiled[c] # "nothing"

\* "ensure that we cleanup after ourselves" (container.rs:339): when convert answers,
\* the folder is gone unless it could not be removed.
TemporaryFolderRemoved ==
    \A c \in Conversions :
        Answered(c) /\ folder[SafeDir(c)] # "absent" => spoiled[c] = "sweep"

\* Two conversions may both find no profile, and one empties what the other has
\* written; still, a profile that is not whole is being written at this moment,
\* or was left behind by a conversion that was killed or could not write it.
IncompleteProfileHasWriter ==
    profile = "empty" =>
        \E c \in Conversions : place[c] \in {"write", "crashed", "failed"}

\* The last progress message of an answered conversion says 100 (so that no client
\* shows a bar that stopped half way), on every path through convert, install,
\* process, exec_crt_command and its reader threads.
BarFilled == \A c \in Conversions : Answered(c) => told[c] = 100

\* A conversion that has begun ends, however much its commands print on either
\* pipe, unless its process is killed.
ConversionsEnd ==
    \A c \in Conversions : place[c] = "runtime" ~> place[c] \in Ended \cup {"crashed"}

-----------------------------------------------------------------------------
(* Refinement: a killed conversion is one that never answers.              *)
Phase(c) ==
    CASE place[c] = "idle" -> "idle"
      [] place[c] = "ok" -> "ok"
      [] place[c] \in {"rejected", "failed"} -> "failed"
      [] OTHER -> IF handover[c] THEN "delivering" ELSE "working"

Promise == INSTANCE Sanitization WITH phase <- [c \in Conversions |-> Phase(c)]

\* convert keeps the promise of Sanitization: the old output is untouched until the
\* sandbox has succeeded, "ok" means the whole document of this conversion and not
\* of another one that runs beside it, and the output is settled with the answer.
ImplementsSanitization == Promise!Spec

=============================================================================
