------------------------------- MODULE CliJob -------------------------------
(***************************************************************************)
(* A job given to a coding CLI: agent/cli_agent.go starts the program,     *)
(* agent/cli_handle.go reads what it prints, first stdout to its end, then *)
(* stderr, and then waits for it to exit.  Its context is done when the    *)
(* role's budget is used up or the call is cancelled; the program is then  *)
(* killed, but not what it has started itself.                             *)
(***************************************************************************)
EXTENDS Attempt

CONSTANTS
    Prints,      \* what programs print, line by line
    ExitCodes,
    PipeSize,    \* lines a pipe holds
    Leaves       \* may a program leave a process behind that holds its pipes?

Lines == {"finding", "done", "failed", "result", "turn", "noise", "stderr"}

ASSUME PrintsAssumption == Prints \subseteq Seq(Lines)
ASSUME ExitAssumption == ExitCodes \subseteq Nat /\ PipeSize \in Nat \ {0} /\ Leaves \in BOOLEAN

VARIABLES
    prints,   \* what this program prints
    printed,  \* how many lines of it it has printed
    child,    \* the program: "none", "running", "ended"
    code,     \* its exit code, -1 if a signal ended it
    left,     \* is there a process it left behind?
    stdout,   \* the pipes, as positions in prints
    stderr,
    reader,   \* what Wait is doing: "json", "raw", "stderr", "reap", "done"
    cost      \* result.Cost, by the line it was taken from

pipeVars == <<printed, child, code, left, stdout, stderr>>
readVars == <<reader, cost, found, exit>>
cliVars == <<prints, pipeVars, reader, cost>>

CliInit ==
    /\ prints \in Prints
    /\ printed = 0 /\ child = "none" /\ code = 0 /\ left = FALSE
    /\ stdout = <<>> /\ stderr = <<>>
    /\ reader = "json" /\ cost = 0

(* exec.Cmd starts the program, or fails: there is none, or the context is *)
(* done already.                                                           *)
CliDispatch ==
    /\ answer = "none"
    /\ \/ ~Done /\ child' = "running" /\ answer' = "awaited"
       \/ child' = child /\ answer' = "error"
    /\ UNCHANGED <<ctx, prints, printed, code, left, stdout, stderr, readVars>>
-----------------------------------------------------------------------------
HasRoom(pipe) == Len(pipe) < PipeSize

(* The program prints; it waits while the pipe is full.                    *)
PrintLine ==
    LET n == printed + 1 IN
    /\ child = "running" /\ n <= Len(prints)
    /\ printed' = n
    /\ IF prints[n] = "stderr"
       THEN HasRoom(stderr) /\ stderr' = Append(stderr, n) /\ UNCHANGED stdout
       ELSE HasRoom(stdout) /\ stdout' = Append(stdout, n) /\ UNCHANGED stderr
    /\ UNCHANGED <<ctx, answer, prints, child, code, left, readVars>>

ExitChild ==
    /\ child = "running" /\ printed = Len(prints)
    /\ child' = "ended" /\ code' \in ExitCodes
    /\ left' \in {FALSE, Leaves}
    /\ UNCHANGED <<ctx, answer, prints, printed, stdout, stderr, readVars>>

(* Mutant: the budget does not reach the program.                          *)
KillOnCancel ==
    /\ ctx = "cancelled" /\ child = "running"
    /\ child' = "ended" /\ code' = -1 /\ left' \in {FALSE, Leaves}
    /\ UNCHANGED <<ctx, answer, prints, printed, stdout, stderr, readVars>>

Kill ==
    /\ Done /\ child = "running"
    /\ child' = "ended" /\ code' = -1
    /\ left' \in {FALSE, Leaves}
    /\ UNCHANGED <<ctx, answer, prints, printed, stdout, stderr, readVars>>

LeftEnds ==
    /\ left /\ left' = FALSE
    /\ UNCHANGED <<ctx, answer, prints, printed, child, code, stdout, stderr, readVars>>

Closed == child # "running" /\ ~left
-----------------------------------------------------------------------------
(* Mutant: the last line that reports usage wins.                          *)
LastCost(n) == IF prints[n] \in {"result", "turn"} THEN n ELSE cost

(* The result event of Claude tells the cost; a turn of Codex counts only  *)
(* as long as there is none.                                               *)
PopulateCost(n) ==
    IF \/ prints[n] = "result"
       \/ prints[n] = "turn" /\ (cost = 0 \/ prints[cost] # "result")
    THEN n ELSE cost

(* A line that is not JSON ends the parsing; the rest is taken unread.     *)
ReadLine ==
    LET n == Head(stdout) IN
    /\ answer = "awaited" /\ reader \in {"json", "raw"} /\ stdout # <<>>
    /\ stdout' = Tail(stdout)
    /\ IF reader = "raw" \/ prints[n] = "noise"
       THEN reader' = "raw" /\ UNCHANGED <<found, cost, exit>>
       ELSE /\ found' = IF prints[n] = "finding" THEN found \cup {n} ELSE found
            /\ exit' = IF prints[n] = "done" THEN 0 ELSE IF prints[n] = "failed" THEN 1 ELSE exit
            /\ cost' = PopulateCost(n)
            /\ UNCHANGED reader
    /\ UNCHANGED <<ctx, answer, prints, printed, child, code, left, stderr>>

EndOfStdout ==
    /\ answer = "awaited" /\ reader \in {"json", "raw"} /\ stdout = <<>> /\ Closed
    /\ reader' = "stderr"
    /\ UNCHANGED <<ctx, answer, prints, pipeVars, found, cost, exit>>

ReadStderr ==
    /\ reader = "stderr"
    /\ \/ stderr # <<>> /\ stderr' = <<>> /\ UNCHANGED reader
       \/ stderr = <<>> /\ Closed /\ reader' = "reap" /\ UNCHANGED stderr
    /\ UNCHANGED <<ctx, answer, prints, printed, child, code, left, stdout, found, cost, exit>>

(* Mutant: the done line is believed.                                      *)
DoneLineWins(said) == said

(* Mutant: a signal is reported as a shell does, by 128 + SIGKILL.         *)
ExitCodeOfShell(said) == IF code = 0 THEN said ELSE IF code = -1 THEN 137 ELSE code

(* A code of its own, or the -1 of a signal, is an ExitError and overrides *)
(* the done line; a code of 0 leaves what the done line said.              *)
ExitCode(said) == IF code = 0 THEN said ELSE code

(* cmd.Wait.  A clean exit is an error if the context's kill came first.   *)
Reap ==
    /\ reader = "reap" /\ child # "running"
    /\ reader' = "done"
    /\ \/ answer' = "result" /\ exit' = ExitCode(exit)
       \/ Done /\ code = 0 /\ answer' = "error" /\ UNCHANGED exit
    /\ UNCHANGED <<ctx, prints, pipeVars, found, cost>>
-----------------------------------------------------------------------------
Program == PrintLine \/ ExitChild \/ LeftEnds
Waiting == ReadLine \/ EndOfStdout \/ ReadStderr \/ Reap
CliNext == CliDispatch \/ Program \/ Kill \/ Waiting

CliWork == IF child = "none" THEN "none" ELSE IF Closed THEN "over" ELSE "alive"
=============================================================================
