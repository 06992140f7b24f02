------------------------------- MODULE Agents -------------------------------
(***************************************************************************)
(* The two agents behind core.Agent, one attempt at a time: the attempt's  *)
(* role has either a CLI or an OpenCode server, and both are shown to keep *)
(* what JobHandle promises the dispatcher.                                 *)
(***************************************************************************)
EXTENDS CliJob, OpenCodeJob

VARIABLE kind    \* the role's agent

vars == <<kind, attemptVars, cliVars, openVars>>

(* Of the agent that the role does not have, any one state will do.        *)
Init ==
    /\ AttemptInit /\ CliInit /\ OpenInit
    /\ \/ kind = "cli" /\ reply = (CHOOSE r \in Replies : TRUE)
       \/ kind = "opencode" /\ prints = (CHOOSE p \in Prints : TRUE)

Cli(action) == kind = "cli" /\ action /\ UNCHANGED <<kind, openVars>>
OpenCode(action) == kind = "opencode" /\ action /\ UNCHANGED <<kind, cliVars>>
Context == (Deadline \/ Interrupt) /\ UNCHANGED <<kind, cliVars, openVars>>

Next == Cli(CliNext) \/ OpenCode(OpenNext) \/ Context

Spec == Init /\ [][Next]_vars

(* The role's budget runs out if it has one, the kernel delivers the kill, *)
(* and the goroutines that wait and read go on.  Neither the program nor   *)
(* the server has to do anything.                                          *)
FairSpec ==
    /\ Spec
    /\ WF_vars(Deadline /\ UNCHANGED <<kind, cliVars, openVars>>)
    /\ WF_vars(Cli(Kill)) /\ WF_vars(Cli(Waiting))
    /\ WF_vars(OpenCode(Reading)) /\ WF_vars(OpenCode(Receive))
-----------------------------------------------------------------------------
(* The types of what the two agents keep.                                  *)
AgentsTypeOK ==
    /\ ctx \in {"live", "deadline", "cancelled"}
    /\ answer \in {"none", "awaited", "result", "error"}
    /\ found \subseteq Nat /\ exit \in ExitCodes \cup {-1, 0, 1}
    /\ child \in {"none", "running", "ended"} /\ left \in BOOLEAN
    /\ printed \in 0..Len(prints) /\ cost \in 0..printed
    /\ Len(stdout) <= PipeSize /\ Len(stderr) <= PipeSize
    /\ session \in {"none", "open", "deleted", "leaked"}
    /\ post \in {"none", "pending", "accepted", "failed"}
    /\ sse \in {"none", "connect", "read", "backoff", "delete", "sent"}
    /\ emitted \in 0..Len(reply) /\ faults \in 0..MaxFaults
    /\ {missed, ids, complete} \subseteq BOOLEAN

Answered(agent) == kind = agent /\ answer = "result"

(* The lines of this kind that were printed before the first that is no    *)
(* JSON.                                                                   *)
Readable(line) ==
    {n \in 1..printed : prints[n] = line /\ \A k \in 1..n : prints[k] # "noise"}

Newest(lines) == CHOOSE n \in lines : \A k \in lines : k <= n

(* Whatever the pipes held back and however the program ended, a CLI's     *)
(* answer has every finding it printed before a line that is no JSON, and  *)
(* the cost of Claude's result event, or failing that of the last turn.    *)
CliAnswerWhole ==
    Answered("cli") =>
        /\ found = Readable("finding")
        /\ IF Readable("result") # {} THEN cost = Newest(Readable("result"))
           ELSE IF Readable("turn") # {} THEN cost = Newest(Readable("turn"))
           ELSE cost = 0

(* A program that was killed or ended with a code of its own is reported   *)
(* as failed whatever it said before, and one that ends with 0 by the last *)
(* done line it printed.                                                   *)
FailureIsReported ==
    Answered("cli") =>
        /\ code # 0 => exit = code
        /\ code = 0 =>
             LET said == Readable("done") \cup Readable("failed")
             IN exit = IF said # {} /\ prints[Newest(said)] = "failed" THEN 1 ELSE 0

(* A text is the assistant's if its message was announced before it.       *)
OfAssistant(n) == reply[n] \in Texts \ {"prompt"} /\ \E k \in 1..n : reply[k] = "register"

(* The assistant's findings up to its first text that is no JSON, or until *)
(* the server is idle.                                                     *)
SaidByAssistant ==
    {f \in 1..Len(reply) :
        /\ reply[f] = "finding" /\ OfAssistant(f)
        /\ \A k \in 1..f : reply[k] # "idle" /\ ~(reply[k] = "prose" /\ OfAssistant(k))}

(* If no event was sent while the agent was away, and the server said that *)
(* it was idle, the answer has all findings of the assistant, over however *)
(* many connections they came.                                             *)
OpenCodeAnswerWhole ==
    Answered("opencode") /\ complete /\ ~missed => found = SaidByAssistant

(* What was lost or cut off may be absent from the answer, but nothing is  *)
(* in it that the assistant did not say: not the prompt, which comes back  *)
(* as a message of the user, nor what the server does for another job.     *)
OwnWordsOnly ==
    Answered("opencode") =>
        \A f \in found : reply[f] = "finding" /\ OfAssistant(f)

Work == IF kind = "cli" THEN CliWork ELSE OpenCodeWork
Handle == INSTANCE JobHandle WITH work <- Work, answer <- answer

(* Both agents implement JobHandle: one answer, and a result only when     *)
(* nothing of the program that holds its pipes runs any more, or the       *)
(* server was told to delete the session.                                  *)
ImplementsJobHandle == Handle!JobSpec

(* Wait returns within the budget of a role that has one, even if the      *)
(* program or the server does nothing any more; unless a process the       *)
(* program left behind holds its pipes, which the kill does not reach.     *)
WaitReturns == answer = "awaited" ~> answer # "awaited" \/ left

(* And the work comes to an end, although Wait may have given up on it.    *)
WorkEnds == Work = "alive" ~> Work = "over" \/ left
=============================================================================
