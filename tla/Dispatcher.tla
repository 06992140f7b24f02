------------------------------ MODULE Dispatcher ------------------------------
(***************************************************************************)
(* Calls of Dispatcher.Orchestrate (coding/dispatch.go): load a role,      *)
(* start its agent as a job, judge what it produced, try again with        *)
(* feedback, record the findings and close the job.  At most one call per  *)
(* role is under way; calls of different roles run side by side.           *)
(*                                                                         *)
(* A call carries a context.  Once it is cancelled every write fails and   *)
(* the agent is killed, but the call still runs to its end.  One action is *)
(* one committed statement or one step of the agent.                       *)
(***************************************************************************)
EXTENDS Supervisor

CONSTANTS
    Group,              \* roles whose calls share a context: the first error cancels it
    Binary,             \* the program of each role's agent, or "none"
    PermissionChoices,  \* the roles' permission lists
    Wirings,            \* what the Dispatcher is given: Supervisor, CostWriter, AttentionStore
                        \* (each may be nil) and Policy's on_undeclared
    ReportsCost,        \* roles whose agent reports what it cost
    Outcomes,           \* what the agent of a role may produce: [exit, findings]
    Trees,              \* what a commit may leave in the worktree
    MaxRetriesSetting,  \* Dispatcher.MaxRetries
    MaxRounds,          \* bound on calls per role
    MaxFaults           \* bound on faults: writes that get lost, calls that fail, a signal

ASSUME GroupAssumption == Group \subseteq Roles
ASSUME RetriesAssumption == MaxRetriesSetting \in Int
ASSUME OutcomesAssumption ==
    \A r \in Roles : Outcomes[r] \subseteq [exit : Int, findings : SUBSET Findings]
ASSUME WiringAssumption ==
    Wirings \subseteq [supervisor : BOOLEAN, costs : BOOLEAN, attention : BOOLEAN,
                       onUndeclared : {"deny", "warn"}]
ASSUME DispatchBoundsAssumption == MaxRounds \in Nat /\ MaxFaults \in Nat

VARIABLES
    wiring,       \* of this process's Dispatcher
    perms,        \* the roles' permission lists, read once
    dpc,          \* where a call is
    round,        \* how often the role was called
    attempt,      \* the attempt of the call
    product,      \* what the agent of the attempt produced
    unsaved,      \* findings of it that are still to be recorded
    agent,        \* is an agent of the role alive?
    jobs,         \* jobs.state, by role, call and attempt
    findings,     \* the findings table: pairs of a job and a finding
    costed,       \* jobs with a row in cost_events
    breaches,     \* jobs named by a compliance-breach event
    asked,        \* roles with an attention.permission item
    ownRun,       \* runs.state, for a call that creates its own run
    tree,         \* the worktree, as git shows it
    interrupted,  \* was the process sent SIGINT or SIGTERM?
    lost,         \* writes that failed though the context was not done
    failures      \* configurations, launches and waits that failed

callVars == <<dpc, round, attempt, product, unsaved, agent>>
tableVars == <<jobs, findings, costed, breaches, asked, ownRun>>
dispatchVars == <<wiring, perms, callVars, tableVars, tree, interrupted, lost, failures>>

MaxRetries ==
    IF MaxRetriesSetting < 0 THEN 0 ELSE IF MaxRetriesSetting = 0 THEN 3 ELSE MaxRetriesSetting

NoProduct == [exit |-> 0, findings |-> {}]

JobIds == Roles \X (1..MaxRounds) \X (0..MaxRetries)

(* Mutant: an attempt reuses the job of the one before.                    *)
JobOfCall(c) == <<c, round[c], 0>>

JobOf(c) == <<c, round[c], attempt[c]>>

DispatchInit ==
    /\ wiring \in Wirings
    /\ perms \in PermissionChoices
    /\ dpc = [c \in Roles |-> "idle"]
    /\ round = [c \in Roles |-> 0]
    /\ attempt = [c \in Roles |-> 0]
    /\ product = [c \in Roles |-> NoProduct]
    /\ unsaved = [c \in Roles |-> {}]
    /\ agent = [c \in Roles |-> FALSE]
    /\ jobs = [j \in JobIds |-> "absent"]
    /\ findings = {} /\ costed = {} /\ breaches = {} /\ asked = {}
    /\ ownRun = "none"
    /\ tree \in Trees
    /\ interrupted = FALSE
    /\ lost = 0 /\ failures = 0

Goto(c, pc) == dpc' = [dpc EXCEPT ![c] = pc]
SetJob(c, state) == jobs' = [jobs EXCEPT ![JobOf(c)] = state]

(* A fault nobody in this process caused.                                  *)
MayFail == ~interrupted /\ lost + failures < MaxFaults
Fail == MayFail /\ failures' = failures + 1
Lose == MayFail /\ lost' = lost + 1


CtxDone(c) == interrupted \/ (c \in Group /\ \E d \in Group : dpc[d] = "error")

(* A write commits, or fails: because the context is done, or else.        *)
Commits(c) == ~CtxDone(c) /\ UNCHANGED lost
WriteFails(c) ==
    IF CtxDone(c) THEN UNCHANGED lost ELSE Lose

(* executeAttempt returned an error: close the run if it is the call's own.*)
AfterError == IF ownRun = "none" THEN "error" ELSE "close-failed"

-----------------------------------------------------------------------------
(* The call: role, inputs and template, then a run of its own if it needs  *)
(* one.                                                                    *)
Call(c, createsRun) ==
    /\ dpc[c] = "idle" /\ round[c] < MaxRounds
    /\ \/ Goto(c, IF createsRun THEN "open" ELSE "create") /\ UNCHANGED failures
       \/ Fail /\ Goto(c, "error")
    /\ round' = [round EXCEPT ![c] = @ + 1]
    /\ attempt' = [attempt EXCEPT ![c] = 0]
    /\ product' = [product EXCEPT ![c] = NoProduct]
    /\ UNCHANGED <<wiring, perms, unsaved, agent, tableVars, tree, interrupted, lost>>

OpenRun(c) ==
    /\ dpc[c] = "open"
    /\ \/ Commits(c) /\ ownRun' = "active" /\ Goto(c, "create")
       \/ WriteFails(c) /\ Goto(c, "error") /\ UNCHANGED ownRun
    /\ UNCHANGED <<wiring, perms, round, attempt, product, unsaved, agent, jobs, findings, costed,
                   breaches, asked, tree, interrupted, failures>>

(* The prompt of a call with a run of its own is rendered when the run is  *)
(* open, and a template that does not render leaves it so.                 *)
Render(c) ==
    /\ dpc[c] = "create" /\ ownRun # "none"
    /\ Fail /\ Goto(c, "error")
    /\ UNCHANGED <<wiring, perms, round, attempt, product, unsaved, agent, tableVars, tree,
                   interrupted, lost>>

(* The head of the retry loop, and CreateJob.  A context that is done is   *)
(* found before an attempt is made, and then the run stays as it is.       *)
CreateJob(c) ==
    /\ dpc[c] = "create"
    /\ \/ Commits(c) /\ SetJob(c, "pending") /\ Goto(c, "lease")
       \/ /\ WriteFails(c)
          /\ Goto(c, IF CtxDone(c) THEN "error" ELSE AfterError)
          /\ UNCHANGED jobs
    /\ UNCHANGED <<wiring, perms, round, attempt, product, unsaved, agent, findings, costed, breaches,
                   asked, ownRun, tree, interrupted, failures>>

Lease(c) ==
    /\ dpc[c] = "lease"
    /\ \/ Commits(c) /\ SetJob(c, "dispatched") /\ Goto(c, "permit")
       \/ WriteFails(c) /\ Goto(c, AfterError) /\ UNCHANGED jobs
    /\ UNCHANGED <<wiring, perms, round, attempt, product, unsaved, agent, findings, costed, breaches,
                   asked, ownRun, tree, interrupted, failures>>

(* checkPermission.  A role that needs a person's approval gets an item    *)
(* and fails like one that is denied; nobody waits for the answer.         *)
Decision(c) == LaunchDecision(perms[c], Binary[c], wiring.onUndeclared)

Deny(c) ==
    /\ dpc[c] = "permit" /\ Decision(c) # "allow"
    /\ Goto(c, "fail")
    /\ \/ Decision(c) = "ask" /\ wiring.attention /\ Commits(c) /\ asked' = asked \cup {c}
       \/ Decision(c) = "ask" /\ wiring.attention /\ WriteFails(c) /\ UNCHANGED asked
       \/ ~(Decision(c) = "ask" /\ wiring.attention) /\ UNCHANGED <<asked, lost>>
    /\ UNCHANGED <<wiring, perms, round, attempt, product, unsaved, agent, jobs, findings, costed,
                   breaches, ownRun, tree, interrupted, failures>>

StartAgent(c) ==
    /\ dpc[c] = "permit" /\ Decision(c) = "allow"
    /\ \/ /\ ~CtxDone(c)
          /\ agent' = [agent EXCEPT ![c] = TRUE]
          /\ Goto(c, "wait")
          /\ UNCHANGED failures
       \/ CtxDone(c) /\ Goto(c, "fail") /\ UNCHANGED <<agent, failures>>
       \/ ~CtxDone(c) /\ Fail /\ Goto(c, "fail") /\ UNCHANGED agent
    /\ UNCHANGED <<wiring, perms, round, attempt, product, unsaved, tableVars, tree, interrupted,
                   lost>>

(* The agent ends, by itself, killed by the context, or at the deadline of *)
(* its budget: a killed process is one with an exit code other than 0.     *)
(* What the developer committed is in the worktree.                        *)
AgentExits(c) ==
    /\ dpc[c] = "wait"
    /\ agent' = [agent EXCEPT ![c] = FALSE]
    /\ IF c \in Group THEN UNCHANGED tree ELSE tree' \in Trees
    /\ \/ \E o \in Outcomes[c] :
            /\ product' = [product EXCEPT ![c] = o]
            /\ Goto(c, "cost")
            /\ UNCHANGED failures
       \/ /\ (CtxDone(c) /\ UNCHANGED failures) \/ Fail
          /\ Goto(c, "fail")
          /\ UNCHANGED product
    /\ UNCHANGED <<wiring, perms, round, attempt, unsaved, tableVars, interrupted, lost>>

Charged(c) == wiring.costs /\ c \in ReportsCost

Verdict(c) ==
    IF wiring.supervisor THEN Evaluate(c, product[c], tree) ELSE "pass"

(* Mutant: only an attempt that the rules accept is charged for.           *)
RecordCostOfAccepted(c) ==
    /\ dpc[c] = "cost"
    /\ Goto(c, "judge")
    /\ \/ Charged(c) /\ Verdict(c) = "pass" /\ Commits(c) /\ costed' = costed \cup {JobOf(c)}
       \/ Charged(c) /\ WriteFails(c) /\ UNCHANGED costed
       \/ ~(Charged(c) /\ Verdict(c) = "pass") /\ UNCHANGED <<costed, lost>>
    /\ UNCHANGED <<wiring, perms, round, attempt, product, unsaved, agent, jobs, findings, breaches,
                   asked, ownRun, tree, interrupted, failures>>

(* The cost of every attempt, whatever the rules will say of it.           *)
RecordCost(c) ==
    /\ dpc[c] = "cost"
    /\ Goto(c, "judge")
    /\ \/ Charged(c) /\ Commits(c) /\ costed' = costed \cup {JobOf(c)}
       \/ Charged(c) /\ WriteFails(c) /\ UNCHANGED costed
       \/ ~Charged(c) /\ UNCHANGED <<costed, lost>>
    /\ UNCHANGED <<wiring, perms, round, attempt, product, unsaved, agent, jobs, findings, breaches,
                   asked, ownRun, tree, interrupted, failures>>

(* Mutant: one attempt more than MaxRetries allows.                        *)
RetryLeftOffByOne(c) == attempt[c] <= MaxRetries

RetryLeft(c) == attempt[c] < MaxRetries

(* Mutant: the findings of a job that failed are not recorded.             *)
AcceptDroppingFindings(c) ==
    /\ dpc[c] = "judge" /\ Verdict(c) = "pass"
    /\ Goto(c, "save")
    /\ unsaved' = [unsaved EXCEPT ![c] = IF product[c].exit = 0 THEN product[c].findings ELSE {}]
    /\ UNCHANGED <<wiring, perms, round, attempt, product, agent, tableVars, tree, interrupted, lost,
                   failures>>

(* The verdict, with a supervisor_events row per rule that nothing reads   *)
(* back: the attempt is accepted, ...                                      *)
Accept(c) ==
    /\ dpc[c] = "judge" /\ Verdict(c) = "pass"
    /\ Goto(c, "save")
    /\ unsaved' = [unsaved EXCEPT ![c] = product[c].findings]
    /\ UNCHANGED <<wiring, perms, round, attempt, product, agent, tableVars, tree, interrupted, lost,
                   failures>>

(* Mutant: a refused job stays dispatched.                                 *)
RefuseWithoutUpdate(c) ==
    /\ dpc[c] = "judge" /\ Verdict(c) = "fail" /\ RetryLeft(c)
    /\ Goto(c, "create")
    /\ attempt' = [attempt EXCEPT ![c] = @ + 1]
    /\ UNCHANGED <<wiring, perms, round, product, unsaved, agent, tableVars, tree, interrupted, lost,
                   failures>>

(* Mutant: the attempts are not counted.                                   *)
RefuseUncounted(c) ==
    /\ dpc[c] = "judge" /\ Verdict(c) = "fail" /\ RetryLeft(c)
    /\ Goto(c, "create")
    /\ \/ Commits(c) /\ SetJob(c, "failed")
       \/ WriteFails(c) /\ UNCHANGED jobs
    /\ UNCHANGED <<wiring, perms, round, attempt, product, unsaved, agent, findings, costed, breaches,
                   asked, ownRun, tree, interrupted, failures>>

(* ... or refused: the job is failed and another attempt takes its place,  *)
(* the findings dropped, ...                                               *)
Refuse(c) ==
    /\ dpc[c] = "judge" /\ Verdict(c) = "fail" /\ RetryLeft(c)
    /\ Goto(c, "create")
    /\ attempt' = [attempt EXCEPT ![c] = @ + 1]
    /\ \/ Commits(c) /\ SetJob(c, "failed")
       \/ WriteFails(c) /\ UNCHANGED jobs
    /\ UNCHANGED <<wiring, perms, round, product, unsaved, agent, findings, costed, breaches, asked,
                   ownRun, tree, interrupted, failures>>

(* ... or, with no attempt left, kept as a breach.                         *)
Breach(c) ==
    /\ dpc[c] = "judge" /\ Verdict(c) = "fail" /\ ~RetryLeft(c)
    /\ Goto(c, "save")
    /\ unsaved' = [unsaved EXCEPT ![c] = product[c].findings]
    /\ \/ Commits(c) /\ breaches' = breaches \cup {JobOf(c)}
       \/ WriteFails(c) /\ UNCHANGED breaches
    /\ UNCHANGED <<wiring, perms, round, attempt, product, agent, jobs, findings, costed, asked, ownRun,
                   tree, interrupted, failures>>

-----------------------------------------------------------------------------
(* The end of the call: a row per finding, the job's final state, the run. *)
SaveFinding(c) ==
    /\ dpc[c] = "save"
    /\ \/ /\ unsaved[c] = {}
          /\ Goto(c, "finish")
          /\ UNCHANGED <<unsaved, findings, lost>>
       \/ \E f \in unsaved[c] :
            /\ unsaved' = [unsaved EXCEPT ![c] = @ \ {f}]
            /\ \/ Commits(c) /\ findings' = findings \cup {<<JobOf(c), f>>}
               \/ WriteFails(c) /\ UNCHANGED findings
            /\ UNCHANGED dpc
    /\ UNCHANGED <<wiring, perms, round, attempt, product, agent, jobs, costed, breaches, asked, ownRun,
                   tree, interrupted, failures>>

Accepted(c) == product[c].exit = 0 /\ Verdict(c) = "pass"

FinishJob(c) ==
    /\ dpc[c] = "finish"
    /\ \/ /\ Commits(c)
          /\ SetJob(c, IF Accepted(c) THEN "complete" ELSE "failed")
          /\ Goto(c, IF ownRun = "none" THEN "ok" ELSE "close")
       \/ WriteFails(c) /\ Goto(c, "error") /\ UNCHANGED jobs
    /\ UNCHANGED <<wiring, perms, round, attempt, product, unsaved, agent, findings, costed, breaches,
                   asked, ownRun, tree, interrupted, failures>>

(* An attempt that ended in an error: its job is failed, if that can be    *)
(* written.                                                                *)
FailJob(c) ==
    /\ dpc[c] = "fail"
    /\ Goto(c, AfterError)
    /\ \/ Commits(c) /\ SetJob(c, "failed")
       \/ WriteFails(c) /\ UNCHANGED jobs
    /\ UNCHANGED <<wiring, perms, round, attempt, product, unsaved, agent, findings, costed, breaches,
                   asked, ownRun, tree, interrupted, failures>>

CloseRun(c) ==
    /\ \/ /\ dpc[c] = "close"
          /\ \/ /\ Commits(c)
                /\ ownRun' = IF Accepted(c) THEN "completed" ELSE "failed"
                /\ Goto(c, "ok")
             \/ WriteFails(c) /\ Goto(c, "error") /\ UNCHANGED ownRun
       \/ /\ dpc[c] = "close-failed"
          /\ Goto(c, "error")
          /\ \/ Commits(c) /\ ownRun' = "failed"
             \/ WriteFails(c) /\ UNCHANGED ownRun
    /\ UNCHANGED <<wiring, perms, round, attempt, product, unsaved, agent, jobs, findings, costed,
                   breaches, asked, tree, interrupted, failures>>

Interrupt ==
    /\ MayFail
    /\ interrupted' = TRUE
    /\ UNCHANGED <<wiring, perms, callVars, tableVars, tree, lost, failures>>

(* One step of a call.                                                     *)
Orchestrate(c) ==
    \/ OpenRun(c) \/ Render(c) \/ CreateJob(c) \/ Lease(c) \/ Deny(c)
    \/ StartAgent(c) \/ AgentExits(c) \/ RecordCost(c) \/ Accept(c) \/ Refuse(c) \/ Breach(c)
    \/ SaveFinding(c) \/ FinishJob(c) \/ FailJob(c) \/ CloseRun(c)

-----------------------------------------------------------------------------
CallStates ==
    {"idle", "open", "create", "lease", "permit", "wait", "cost", "judge",
     "save", "finish", "fail", "close", "close-failed", "ok", "error"}
JobStates == {"absent", "pending", "dispatched", "complete", "failed"}

DispatchTypeOK ==
    /\ wiring \in Wirings
    /\ dpc \in [Roles -> CallStates]
    /\ round \in [Roles -> 0..MaxRounds]
    /\ attempt \in [Roles -> 0..MaxRetries]
    /\ \A c \in Roles : product[c] \in Outcomes[c] \cup {NoProduct}
    /\ unsaved \in [Roles -> SUBSET Findings]
    /\ agent \in [Roles -> BOOLEAN]
    /\ jobs \in [JobIds -> JobStates]
    /\ findings \subseteq JobIds \X Findings
    /\ costed \subseteq JobIds /\ breaches \subseteq JobIds
    /\ asked \subseteq Roles
    /\ ownRun \in {"none", "active", "completed", "failed"}
    /\ tree \in Trees
    /\ interrupted \in BOOLEAN
    /\ lost \in Nat /\ failures \in Nat
=============================================================================
