------------------------------ MODULE Autopilot ------------------------------
(***************************************************************************)
(* One run of `coworker run`: cli/run.go with RunPhasesForPlan             *)
(* (coding/workflow/build_from_prd.go), the shipper and the checkpoints.   *)
(*                                                                         *)
(* A run is carried by a sequence of short processes.  Each stops at a     *)
(* question for a person; the next one is started by hand with             *)
(* --resume-after-attention and rebuilds what it knows from the event log. *)
(* Nothing keeps two such processes from running at once.  One action is   *)
(* one committed statement, one replay of the log, or one call of an agent *)
(* or of gh.  A plan's phases are one: "phase" stands for all of them.     *)
(***************************************************************************)
EXTENDS Checkpoints, Scheduler

CONSTANTS
    Runners,        \* slots for `coworker run` processes
    ManifestInLog,  \* does a job.completed event name the manifest?
    Shipping,       \* FALSE under --no-ship
    PriorShips,     \* plans n with a job row "ship-plan-n" of an earlier run
    MaxFailures,    \* bound on agents and gh calls that fail
    MaxLost,        \* bound on writes that fail and are only logged
    MaxCrashes      \* bound on processes that die

ASSUME SourcesAssumption == Sources = Plans \cup {NoSource} /\ NoSource \notin Plans
ASSUME ModeAssumption == ManifestInLog \in BOOLEAN /\ Shipping \in BOOLEAN
ASSUME ShipsAssumption == PriorShips \subseteq Plans
ASSUME BoundsAssumption == MaxFailures \in Nat /\ MaxLost \in Nat /\ MaxCrashes \in Nat

VARIABLES
    blocksOn,    \* the manifest
    runState,    \* runs.state
    started,     \* plans named by a phase.started event of the run
    shipped,     \* plans named by a plan.shipped event of the run
    row,         \* plans.state
    shipJobs,    \* plans n with a job row "ship-plan-n"
    artifacts,   \* plans with a pr-url artifact of this run
    delivered,   \* history: plans whose PR was opened (work done, if --no-ship)
    rpc,         \* where a process is
    ritem,       \* the item it resumes from, then the one it creates
    rquestion,   \* the question it is to put, or was answered
    rplan,       \* the plan it works on
    rcompleted,  \* its maps of plans, rebuilt from the log
    ractive,
    failures, lost, crashes

logVars == <<started, shipped>>
rowVars == <<row, shipJobs, artifacts>>
localVars == <<ritem, rquestion, rplan, rcompleted, ractive>>
faultVars == <<failures, lost, crashes>>
runVars == <<blocksOn, runState, logVars, rowVars, delivered, rpc, localVars, faultVars>>
vars == <<checkpointVars, runVars>>

NoPlan == NoSource

Pcs == {"idle", "architect", "insert", "pair", "abort", "replay", "load", "gate",
        "planner", "begin", "running", "phase", "work", "pr", "emit", "job", "artifact",
        "done", "finish", "failed"}
PlanStates == {"none", "pending", "running", "failed", "done"}

Init ==
    /\ CheckpointInit
    /\ blocksOn \in Graphs
    /\ runState = "none"
    /\ started = {} /\ shipped = {}
    /\ row = [p \in Plans |-> "none"]
    /\ shipJobs = PriorShips
    /\ artifacts = {}
    /\ delivered = {}
    /\ rpc = [r \in Runners |-> "idle"]
    /\ ritem = [r \in Runners |-> NoItem]
    /\ rquestion = [r \in Runners |-> "none"]
    /\ rplan = [r \in Runners |-> NoPlan]
    /\ rcompleted = [r \in Runners |-> {}]
    /\ ractive = [r \in Runners |-> {}]
    /\ failures = 0 /\ lost = 0 /\ crashes = 0

Goto(r, pc) == rpc' = [rpc EXCEPT ![r] = pc]

(* The process exits, with or without an error.                            *)
Exit(r) ==
    /\ Goto(r, "idle")
    /\ ritem' = [ritem EXCEPT ![r] = NoItem]
    /\ rquestion' = [rquestion EXCEPT ![r] = "none"]
    /\ rplan' = [rplan EXCEPT ![r] = NoPlan]
    /\ rcompleted' = [rcompleted EXCEPT ![r] = {}]
    /\ ractive' = [ractive EXCEPT ![r] = {}]

Fail == failures < MaxFailures /\ failures' = failures + 1
Lose == lost < MaxLost /\ lost' = lost + 1

-----------------------------------------------------------------------------
(* The first process: CreateRun, the architect, the spec-approved item.    *)
StartRun(r) ==
    /\ rpc[r] = "idle" /\ runState = "none"
    /\ runState' = "active"
    /\ Goto(r, "architect")
    /\ UNCHANGED <<checkpointVars, blocksOn, logVars, rowVars, delivered, localVars, faultVars>>

ArchitectReturns(r) ==
    /\ rpc[r] = "architect"
    /\ \/ /\ Goto(r, "insert")
          /\ rquestion' = [rquestion EXCEPT ![r] = "spec-approved"]
          /\ UNCHANGED <<ritem, rplan, rcompleted, ractive, failures>>
       \/ Fail /\ Exit(r)
    /\ UNCHANGED <<checkpointVars, blocksOn, runState, logVars, rowVars, delivered, lost, crashes>>

(* The item and its checkpoint.  A gate's items name the plan; those of    *)
(* the phase loop and of the shipper do not, and the two go on when the    *)
(* write fails.                                                            *)
IsGate(q) == q \in {"spec-approved", "plan-approved"}

AfterItem(q) == IF q = "ready-to-ship" THEN "pr" ELSE "failed"

Insert(r) ==
    /\ rpc[r] = "insert"
    /\ \/ \E i \in Items :
            /\ InsertAttention(i, rquestion[r],
                   IF rquestion[r] = "plan-approved" THEN rplan[r] ELSE NoPlan)
            /\ ritem' = [ritem EXCEPT ![r] = i]
            /\ Goto(r, "pair")
            /\ UNCHANGED lost
       \/ /\ ~IsGate(rquestion[r]) /\ Lose
          /\ Goto(r, AfterItem(rquestion[r]))
          /\ UNCHANGED <<checkpointVars, ritem>>
    /\ UNCHANGED <<blocksOn, runState, logVars, rowVars, delivered, rquestion, rplan,
                   rcompleted, ractive, failures, crashes>>

Pair(r) ==
    /\ rpc[r] = "pair"
    /\ \/ /\ rquestion[r] = "plan-approved" => row[rplan[r]] # "none"  \* foreign key
          /\ CreateCheckpoint(ritem[r]) /\ UNCHANGED lost
       \/ ~IsGate(rquestion[r]) /\ Lose /\ UNCHANGED checkpointVars
       \/ /\ rquestion[r] = "plan-approved" /\ row[rplan[r]] = "none"
          /\ UNCHANGED <<checkpointVars, lost>>
    /\ IF IsGate(rquestion[r])
       THEN Exit(r)
       ELSE Goto(r, AfterItem(rquestion[r])) /\ UNCHANGED localVars
    /\ UNCHANGED <<blocksOn, runState, logVars, rowVars, delivered, failures, crashes>>

-----------------------------------------------------------------------------
(* Mutant: an unanswered item passes for an approved one.                  *)
ResumeUnanswered(r, i) ==
    /\ rpc[r] = "idle"
    /\ question[i] # "none" /\ answer[i] # "reject"
    /\ Goto(r, "replay")
    /\ ritem' = [ritem EXCEPT ![r] = i]
    /\ rquestion' = [rquestion EXCEPT ![r] = question[i]]
    /\ rplan' = [rplan EXCEPT ![r] = about[i]]
    /\ UNCHANGED <<checkpointVars, blocksOn, runState, logVars, rowVars, delivered,
                   rcompleted, ractive, faultVars>>

(* --resume-after-attention i.  An unanswered item, and an answer that is  *)
(* neither of the two, end the process with an error and no effect.        *)
Resume(r, i) ==
    /\ rpc[r] = "idle"
    /\ answer[i] \in {"approve", "reject"}
    /\ Goto(r, IF answer[i] = "approve" THEN "replay" ELSE "abort")
    /\ ritem' = [ritem EXCEPT ![r] = i]
    /\ rquestion' = [rquestion EXCEPT ![r] = question[i]]
    /\ rplan' = [rplan EXCEPT ![r] = about[i]]
    /\ UNCHANGED <<checkpointVars, blocksOn, runState, logVars, rowVars, delivered,
                   rcompleted, ractive, faultVars>>

(* CompleteRun; an error is logged.                                        *)
Abort(r) ==
    /\ rpc[r] = "abort"
    /\ \/ runState' = "aborted" /\ UNCHANGED lost
       \/ Lose /\ UNCHANGED runState
    /\ Exit(r)
    /\ UNCHANGED <<checkpointVars, blocksOn, logVars, rowVars, delivered, failures, crashes>>

(* Mutants of Replay: a plan that was started counts as completed; the     *)
(* plans under way are forgotten.                                          *)
ReplayStartedAsCompleted(r) ==
    /\ rpc[r] = "replay"
    /\ Goto(r, "load")
    /\ rcompleted' = [rcompleted EXCEPT ![r] = started]
    /\ ractive' = [ractive EXCEPT ![r] = {}]
    /\ UNCHANGED <<ritem, rquestion, rplan>>
    /\ UNCHANGED <<checkpointVars, blocksOn, runState, logVars, rowVars, delivered, faultVars>>

ReplayForgetsActive(r) ==
    /\ rpc[r] = "replay"
    /\ Goto(r, "load")
    /\ rcompleted' = [rcompleted EXCEPT ![r] = shipped]
    /\ ractive' = [ractive EXCEPT ![r] = {}]
    /\ UNCHANGED <<ritem, rquestion, rplan>>
    /\ UNCHANGED <<checkpointVars, blocksOn, runState, logVars, rowVars, delivered, faultVars>>

(* ListEvents, reconstructPlanState and discoverManifestFromEvents.        *)
Replay(r) ==
    /\ rpc[r] = "replay"
    /\ IF ManifestInLog
       THEN /\ Goto(r, "load")
            /\ rcompleted' = [rcompleted EXCEPT ![r] = shipped]
            /\ ractive' = [ractive EXCEPT ![r] = started \ shipped]
            /\ UNCHANGED <<ritem, rquestion, rplan>>
       ELSE Exit(r)
    /\ UNCHANGED <<checkpointVars, blocksOn, runState, logVars, rowVars, delivered, faultVars>>

(* recordRunPlans, then the item's question says what was approved.        *)
LoadManifest(r) ==
    /\ rpc[r] = "load"
    /\ \/ /\ row' = [p \in Plans |-> IF row[p] = "none" THEN "pending" ELSE row[p]]
          /\ UNCHANGED lost
       \/ Lose /\ UNCHANGED row
    /\ \/ rquestion[r] = "spec-approved" /\ Goto(r, "gate") /\ UNCHANGED localVars
       \/ rquestion[r] = "plan-approved" /\ Goto(r, "planner") /\ UNCHANGED localVars
       \/ ~IsGate(rquestion[r]) /\ Exit(r)  \* "unknown checkpoint question"
    /\ UNCHANGED <<checkpointVars, blocksOn, runState, logVars, shipJobs, artifacts, delivered,
                   failures, crashes>>

-----------------------------------------------------------------------------
(* runPlanLoopCreateNextCheckpoint: the first ready plan is recorded as    *)
(* started and put to the person; with none ready the process exits, and   *)
(* leaves the run's state as it is.                                        *)
Gate(r) ==
    /\ rpc[r] = "gate"
    /\ LET ready == ReadyPlans(blocksOn, rcompleted[r], ractive[r]) IN
       \/ ready = {} /\ Exit(r) /\ UNCHANGED <<started, lost>>
       \/ \E p \in ready :
            /\ \A q \in ready : p <= q
            /\ \/ started' = started \cup {p} /\ UNCHANGED lost
               \/ Lose /\ UNCHANGED started
            /\ ractive' = [ractive EXCEPT ![r] = @ \cup {p}]
            /\ rplan' = [rplan EXCEPT ![r] = p]
            /\ rquestion' = [rquestion EXCEPT ![r] = "plan-approved"]
            /\ Goto(r, "insert")
            /\ UNCHANGED <<ritem, rcompleted>>
    /\ UNCHANGED <<checkpointVars, blocksOn, runState, shipped, rowVars, delivered, failures, crashes>>

-----------------------------------------------------------------------------
(* An approved plan: planner, phases, shipping.                            *)
PlannerReturns(r) ==
    /\ rpc[r] = "planner"
    /\ \/ Goto(r, "begin") /\ UNCHANGED <<localVars, failures>>
       \/ Fail /\ Exit(r)
    /\ UNCHANGED <<checkpointVars, blocksOn, runState, logVars, rowVars, delivered, lost, crashes>>

(* A phase.started event, of run.go ("begin") or of the executor ("phase").*)
PhaseStarted(r) ==
    /\ \/ rpc[r] = "begin" /\ Goto(r, "running")
       \/ rpc[r] = "phase" /\ Goto(r, "work")
    /\ \/ started' = started \cup {rplan[r]} /\ UNCHANGED lost
       \/ Lose /\ UNCHANGED started
    /\ UNCHANGED <<checkpointVars, blocksOn, runState, shipped, rowVars, delivered, localVars,
                   failures, crashes>>

(* createPlan and updatePlanState: an error is dropped.                    *)
SetRow(r, from, state, to) ==
    /\ rpc[r] = from
    /\ \/ row' = [row EXCEPT ![rplan[r]] = state] /\ UNCHANGED lost
       \/ Lose /\ UNCHANGED row
    /\ IF to = "idle" THEN Exit(r) ELSE Goto(r, to) /\ UNCHANGED localVars
    /\ UNCHANGED <<checkpointVars, blocksOn, runState, logVars, shipJobs, artifacts, delivered,
                   failures, crashes>>

(* The phases end: clean, not converging (a phase-clean item and a failed  *)
(* row), or with an error.                                                 *)
PhaseEnds(r) ==
    /\ rpc[r] = "work"
    /\ \/ /\ Shipping
          /\ rquestion' = [rquestion EXCEPT ![r] = "ready-to-ship"]
          /\ Goto(r, "insert")
          /\ UNCHANGED <<delivered, failures>>
       \/ /\ ~Shipping
          /\ delivered' = delivered \cup {rplan[r]}
          /\ Goto(r, "done")
          /\ UNCHANGED <<rquestion, failures>>
       \/ /\ Fail
          /\ rquestion' = [rquestion EXCEPT ![r] = "phase-clean"]
          /\ Goto(r, "insert")
          /\ UNCHANGED delivered
       \/ /\ Fail /\ Goto(r, "failed")
          /\ UNCHANGED <<delivered, rquestion>>
    /\ UNCHANGED <<checkpointVars, blocksOn, runState, logVars, rowVars, ritem, rplan, rcompleted,
                   ractive, lost, crashes>>

(* Mutant: the row is marked done before the plan.shipped event.           *)
CreatePRThenDone(r) ==
    /\ rpc[r] = "pr"
    /\ delivered' = delivered \cup {rplan[r]}
    /\ Goto(r, "done")
    /\ UNCHANGED <<checkpointVars, blocksOn, runState, logVars, rowVars, localVars, faultVars>>

CreatePR(r) ==
    /\ rpc[r] = "pr"
    /\ \/ /\ delivered' = delivered \cup {rplan[r]}
          /\ Goto(r, "emit")
          /\ UNCHANGED failures
       \/ Fail /\ Goto(r, "failed") /\ UNCHANGED delivered
    /\ UNCHANGED <<checkpointVars, blocksOn, runState, logVars, rowVars, localVars, lost, crashes>>

(* A plan.shipped event, of the shipper ("emit") or of run.go ("finish").  *)
ShippedEvent(p) ==
    \/ shipped' = shipped \cup {p} /\ UNCHANGED lost
    \/ Lose /\ UNCHANGED shipped

EmitShipped(r) ==
    /\ rpc[r] = "emit"
    /\ ShippedEvent(rplan[r])
    /\ Goto(r, "job")
    /\ UNCHANGED <<checkpointVars, blocksOn, runState, started, rowVars, delivered, localVars,
                   failures, crashes>>

(* CreateJob is a plain INSERT under the id "ship-plan-n": with a row of   *)
(* that id, of this or of an earlier run, the artifact is skipped.         *)
CreateShipJob(r) ==
    /\ rpc[r] = "job"
    /\ \/ /\ rplan[r] \notin shipJobs
          /\ shipJobs' = shipJobs \cup {rplan[r]}
          /\ Goto(r, "artifact")
          /\ UNCHANGED lost
       \/ rplan[r] \in shipJobs /\ Goto(r, "done") /\ UNCHANGED <<shipJobs, lost>>
       \/ Lose /\ Goto(r, "done") /\ UNCHANGED shipJobs
    /\ UNCHANGED <<checkpointVars, blocksOn, runState, logVars, row, artifacts, delivered,
                   localVars, failures, crashes>>

InsertArtifact(r) ==
    /\ rpc[r] = "artifact"
    /\ \/ artifacts' = artifacts \cup {rplan[r]} /\ UNCHANGED lost
       \/ Lose /\ UNCHANGED artifacts
    /\ Goto(r, "done")
    /\ UNCHANGED <<checkpointVars, blocksOn, runState, logVars, row, shipJobs, delivered,
                   localVars, failures, crashes>>

(* Back in run.go: the process's maps, run.go's own plan.shipped, and on   *)
(* to the next plan.                                                       *)
Finish(r) ==
    /\ rpc[r] = "finish"
    /\ ShippedEvent(rplan[r])
    /\ rcompleted' = [rcompleted EXCEPT ![r] = @ \cup {rplan[r]}]
    /\ ractive' = [ractive EXCEPT ![r] = @ \ {rplan[r]}]
    /\ Goto(r, "gate")
    /\ UNCHANGED <<checkpointVars, blocksOn, runState, started, rowVars, delivered, ritem,
                   rquestion, rplan, failures, crashes>>

-----------------------------------------------------------------------------
(* A process dies, or a statement whose error it returns fails.            *)
Crash(r) ==
    /\ rpc[r] # "idle"
    /\ crashes < MaxCrashes
    /\ crashes' = crashes + 1
    /\ Exit(r)
    /\ UNCHANGED <<checkpointVars, blocksOn, runState, logVars, rowVars, delivered, failures, lost>>

Working(r) ==
    \/ ArchitectReturns(r) \/ Insert(r) \/ Pair(r)
    \/ Abort(r) \/ Replay(r) \/ LoadManifest(r) \/ Gate(r)
    \/ PlannerReturns(r) \/ PhaseStarted(r) \/ PhaseEnds(r)
    \/ SetRow(r, "running", "running", "phase")
    \/ SetRow(r, "done", "done", "finish")
    \/ SetRow(r, "failed", "failed", "idle")
    \/ CreatePR(r) \/ EmitShipped(r) \/ CreateShipJob(r) \/ InsertArtifact(r)
    \/ Finish(r)

Next ==
    \/ \E r \in Runners :
         \/ StartRun(r) \/ Working(r) \/ Crash(r)
         \/ \E i \in Items : Resume(r, i)
    \/ \E h \in Answerers : Answering(h) /\ UNCHANGED runVars

Spec == Init /\ [][Next]_vars

(* Fairness: a process that was started goes on, and so does a handler     *)
(* that was called.  The last two are assumptions about the person, who    *)
(* answers as long as items wait for an answer, and resumes from every     *)
(* approved item again and again.                                          *)
Fairness ==
    /\ \A r \in Runners : WF_vars(StartRun(r)) /\ WF_vars(Working(r))
    /\ \A h \in Answerers :
         WF_vars((LookupCheckpoint(h) \/ ResolveCheckpoint(h)) /\ UNCHANGED runVars)
    /\ SF_vars(\E h \in Answerers, i \in Items :
                 answer[i] = "none" /\ Answer(h, i, "approve") /\ UNCHANGED runVars)
    /\ \A i \in Items : SF_vars(\E r \in Runners : Resume(r, i))

FairSpec == Spec /\ Fairness

-----------------------------------------------------------------------------
StoreTypeOK ==
    /\ blocksOn \in [Plans -> SUBSET Plans]
    /\ runState \in {"none", "active", "aborted"}
    /\ started \subseteq Plans /\ shipped \subseteq Plans
    /\ row \in [Plans -> PlanStates]
    /\ shipJobs \subseteq Plans /\ artifacts \subseteq Plans
    /\ delivered \subseteq Plans
    /\ failures \in Nat /\ lost \in Nat /\ crashes \in Nat

ProcessTypeOK ==
    /\ rpc \in [Runners -> Pcs]
    /\ ritem \in [Runners -> Items \cup {NoItem}]
    /\ rquestion \in [Runners -> Questions \cup {"none"}]
    /\ rplan \in [Runners -> Plans \cup {NoPlan}]
    /\ rcompleted \in [Runners -> SUBSET Plans]
    /\ ractive \in [Runners -> SUBSET Plans]

TypeOK == CheckpointTypeOK /\ StoreTypeOK /\ ProcessTypeOK

(* The plans people were asked about, and those they approved.             *)
PlansAbout(items) == {about[i] : i \in {j \in items : question[j] = "plan-approved"}}

GatedPlans == PlansAbout(Items)
ApprovedPlans == PlansAbout(approved)

(* However many processes run, die and lose writes: a plan is put to a     *)
(* person only after its dependencies were delivered, and delivered only   *)
(* after a person approved it.                                             *)
Promise == INSTANCE Delivery WITH gated <- GatedPlans, approved <- ApprovedPlans

ImplementsDelivery == Promise!DeliverySpec

(* The inductive invariant behind it.  What the log and the processes call *)
(* completed was delivered;                                                *)
CompletedIsDelivered ==
    /\ shipped \subseteq delivered
    /\ \A r \in Runners : rcompleted[r] \subseteq delivered

(* a plan about to be gated has its dependencies delivered, and so has     *)
(* every plan that was gated;                                              *)
GateInv ==
    \A r \in Runners :
        rpc[r] = "insert" /\ rquestion[r] = "plan-approved" =>
            rplan[r] \in Plans /\ blocksOn[rplan[r]] \subseteq delivered

(* a process past the answer check works on a plan a person approved;      *)
Executing == {"begin", "running", "phase", "work", "pr", "emit", "job", "artifact",
              "done", "finish", "failed"}

ApprovalInv ==
    /\ approved \subseteq {i \in Items : question[i] # "none"}
    /\ \A i \in Items : question[i] = "plan-approved" => about[i] \in Plans
    /\ \A i \in Items : answer[i] = "approve" => i \in approved
    /\ \A r \in Runners :
         /\ rpc[r] \in {"replay", "load", "planner"} /\ rquestion[r] = "plan-approved" =>
                rplan[r] \in ApprovedPlans
         /\ rpc[r] = "planner" => rquestion[r] = "plan-approved"
         /\ rpc[r] \in Executing => rplan[r] \in ApprovedPlans
         /\ rpc[r] \in {"insert", "pair"} /\ ~IsGate(rquestion[r]) =>
                rplan[r] \in ApprovedPlans

(* and one that has opened the pull request works on a delivered plan.     *)
ShipInv ==
    \A r \in Runners : rpc[r] \in {"emit", "job", "artifact", "done", "finish"} =>
        rplan[r] \in delivered

AutopilotInv == TypeOK /\ CompletedIsDelivered /\ GateInv /\ ApprovalInv /\ ShipInv

(* Plans under way never exceed policy.concurrency_limits, over any number *)
(* of processes one after the other, crashes included.                     *)
ActiveWithinLimit == Cardinality(started \ shipped) <= MaxParallelPlans

(* No plan is put to a person twice, over any number of processes one      *)
(* after the other, crashes included.                                      *)
GatedOnce ==
    \A i, j \in Items :
        question[i] = "plan-approved" /\ question[j] = "plan-approved"
            /\ about[i] = about[j] => i = j

(* The plans row says done only of a plan the log says was shipped, so a   *)
(* later process will not offer it again.                                  *)
DoneIsShipped == \A p \in Plans : row[p] = "done" => p \in shipped

(* Once the person was asked about the spec, and if the person approves    *)
(* what is asked and keeps resuming, every plan is delivered, agents'      *)
(* failures notwithstanding.                                               *)
AllPlansDelivered ==
    (\E i \in Items : question[i] = "spec-approved") ~> (delivered = Plans)

-----------------------------------------------------------------------------
(* What run.go tells the person, and the code does not do.                 *)

(* A run whose spec is approved can be resumed: its plans are recorded.    *)
ApprovedSpecIsTakenUp ==
    (\E i \in approved : question[i] = "spec-approved") ~> (\E p \in Plans : row[p] # "none")
=============================================================================
