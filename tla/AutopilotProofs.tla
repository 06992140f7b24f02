--------------------------- MODULE AutopilotProofs ---------------------------
(***************************************************************************)
(* Proofs about Autopilot for any plans, processes, answering handlers,    *)
(* policy and bounds.                                                      *)
(***************************************************************************)
EXTENDS Autopilot, FiniteSetTheorems, TLAPS

(***************************************************************************)
(* Initially everything is empty and the invariant holds.                  *)
(***************************************************************************)
LEMMA InvInit == Init => AutopilotInv
  <1> SUFFICES ASSUME Init PROVE AutopilotInv
    OBVIOUS
  <1>1. TypeOK
    BY SourcesAssumption, ShipsAssumption
    DEF Init, CheckpointInit, TypeOK, CheckpointTypeOK, StoreTypeOK, ProcessTypeOK, Graphs,
        Pcs, PlanStates, NoPlan
  <1>2. CompletedIsDelivered /\ GateInv /\ ShipInv
    BY DEF Init, CompletedIsDelivered, GateInv, ShipInv
  <1>3. ApprovalInv
    BY DEF Init, CheckpointInit, ApprovalInv, Executing
  <1> QED BY <1>1, <1>2, <1>3 DEF AutopilotInv

(***************************************************************************)
(* The four ways a step touches the items: it does not, a process puts a   *)
(* question, a process adds the checkpoint, a person answers.              *)
(***************************************************************************)
ItemsStep ==
    \/ UNCHANGED checkpointVars
    \/ \E r \in Runners, i \in Items :
         /\ rpc[r] = "insert"
         /\ InsertAttention(i, rquestion[r],
                IF rquestion[r] = "plan-approved" THEN rplan[r] ELSE NoPlan)
    \/ \E i : CreateCheckpoint(i)
    \/ \E h \in Answerers : Answering(h)

LEMMA NextItems == [Next]_vars => ItemsStep
  <1> SUFFICES ASSUME [Next]_vars PROVE ItemsStep
    OBVIOUS
  <1> USE DEF ItemsStep
  <1>1. ASSUME NEW r \in Runners, StartRun(r) \/ Crash(r) \/ \E i \in Items : Resume(r, i)
        PROVE ItemsStep
    BY <1>1 DEF StartRun, Crash, Resume
  <1>2. ASSUME NEW r \in Runners, Working(r) PROVE ItemsStep
    <2>1. CASE Insert(r)
      BY <2>1 DEF Insert
    <2>2. CASE Pair(r)
      BY <2>2 DEF Pair
    <2>3. CASE UNCHANGED checkpointVars
      BY <2>3
    <2>4. Insert(r) \/ Pair(r) \/ UNCHANGED checkpointVars
      BY <1>2 DEF Working, ArchitectReturns, Abort, Replay, LoadManifest, Gate, PlannerReturns,
         PhaseStarted, PhaseEnds, SetRow, CreatePR, EmitShipped, CreateShipJob, InsertArtifact, Finish
    <2> QED BY <2>1, <2>2, <2>3, <2>4
  <1>3. CASE UNCHANGED vars
    BY <1>3 DEF vars
  <1> QED BY <1>1, <1>2, <1>3 DEF Next

(***************************************************************************)
(* No statement about the items stores a value outside its type.           *)
(***************************************************************************)
LEMMA CheckpointTypes == TypeOK /\ [Next]_vars => CheckpointTypeOK'
  <1> SUFFICES ASSUME TypeOK, [Next]_vars PROVE CheckpointTypeOK'
    OBVIOUS
  <1> USE DEF TypeOK, CheckpointTypeOK, Questions, Decisions
  <1>1. CASE UNCHANGED checkpointVars
    BY <1>1 DEF checkpointVars, itemVars, answererVars
  <1>2. ASSUME NEW r \in Runners, NEW i \in Items,
               InsertAttention(i, rquestion[r],
                   IF rquestion[r] = "plan-approved" THEN rplan[r] ELSE NoPlan)
        PROVE CheckpointTypeOK'
    BY <1>2, SourcesAssumption DEF InsertAttention, ProcessTypeOK, answererVars, NoPlan
  <1>3. ASSUME NEW i, CreateCheckpoint(i) PROVE CheckpointTypeOK'
    BY <1>3 DEF CreateCheckpoint, answererVars
  <1>4. ASSUME NEW h \in Answerers, Answering(h) PROVE CheckpointTypeOK'
    <2>1. ASSUME NEW i \in Items, NEW a \in Answers, Answer(h, i, a) PROVE CheckpointTypeOK'
      BY <2>1, AnswersAssumption DEF Answer
    <2>2. CASE LookupCheckpoint(h)
      BY <2>2 DEF LookupCheckpoint, AnswererReturns, itemVars
    <2>3. CASE ResolveCheckpoint(h)
      BY <2>3 DEF ResolveCheckpoint, AnswererReturns
    <2> QED BY <1>4, <2>1, <2>2, <2>3 DEF Answering
  <1> QED BY <1>1, <1>2, <1>3, <1>4, NextItems DEF ItemsStep

(***************************************************************************)
(* The scheduler offers plans of the manifest that are neither completed   *)
(* nor under way, and whose dependencies are completed.                    *)
(***************************************************************************)
LEMMA ReadyIsEligible ==
    ASSUME NEW graph, NEW completed, NEW active, NEW p \in ReadyPlans(graph, completed, active)
    PROVE  p \in Plans /\ p \notin completed /\ p \notin active /\ graph[p] \subseteq completed
  BY DEF ReadyPlans, Eligible

(***************************************************************************)
(* A process past the answer check works on a plan of the manifest, and so *)
(* does one that is about to put it to a person.                           *)
(***************************************************************************)
LEMMA WorksOnPlan ==
    ASSUME AutopilotInv, NEW r \in Runners
    PROVE  /\ ApprovedPlans \subseteq Plans
           /\ rpc[r] \in Executing \cup {"planner"} => rplan[r] \in Plans
  <1>1. ApprovedPlans \subseteq Plans
    BY DEF AutopilotInv, ApprovalInv, ApprovedPlans, PlansAbout
  <1> QED BY <1>1 DEF AutopilotInv, ApprovalInv

(***************************************************************************)
(* No statement about the run, its plans or its log stores a value outside *)
(* its type.                                                               *)
(***************************************************************************)
LEMMA StoreTypes == AutopilotInv /\ [Next]_vars => StoreTypeOK'
  <1> SUFFICES ASSUME AutopilotInv, [Next]_vars PROVE StoreTypeOK'
    OBVIOUS
  <1>0. StoreTypeOK
    BY DEF AutopilotInv, TypeOK
  <1> USE <1>0 DEF StoreTypeOK, Fail, Lose, PlanStates, logVars, rowVars, faultVars
  <1>1. ASSUME NEW r \in Runners, Working(r) PROVE StoreTypeOK'
    <2>0. rpc[r] \in Executing => rplan[r] \in Plans
      BY WorksOnPlan
    <2> USE <2>0 DEF Executing
    <2>1. CASE ArchitectReturns(r)
      BY <2>1 DEF ArchitectReturns
    <2>2. CASE Insert(r) \/ Pair(r)
      BY <2>2 DEF Insert, Pair
    <2>3. CASE Abort(r) \/ Replay(r)
      BY <2>3 DEF Abort, Replay
    <2>4. CASE LoadManifest(r)
      BY <2>4 DEF LoadManifest
    <2>5. CASE Gate(r)
      <3>1. started' \subseteq Plans /\ lost' \in Nat
        BY <2>5, ReadyIsEligible DEF Gate
      <3> QED BY <2>5, <3>1 DEF Gate
    <2>6. CASE PlannerReturns(r) \/ PhaseStarted(r)
      BY <2>6 DEF PlannerReturns, PhaseStarted
    <2>7. CASE PhaseEnds(r)
      BY <2>7 DEF PhaseEnds
    <2>8. CASE SetRow(r, "running", "running", "phase")
      BY <2>8 DEF SetRow
    <2>9. CASE SetRow(r, "done", "done", "finish")
      BY <2>9 DEF SetRow
    <2>10. CASE SetRow(r, "failed", "failed", "idle")
      BY <2>10 DEF SetRow
    <2>11. CASE CreatePR(r)
      BY <2>11 DEF CreatePR
    <2>12. CASE EmitShipped(r) \/ Finish(r)
      BY <2>12 DEF EmitShipped, Finish, ShippedEvent
    <2>13. CASE CreateShipJob(r) \/ InsertArtifact(r)
      BY <2>13 DEF CreateShipJob, InsertArtifact
    <2> QED BY <1>1, <2>1, <2>2, <2>3, <2>4, <2>5, <2>6, <2>7, <2>8, <2>9, <2>10, <2>11,
               <2>12, <2>13 DEF Working
  <1>2. ASSUME NEW r \in Runners, StartRun(r) \/ Crash(r) \/ \E i \in Items : Resume(r, i)
        PROVE StoreTypeOK'
    BY <1>2 DEF StartRun, Crash, Resume
  <1>3. CASE UNCHANGED runVars
    BY <1>3 DEF runVars
  <1> QED BY <1>1, <1>2, <1>3 DEF Next, vars

(* A process that exits leaves its variables typed.                        *)
LEMMA ExitTyped ==
    ASSUME ProcessTypeOK, NEW r \in Runners, Exit(r)
    PROVE  ProcessTypeOK'
  BY DEF ProcessTypeOK, Exit, Goto, Pcs

(***************************************************************************)
(* No step of a process stores a value outside its type.                   *)
(***************************************************************************)
LEMMA ProcessTypes == AutopilotInv /\ [Next]_vars => ProcessTypeOK'
  <1> SUFFICES ASSUME AutopilotInv, [Next]_vars PROVE ProcessTypeOK'
    OBVIOUS
  <1>0. ProcessTypeOK /\ StoreTypeOK /\ CheckpointTypeOK
    BY DEF AutopilotInv, TypeOK
  <1> USE <1>0, SourcesAssumption DEF Pcs, Questions, NoPlan, Goto, localVars
  <1>1. ASSUME NEW r \in Runners, Working(r) PROVE ProcessTypeOK'
    <2>0. CASE Exit(r)
      BY <2>0, ExitTyped
    <2> USE DEF ProcessTypeOK
    <2>1. CASE ArchitectReturns(r)
      BY <2>0, <2>1 DEF ArchitectReturns
    <2>2. CASE Insert(r)
      BY <2>2 DEF Insert, AfterItem
    <2>3. CASE Pair(r)
      BY <2>0, <2>3 DEF Pair, AfterItem
    <2>4. CASE Abort(r)
      BY <2>0, <2>4 DEF Abort
    <2>5. CASE Replay(r)
      BY <2>0, <2>5 DEF Replay, StoreTypeOK
    <2>6. CASE LoadManifest(r)
      BY <2>0, <2>6 DEF LoadManifest
    <2>7. CASE Gate(r)
      BY <2>0, <2>7, ReadyIsEligible DEF Gate
    <2>8. CASE PlannerReturns(r)
      BY <2>0, <2>8 DEF PlannerReturns
    <2>9. CASE PhaseStarted(r)
      BY <2>9 DEF PhaseStarted
    <2>10. CASE PhaseEnds(r)
      BY <2>10 DEF PhaseEnds
    <2>11. CASE SetRow(r, "running", "running", "phase")
      BY <2>11 DEF SetRow
    <2>12. CASE SetRow(r, "done", "done", "finish")
      BY <2>12 DEF SetRow
    <2>13. CASE SetRow(r, "failed", "failed", "idle")
      BY <2>0, <2>13 DEF SetRow
    <2>14. CASE CreatePR(r)
      BY <2>14 DEF CreatePR
    <2>15. CASE EmitShipped(r)
      BY <2>15 DEF EmitShipped
    <2>16. CASE CreateShipJob(r)
      BY <2>16 DEF CreateShipJob
    <2>17. CASE InsertArtifact(r)
      BY <2>17 DEF InsertArtifact
    <2>18. CASE Finish(r)
      BY <2>18, WorksOnPlan DEF Finish, Executing
    <2> QED BY <1>1, <2>1, <2>2, <2>3, <2>4, <2>5, <2>6, <2>7, <2>8, <2>9, <2>10, <2>11,
               <2>12, <2>13, <2>14, <2>15, <2>16, <2>17, <2>18 DEF Working
  <1>2. ASSUME NEW r \in Runners, StartRun(r) PROVE ProcessTypeOK'
    BY <1>2 DEF StartRun, ProcessTypeOK
  <1>3. ASSUME NEW r \in Runners, NEW i \in Items, Resume(r, i) PROVE ProcessTypeOK'
    BY <1>3 DEF Resume, ProcessTypeOK, CheckpointTypeOK
  <1>4. ASSUME NEW r \in Runners, Crash(r) PROVE ProcessTypeOK'
    BY <1>4, ExitTyped DEF Crash
  <1>5. CASE UNCHANGED runVars
    BY <1>5 DEF runVars, ProcessTypeOK
  <1> QED BY <1>1, <1>2, <1>3, <1>4, <1>5 DEF Next, vars

(***************************************************************************)
(* What was decided stays decided: no step changes the graph, undoes a     *)
(* delivery, or changes the question an item puts or the plan it is about. *)
(***************************************************************************)
LEMMA GrowOnly ==
    ASSUME AutopilotInv, [Next]_vars
    PROVE  /\ blocksOn' = blocksOn
           /\ delivered \subseteq delivered'
           /\ approved \subseteq approved'
           /\ \A i \in Items : question[i] # "none" =>
                question'[i] = question[i] /\ about'[i] = about[i]
           /\ ApprovedPlans \subseteq ApprovedPlans'
  <1>1. blocksOn' = blocksOn /\ delivered \subseteq delivered'
    <2>1. ASSUME NEW r \in Runners, Working(r)
          PROVE  blocksOn' = blocksOn /\ delivered \subseteq delivered'
      BY <2>1 DEF Working, ArchitectReturns, Insert, Pair, Abort, Replay, LoadManifest, Gate,
         PlannerReturns, PhaseStarted, PhaseEnds, SetRow, CreatePR, EmitShipped, CreateShipJob,
         InsertArtifact, Finish
    <2>2. ASSUME NEW r \in Runners, StartRun(r) \/ Crash(r) \/ \E i \in Items : Resume(r, i)
          PROVE  blocksOn' = blocksOn /\ delivered \subseteq delivered'
      BY <2>2 DEF StartRun, Crash, Resume
    <2> QED BY <2>1, <2>2 DEF Next, vars, runVars
  <1>2. /\ approved \subseteq approved'
        /\ \A i \in Items : question[i] # "none" =>
             question'[i] = question[i] /\ about'[i] = about[i]
    <2>0. CheckpointTypeOK
      BY DEF AutopilotInv, TypeOK
    <2> QED BY <2>0, NextItems DEF ItemsStep, CheckpointTypeOK, InsertAttention, CreateCheckpoint,
         Answering, Answer, LookupCheckpoint, ResolveCheckpoint, checkpointVars, itemVars
  <1>3. \A i \in approved : i \in Items /\ question[i] # "none"
    BY DEF AutopilotInv, ApprovalInv
  <1> QED BY <1>1, <1>2, <1>3 DEF ApprovedPlans, PlansAbout

(***************************************************************************)
(* What the log and the processes call completed was delivered.            *)
(***************************************************************************)
LEMMA CompletedStep == AutopilotInv /\ [Next]_vars => CompletedIsDelivered'
  <1> SUFFICES ASSUME AutopilotInv, [Next]_vars PROVE CompletedIsDelivered'
    OBVIOUS
  <1>0. CompletedIsDelivered /\ ShipInv /\ ProcessTypeOK /\ delivered \subseteq delivered'
    BY GrowOnly DEF AutopilotInv, TypeOK
  <1> USE DEF CompletedIsDelivered
  <1>1. ASSUME NEW r \in Runners, Working(r) PROVE CompletedIsDelivered'
    <2>0. CASE Exit(r) /\ UNCHANGED shipped
      BY <1>0, <2>0 DEF Exit, ProcessTypeOK
    <2>1. CASE UNCHANGED <<shipped, rcompleted>>
      BY <1>0, <2>1
    <2>2. CASE Replay(r)
      BY <1>0, <2>0, <2>2 DEF Replay, ProcessTypeOK, logVars
    <2>3. CASE EmitShipped(r)
      BY <1>0, <2>3 DEF EmitShipped, ShippedEvent, ShipInv, localVars
    <2>4. CASE Finish(r)
      <3>1. rplan[r] \in delivered
        BY <1>0, <2>4 DEF Finish, ShipInv
      <3>2. shipped' \subseteq delivered'
        BY <1>0, <2>4, <3>1 DEF Finish, ShippedEvent
      <3>3. \A s \in Runners : rcompleted'[s] \subseteq delivered'
        BY <1>0, <2>4, <3>1 DEF Finish, ProcessTypeOK
      <3> QED BY <3>2, <3>3
    <2>5. \/ Exit(r) /\ UNCHANGED shipped
          \/ UNCHANGED <<shipped, rcompleted>>
          \/ Replay(r) \/ EmitShipped(r) \/ Finish(r)
      BY <1>1 DEF Working, ArchitectReturns, Insert, Pair, Abort, LoadManifest, Gate,
         PlannerReturns, PhaseStarted, PhaseEnds, SetRow, CreatePR, CreateShipJob,
         InsertArtifact, logVars, localVars
    <2> QED BY <2>0, <2>1, <2>2, <2>3, <2>4, <2>5
  <1>2. ASSUME NEW r \in Runners, StartRun(r) \/ \E i \in Items : Resume(r, i)
        PROVE CompletedIsDelivered'
    BY <1>0, <1>2 DEF StartRun, Resume, logVars, localVars
  <1>3. ASSUME NEW r \in Runners, Crash(r) PROVE CompletedIsDelivered'
    BY <1>0, <1>3 DEF Crash, Exit, ProcessTypeOK, logVars
  <1>4. CASE UNCHANGED runVars
    BY <1>0, <1>4 DEF runVars, logVars, localVars
  <1> QED BY <1>1, <1>2, <1>3, <1>4 DEF Next, vars

(***************************************************************************)
(* One process moves at a time: the others stay where they are, with the   *)
(* question and the plan they have.                                        *)
(***************************************************************************)
OthersStay(r) ==
    \A s \in Runners \ {r} :
        rpc'[s] = rpc[s] /\ rquestion'[s] = rquestion[s] /\ rplan'[s] = rplan[s]

LEMMA OneMoves ==
    ASSUME ProcessTypeOK, NEW r \in Runners,
           Working(r) \/ StartRun(r) \/ Crash(r) \/ \E i \in Items : Resume(r, i)
    PROVE  OthersStay(r)
  <1> USE DEF OthersStay, ProcessTypeOK, Exit, Goto, localVars
  <1>1. CASE Working(r)
    <2>1. CASE ArchitectReturns(r) \/ Insert(r) \/ Pair(r)
      BY <2>1 DEF ArchitectReturns, Insert, Pair
    <2>2. CASE Abort(r) \/ Replay(r) \/ LoadManifest(r) \/ PlannerReturns(r)
      BY <2>2 DEF Abort, Replay, LoadManifest, PlannerReturns
    <2>3. CASE Gate(r)
      BY <2>3 DEF Gate
    <2>4. CASE PhaseStarted(r) \/ PhaseEnds(r)
      BY <2>4 DEF PhaseStarted, PhaseEnds
    <2>5. CASE \/ SetRow(r, "running", "running", "phase")
               \/ SetRow(r, "done", "done", "finish")
               \/ SetRow(r, "failed", "failed", "idle")
      BY <2>5 DEF SetRow
    <2>6. CASE \/ CreatePR(r) \/ EmitShipped(r) \/ CreateShipJob(r) \/ InsertArtifact(r)
               \/ Finish(r)
      BY <2>6 DEF CreatePR, EmitShipped, CreateShipJob, InsertArtifact, Finish
    <2> QED BY <1>1, <2>1, <2>2, <2>3, <2>4, <2>5, <2>6 DEF Working
  <1>2. CASE StartRun(r) \/ Crash(r) \/ \E i \in Items : Resume(r, i)
    BY <1>2 DEF StartRun, Crash, Resume
  <1> QED BY <1>1, <1>2

(***************************************************************************)
(* A plan is put to a person only after its dependencies were delivered:   *)
(* the scheduler takes them from the plans the process calls completed.    *)
(***************************************************************************)
LEMMA GateStep == AutopilotInv /\ [Next]_vars => GateInv'
  <1> SUFFICES ASSUME AutopilotInv, [Next]_vars PROVE GateInv'
    OBVIOUS
  <1>0. /\ GateInv /\ CompletedIsDelivered /\ ProcessTypeOK
        /\ blocksOn' = blocksOn /\ delivered \subseteq delivered'
    BY GrowOnly DEF AutopilotInv, TypeOK
  <1> DEFINE AboutToGate(r) == rpc[r] = "insert" /\ rquestion[r] = "plan-approved"
  <1>1. ASSUME NEW r \in Runners,
               Working(r) \/ StartRun(r) \/ Crash(r) \/ \E i \in Items : Resume(r, i)
        PROVE GateInv'
    <2>1. CASE Gate(r)
      <3>1. AboutToGate(r)' => rplan'[r] \in Plans /\ blocksOn[rplan'[r]] \subseteq delivered
        BY <1>0, <2>1, ReadyIsEligible DEF Gate, Exit, Goto, ProcessTypeOK, CompletedIsDelivered
      <3> QED BY <1>0, <1>1, <3>1, OneMoves DEF GateInv, OthersStay
    <2>2. CASE ~AboutToGate(r)'
      BY <1>0, <1>1, <2>2, OneMoves DEF GateInv, OthersStay
    <2>3. Gate(r) \/ ~AboutToGate(r)'
      BY <1>0, <1>1 DEF StartRun, Crash, Resume, Working, ArchitectReturns, Insert, Pair, Abort,
         Replay, LoadManifest, PlannerReturns, PhaseStarted, PhaseEnds, SetRow, CreatePR,
         EmitShipped, CreateShipJob, InsertArtifact, Finish, AfterItem, Exit, Goto, ProcessTypeOK
    <2> QED BY <2>1, <2>2, <2>3
  <1>2. CASE UNCHANGED runVars
    BY <1>0, <1>2 DEF runVars, localVars, GateInv
  <1> QED BY <1>1, <1>2 DEF Next, vars

(***************************************************************************)
(* Past the pull request a process works on a plan that was delivered.     *)
(***************************************************************************)
LEMMA ShipStep == AutopilotInv /\ [Next]_vars => ShipInv'
  <1> SUFFICES ASSUME AutopilotInv, [Next]_vars PROVE ShipInv'
    OBVIOUS
  <1>0. ShipInv /\ ProcessTypeOK /\ delivered \subseteq delivered'
    BY GrowOnly DEF AutopilotInv, TypeOK
  <1> DEFINE Shipped(r) == rpc[r] \in {"emit", "job", "artifact", "done", "finish"}
  <1>1. ASSUME NEW r \in Runners,
               Working(r) \/ StartRun(r) \/ Crash(r) \/ \E i \in Items : Resume(r, i)
        PROVE ShipInv'
    <2>1. Shipped(r)' => rplan'[r] = rplan[r] /\ (Shipped(r) \/ rplan[r] \in delivered')
      BY <1>0, <1>1 DEF StartRun, Crash, Resume, Working, ArchitectReturns, Insert, Pair, Abort,
         Replay, LoadManifest, Gate, PlannerReturns, PhaseStarted, PhaseEnds, SetRow, CreatePR,
         EmitShipped, CreateShipJob, InsertArtifact, Finish, AfterItem, Exit, Goto, ProcessTypeOK,
         localVars
    <2> QED BY <1>0, <1>1, <2>1, OneMoves DEF ShipInv, OthersStay
  <1>2. CASE UNCHANGED runVars
    BY <1>0, <1>2 DEF runVars, localVars, ShipInv
  <1> QED BY <1>1, <1>2 DEF Next, vars

(***************************************************************************)
(* Only items that exist are answered, the question of a gate is about a   *)
(* plan, and an item that reads "approve" was approved.                    *)
(***************************************************************************)
LEMMA ItemsApproved ==
    ASSUME AutopilotInv, [Next]_vars
    PROVE  /\ approved' \subseteq {i \in Items : question'[i] # "none"}
           /\ \A i \in Items : question'[i] = "plan-approved" => about'[i] \in Plans
           /\ \A i \in Items : answer'[i] = "approve" => i \in approved'
  <1> DEFINE ItemsInv == /\ approved \subseteq {i \in Items : question[i] # "none"}
                         /\ \A i \in Items : question[i] = "plan-approved" => about[i] \in Plans
                         /\ \A i \in Items : answer[i] = "approve" => i \in approved
  <1>0. CheckpointTypeOK /\ ItemsInv /\ GateInv
    BY DEF AutopilotInv, TypeOK, ApprovalInv
  <1> USE DEF CheckpointTypeOK
  <1>1. CASE UNCHANGED checkpointVars
    BY <1>0, <1>1 DEF checkpointVars, itemVars
  <1>2. ASSUME NEW r \in Runners, NEW i \in Items, rpc[r] = "insert",
               InsertAttention(i, rquestion[r],
                   IF rquestion[r] = "plan-approved" THEN rplan[r] ELSE NoPlan)
        PROVE  ItemsInv'
    <2>1. i \notin approved
      BY <1>0, <1>2 DEF InsertAttention
    <2> QED BY <1>0, <1>2, <2>1 DEF InsertAttention, GateInv
  <1>3. ASSUME NEW i, CreateCheckpoint(i) PROVE ItemsInv'
    BY <1>0, <1>3 DEF CreateCheckpoint
  <1>4. ASSUME NEW h \in Answerers, Answering(h) PROVE ItemsInv'
    <2>1. ASSUME NEW i \in Items, NEW a \in Answers, Answer(h, i, a) PROVE ItemsInv'
      BY <1>0, <2>1 DEF Answer
    <2>2. CASE LookupCheckpoint(h) \/ ResolveCheckpoint(h)
      BY <1>0, <2>2 DEF LookupCheckpoint, ResolveCheckpoint, itemVars
    <2> QED BY <1>4, <2>1, <2>2 DEF Answering
  <1>5. ItemsInv'
    BY <1>1, <1>2, <1>3, <1>4, NextItems DEF ItemsStep
  <1> QED BY <1>5

(***************************************************************************)
(* A process past the answer check works on a plan a person approved.      *)
(***************************************************************************)
WorksApproved(r) ==
    /\ rpc[r] \in {"replay", "load", "planner"} /\ rquestion[r] = "plan-approved" =>
           rplan[r] \in ApprovedPlans
    /\ rpc[r] = "planner" => rquestion[r] = "plan-approved"
    /\ rpc[r] \in Executing => rplan[r] \in ApprovedPlans
    /\ rpc[r] \in {"insert", "pair"} /\ ~IsGate(rquestion[r]) => rplan[r] \in ApprovedPlans

LEMMA ApprovalStep == AutopilotInv /\ [Next]_vars => ApprovalInv'
  <1> SUFFICES ASSUME AutopilotInv, [Next]_vars PROVE ApprovalInv'
    OBVIOUS
  <1>0. /\ ProcessTypeOK /\ CheckpointTypeOK
        /\ ApprovedPlans \subseteq ApprovedPlans'
        /\ \A r \in Runners : WorksApproved(r)
    BY GrowOnly DEF AutopilotInv, TypeOK, ApprovalInv, WorksApproved
  <1>1. SUFFICES \A r \in Runners : WorksApproved(r)'
    BY <1>1, ItemsApproved DEF ApprovalInv, WorksApproved
  <1>2. ASSUME NEW r \in Runners,
               Working(r) \/ StartRun(r) \/ Crash(r) \/ \E i \in Items : Resume(r, i),
               WorksApproved(r)'
        PROVE \A s \in Runners : WorksApproved(s)'
    BY <1>0, <1>2, OneMoves DEF WorksApproved, OthersStay
  <1>3. ASSUME NEW r \in Runners, NEW i \in Items, Resume(r, i) PROVE WorksApproved(r)'
    <2>1. answer[i] = "approve" /\ question[i] = "plan-approved" => about[i] \in ApprovedPlans
      BY DEF AutopilotInv, ApprovalInv, ApprovedPlans, PlansAbout
    <2> QED BY <1>0, <1>3, <2>1 DEF Resume, Goto, WorksApproved, ProcessTypeOK, Executing
  <1>4. ASSUME NEW r \in Runners, StartRun(r) \/ Crash(r) PROVE WorksApproved(r)'
    BY <1>0, <1>4 DEF StartRun, Crash, Exit, Goto, WorksApproved, ProcessTypeOK, Executing
  <1>5. ASSUME NEW r \in Runners, Working(r) PROVE WorksApproved(r)'
    <2> USE <1>0 DEF WorksApproved, ProcessTypeOK, Goto, Exit, Executing, IsGate, localVars
    <2>1. CASE ArchitectReturns(r) \/ Abort(r) \/ Replay(r)
      BY <2>1 DEF ArchitectReturns, Abort, Replay
    <2>2. CASE Insert(r) \/ Pair(r)
      BY <2>2 DEF Insert, Pair, AfterItem
    <2>3. CASE LoadManifest(r) \/ PlannerReturns(r)
      BY <2>3 DEF LoadManifest, PlannerReturns
    <2>4. CASE Gate(r)
      BY <2>4 DEF Gate
    <2>5. CASE PhaseStarted(r) \/ PhaseEnds(r)
      BY <2>5 DEF PhaseStarted, PhaseEnds
    <2>6. CASE \/ SetRow(r, "running", "running", "phase")
               \/ SetRow(r, "done", "done", "finish")
               \/ SetRow(r, "failed", "failed", "idle")
      BY <2>6 DEF SetRow
    <2>7. CASE \/ CreatePR(r) \/ EmitShipped(r) \/ CreateShipJob(r) \/ InsertArtifact(r)
               \/ Finish(r)
      BY <2>7 DEF CreatePR, EmitShipped, CreateShipJob, InsertArtifact, Finish
    <2> QED BY <1>5, <2>1, <2>2, <2>3, <2>4, <2>5, <2>6, <2>7 DEF Working
  <1>6. CASE UNCHANGED runVars
    BY <1>0, <1>6 DEF runVars, localVars, WorksApproved
  <1> QED BY <1>2, <1>3, <1>4, <1>5, <1>6 DEF Next, vars

(***************************************************************************)
(* The invariant is inductive.                                             *)
(***************************************************************************)
LEMMA InvStep == AutopilotInv /\ [Next]_vars => AutopilotInv'
  <1>1. AutopilotInv /\ [Next]_vars => TypeOK'
    BY CheckpointTypes, StoreTypes, ProcessTypes DEF AutopilotInv, TypeOK
  <1> QED BY <1>1, CompletedStep, GateStep, ApprovalStep, ShipStep DEF AutopilotInv

(***************************************************************************)
(* However many processes run a manifest, die and lose writes: what the    *)
(* log calls shipped was delivered, a plan put to a person has its         *)
(* dependencies delivered, and a process past the answer check works on a  *)
(* plan a person approved.                                                 *)
(***************************************************************************)
THEOREM AutopilotInvariant == Spec => []AutopilotInv
  BY InvInit, InvStep, PTL DEF Spec

(***************************************************************************)
(* A delivery is a step of its own, of a plan a person approved.           *)
(***************************************************************************)
LEMMA DeliveredStep ==
    ASSUME AutopilotInv, [Next]_vars
    PROVE  \/ UNCHANGED delivered
           \/ /\ UNCHANGED itemVars
              /\ \E p \in ApprovedPlans : delivered' = delivered \cup {p}
  <1>1. ASSUME NEW r \in Runners, PhaseEnds(r) \/ CreatePR(r)
        PROVE  \/ UNCHANGED delivered
               \/ /\ UNCHANGED itemVars
                  /\ \E p \in ApprovedPlans : delivered' = delivered \cup {p}
    <2>1. rplan[r] \in ApprovedPlans
      BY <1>1 DEF PhaseEnds, CreatePR, AutopilotInv, ApprovalInv, Executing
    <2> QED BY <1>1, <2>1 DEF PhaseEnds, CreatePR, checkpointVars
  <1>2. ASSUME NEW r \in Runners, Working(r), ~(PhaseEnds(r) \/ CreatePR(r))
        PROVE UNCHANGED delivered
    BY <1>2 DEF Working, ArchitectReturns, Insert, Pair, Abort, Replay, LoadManifest, Gate,
       PlannerReturns, PhaseStarted, SetRow, EmitShipped, CreateShipJob, InsertArtifact, Finish
  <1>3. ASSUME NEW r \in Runners, StartRun(r) \/ Crash(r) \/ \E i \in Items : Resume(r, i)
        PROVE UNCHANGED delivered
    BY <1>3 DEF StartRun, Crash, Resume
  <1> QED BY <1>1, <1>2, <1>3 DEF Next, vars, runVars

(***************************************************************************)
(* What a step about the items means to the promise: nothing, a plan is    *)
(* gated with its dependencies delivered, or a gated plan is approved.     *)
(***************************************************************************)
LEMMA ItemsRefine ==
    ASSUME AutopilotInv, ItemsStep
    PROVE  \/ GatedPlans' = GatedPlans /\ ApprovedPlans' = ApprovedPlans
           \/ \E p \in Plans : /\ blocksOn[p] \subseteq delivered
                               /\ GatedPlans' = GatedPlans \cup {p}
                               /\ ApprovedPlans' = ApprovedPlans
           \/ \E p \in GatedPlans : /\ GatedPlans' = GatedPlans
                                    /\ ApprovedPlans' = ApprovedPlans \cup {p}
  <1>0. /\ CheckpointTypeOK /\ GateInv
        /\ approved \subseteq {i \in Items : question[i] # "none"}
    BY DEF AutopilotInv, TypeOK, ApprovalInv
  <1> USE DEF GatedPlans, ApprovedPlans, PlansAbout
  <1>1. CASE UNCHANGED <<question, about, approved>>
    BY <1>1
  <1>2. ASSUME NEW r \in Runners, NEW i \in Items, rpc[r] = "insert",
               InsertAttention(i, rquestion[r],
                   IF rquestion[r] = "plan-approved" THEN rplan[r] ELSE NoPlan)
        PROVE  /\ ApprovedPlans' = ApprovedPlans
               /\ \/ GatedPlans' = GatedPlans
                  \/ /\ GatedPlans' = GatedPlans \cup {rplan[r]}
                     /\ rplan[r] \in Plans /\ blocksOn[rplan[r]] \subseteq delivered
    <2>1. i \notin approved /\ approved' = approved /\ question[i] = "none"
      BY <1>0, <1>2 DEF InsertAttention
    <2>2. \A j \in Items \ {i} : question'[j] = question[j] /\ about'[j] = about[j]
      BY <1>0, <1>2 DEF InsertAttention, CheckpointTypeOK
    <2>3. ApprovedPlans' = ApprovedPlans
      BY <1>0, <2>1, <2>2
    <2>4. CASE rquestion[r] = "plan-approved"
      <3>1. question'[i] = "plan-approved" /\ about'[i] = rplan[r]
        BY <1>0, <1>2, <2>4 DEF InsertAttention, CheckpointTypeOK
      <3>2. GatedPlans' = GatedPlans \cup {rplan[r]}
        BY <2>1, <2>2, <3>1
      <3> QED BY <1>0, <1>2, <2>3, <2>4, <3>2 DEF GateInv
    <2>5. CASE rquestion[r] # "plan-approved"
      <3>1. question'[i] # "plan-approved"
        BY <1>0, <1>2, <2>5 DEF InsertAttention, CheckpointTypeOK
      <3>2. GatedPlans' = GatedPlans
        BY <2>1, <2>2, <3>1
      <3> QED BY <2>3, <3>2
    <2> QED BY <2>4, <2>5
  <1>3. ASSUME NEW i \in Items, question[i] # "none", UNCHANGED <<question, about>>,
               approved' = approved \cup {i}
        PROVE  /\ GatedPlans' = GatedPlans
               /\ \/ ApprovedPlans' = ApprovedPlans
                  \/ \E p \in GatedPlans : ApprovedPlans' = ApprovedPlans \cup {p}
    <2>1. CASE question[i] = "plan-approved"
      <3>1. ApprovedPlans' = ApprovedPlans \cup {about[i]}
        BY <1>3, <2>1
      <3> QED BY <1>3, <2>1, <3>1
    <2>2. CASE question[i] # "plan-approved"
      BY <1>3, <2>2
    <2> QED BY <2>1, <2>2
  <1>4. \/ UNCHANGED <<question, about, approved>>
        \/ \E r \in Runners, i \in Items :
             /\ rpc[r] = "insert"
             /\ InsertAttention(i, rquestion[r],
                    IF rquestion[r] = "plan-approved" THEN rplan[r] ELSE NoPlan)
        \/ \E i \in Items : /\ question[i] # "none"
                            /\ UNCHANGED <<question, about>>
                            /\ approved' = approved \cup {i}
    BY DEF ItemsStep, CreateCheckpoint, Answering, Answer, LookupCheckpoint, ResolveCheckpoint,
       checkpointVars, itemVars
  <1> QED BY <1>1, <1>2, <1>3, <1>4

(***************************************************************************)
(* The autopilot keeps the promise of Delivery: a plan is put to a person  *)
(* only after its dependencies were delivered, and is delivered only after *)
(* a person approved it.                                                   *)
(***************************************************************************)
THEOREM DeliveryRefinement == Spec => ImplementsDelivery
  <1>1. Init => Promise!DeliveryInit
    BY DEF Init, CheckpointInit, Graphs, Promise!DeliveryInit, GatedPlans, ApprovedPlans, PlansAbout
  <1>2. AutopilotInv /\ [Next]_vars => [Promise!DeliveryNext]_(Promise!deliveryVars)
    <2> SUFFICES ASSUME AutopilotInv, [Next]_vars
                 PROVE  \/ Promise!DeliveryNext
                        \/ UNCHANGED <<blocksOn, GatedPlans, ApprovedPlans, delivered>>
      BY DEF Promise!deliveryVars
    <2>0. blocksOn' = blocksOn /\ ApprovedPlans \subseteq Plans /\ GatedPlans \subseteq Plans
      BY GrowOnly DEF AutopilotInv, ApprovalInv, GatedPlans, ApprovedPlans, PlansAbout
    <2> USE DEF Promise!DeliveryNext
    <2>1. ASSUME NEW p \in ApprovedPlans, delivered' = delivered \cup {p}, UNCHANGED itemVars
          PROVE  Promise!DeliveryNext
      <3>1. GatedPlans' = GatedPlans /\ ApprovedPlans' = ApprovedPlans
        BY <2>1 DEF itemVars, GatedPlans, ApprovedPlans, PlansAbout
      <3> QED BY <2>0, <2>1, <3>1 DEF Promise!DeliverPlan
    <2>2. ASSUME UNCHANGED delivered
          PROVE  \/ Promise!DeliveryNext
                 \/ UNCHANGED <<blocksOn, GatedPlans, ApprovedPlans, delivered>>
      <3>1. ASSUME NEW p \in Plans, blocksOn[p] \subseteq delivered,
                   GatedPlans' = GatedPlans \cup {p}, ApprovedPlans' = ApprovedPlans
            PROVE  Promise!DeliveryNext
        BY <2>0, <2>2, <3>1 DEF Promise!GatePlan
      <3>2. ASSUME NEW p \in GatedPlans, GatedPlans' = GatedPlans,
                   ApprovedPlans' = ApprovedPlans \cup {p}
            PROVE  Promise!DeliveryNext
        BY <2>0, <2>2, <3>2 DEF Promise!ApprovePlan
      <3> QED BY <2>0, <2>2, <3>1, <3>2, ItemsRefine, NextItems
    <2> QED BY <2>1, <2>2, DeliveredStep
  <1> QED BY <1>1, <1>2, AutopilotInvariant, PTL
          DEF Spec, ImplementsDelivery, Promise!DeliverySpec

-----------------------------------------------------------------------------
(***************************************************************************)
(* While no write is lost, a row is marked done only after the shipper's   *)
(* event: the two are written in that order.                               *)
(***************************************************************************)
DoneInv ==
    /\ DoneIsShipped
    /\ \A r \in Runners : rpc[r] \in {"job", "artifact", "done"} => rplan[r] \in shipped

(* With no write to lose, none is lost.                                    *)
LEMMA NoLoss == ASSUME MaxLost = 0, AutopilotInv PROVE ~Lose
  BY DEF AutopilotInv, TypeOK, StoreTypeOK, Lose

(* A row is marked done after the events of its plan, which stay in the log. *)
LEMMA DoneKept ==
    ASSUME MaxLost = 0, Shipping, AutopilotInv, DoneInv, [Next]_vars
    PROVE  DoneInv'
  <1>0. ProcessTypeOK /\ StoreTypeOK /\ ~Lose
    BY NoLoss DEF AutopilotInv, TypeOK
  <1> DEFINE Logged(r) == rpc[r] \in {"job", "artifact", "done"}
  <1>1. ASSUME NEW r \in Runners,
               Working(r) \/ StartRun(r) \/ Crash(r) \/ \E i \in Items : Resume(r, i)
        PROVE DoneInv'
    <2>1. /\ shipped \subseteq shipped'
          /\ Logged(r)' => rplan'[r] = rplan[r] /\ (Logged(r) \/ rplan[r] \in shipped')
      BY <1>0, <1>1 DEF StartRun, Crash, Resume, Working, ArchitectReturns, Insert, Pair, Abort,
         Replay, LoadManifest, Gate, PlannerReturns, PhaseStarted, PhaseEnds, SetRow, CreatePR,
         EmitShipped, CreateShipJob, InsertArtifact, Finish, AfterItem, Exit, Goto, ProcessTypeOK,
         ShippedEvent, localVars, logVars
    <2>2. ASSUME NEW p \in Plans, row'[p] = "done", row[p] # "done" PROVE rpc[r] = "done" /\ p = rplan[r]
      BY <1>0, <1>1, <2>2 DEF StartRun, Crash, Resume, Working, ArchitectReturns, Insert, Pair,
         Abort, Replay, LoadManifest, Gate, PlannerReturns, PhaseStarted, PhaseEnds, SetRow,
         CreatePR, EmitShipped, CreateShipJob, InsertArtifact, Finish, StoreTypeOK, rowVars
    <2>3. DoneIsShipped'
      BY <2>1, <2>2 DEF DoneInv, DoneIsShipped
    <2>4. \A s \in Runners : Logged(s)' => rplan'[s] \in shipped'
      BY <1>0, <1>1, <2>1, OneMoves DEF DoneInv, OthersStay
    <2> QED BY <2>3, <2>4 DEF DoneInv
  <1>2. CASE UNCHANGED runVars
    BY <1>2 DEF runVars, rowVars, logVars, localVars, DoneInv, DoneIsShipped
  <1> QED BY <1>1, <1>2 DEF Next, vars

(***************************************************************************)
(* With shipping on and no write lost, the plans row says done only of     *)
(* plans the log says were shipped, whatever processes run and die.        *)
(***************************************************************************)
THEOREM ShippedBeforeDone ==
    ASSUME MaxLost = 0, Shipping
    PROVE  Spec => []DoneIsShipped
  <1>1. Init => DoneInv
    BY DEF Init, DoneInv, DoneIsShipped
  <1>2. AutopilotInv /\ DoneInv /\ [Next]_vars => DoneInv'
    BY DoneKept
  <1>3. DoneInv => DoneIsShipped
    BY DEF DoneInv
  <1> QED BY <1>1, <1>2, <1>3, AutopilotInvariant, PTL DEF Spec

-----------------------------------------------------------------------------
(***************************************************************************)
(* One process at a time and no write lost: a process's maps are what the  *)
(* log says, up to the plan it is shipping, so that a plan the log calls   *)
(* started is neither gated again nor given a second slot.                 *)
(***************************************************************************)
OneProcess == \A q, r \in Runners : q = r

BehindOnlyBy(r, plans) ==
    /\ rcompleted[r] \subseteq shipped
    /\ shipped \subseteq rcompleted[r] \cup plans
    /\ ractive[r] = started \ rcompleted[r]

MapsInv ==
    \A r \in Runners :
        /\ rpc[r] \in {"load", "gate", "planner", "begin", "running", "phase", "work", "pr", "emit"}
              => BehindOnlyBy(r, {})
        /\ rpc[r] \in {"insert", "pair"} /\ rquestion[r] = "ready-to-ship" => BehindOnlyBy(r, {})
        /\ rpc[r] \in {"job", "artifact", "done", "finish"} => BehindOnlyBy(r, {rplan[r]})

GatedInv ==
    /\ GatedPlans \subseteq started
    /\ GatedOnce
    /\ \A r \in Runners : rpc[r] = "insert" /\ rquestion[r] = "plan-approved" =>
          rplan[r] \in started /\ rplan[r] \notin GatedPlans

RecordInv == MapsInv /\ GatedInv /\ ActiveWithinLimit

(* The plan a process works on was recorded as started.                    *)
LEMMA WorksOnStarted ==
    ASSUME AutopilotInv, GatedInv, NEW r \in Runners, rpc[r] \in Executing
    PROVE  rplan[r] \in started
  <1>1. ApprovedPlans \subseteq GatedPlans
    BY DEF AutopilotInv, ApprovalInv, ApprovedPlans, GatedPlans, PlansAbout
  <1> QED BY <1>1 DEF AutopilotInv, ApprovalInv, GatedInv

(* A step that is neither a gate nor a question records no new plan.       *)
LEMMA StartedKept ==
    ASSUME MaxLost = 0, AutopilotInv, GatedInv, NEW r \in Runners,
           \/ Working(r) /\ ~Gate(r)
           \/ StartRun(r) \/ Crash(r) \/ \E i \in Items : Resume(r, i)
    PROVE  started' = started
  <1>1. CASE PhaseStarted(r)
    BY <1>1, NoLoss, WorksOnStarted DEF PhaseStarted, Executing
  <1> QED BY <1>1 DEF StartRun, Crash, Resume, Working, ArchitectReturns, Insert, Pair, Abort,
       Replay, LoadManifest, PlannerReturns, PhaseEnds, SetRow, CreatePR, EmitShipped,
       CreateShipJob, InsertArtifact, Finish, logVars

(* The maps follow the log, behind by the plan that is being shipped.      *)
LEMMA MapsKept ==
    ASSUME OneProcess, MaxLost = 0, AutopilotInv, MapsInv, GatedInv, NEW r \in Runners,
           Working(r) \/ StartRun(r) \/ Crash(r) \/ \E i \in Items : Resume(r, i)
    PROVE  MapsInv'
  <1>0. ProcessTypeOK /\ ~Lose /\ \A s \in Runners : s = r
    BY NoLoss DEF AutopilotInv, TypeOK, OneProcess
  <1> USE <1>0 DEF MapsInv, BehindOnlyBy, ProcessTypeOK, Goto, logVars, localVars
  <1>1. CASE Exit(r)
    BY <1>1 DEF Exit
  <1>2. CASE Gate(r)
    BY <1>1, <1>2 DEF Gate
  <1>3. CASE Replay(r)
    BY <1>1, <1>3 DEF Replay
  <1>4. CASE EmitShipped(r)
    BY <1>4 DEF EmitShipped, ShippedEvent
  <1>5. CASE Finish(r)
    BY <1>5 DEF Finish, ShippedEvent
  <1>6. CASE PhaseStarted(r)
    BY <1>6, StartedKept DEF PhaseStarted, Working, Gate
  <1>7. CASE \/ ArchitectReturns(r) \/ Insert(r) \/ Pair(r) \/ Abort(r) \/ LoadManifest(r)
             \/ PlannerReturns(r)
    BY <1>1, <1>7 DEF ArchitectReturns, Insert, Pair, Abort, LoadManifest, PlannerReturns,
       AfterItem, IsGate
  <1>8. CASE \/ PhaseEnds(r) \/ CreatePR(r) \/ CreateShipJob(r) \/ InsertArtifact(r)
             \/ SetRow(r, "running", "running", "phase") \/ SetRow(r, "done", "done", "finish")
             \/ SetRow(r, "failed", "failed", "idle")
    BY <1>1, <1>8 DEF PhaseEnds, CreatePR, CreateShipJob, InsertArtifact, SetRow
  <1>9. CASE StartRun(r) \/ Crash(r) \/ \E i \in Items : Resume(r, i)
    BY <1>1, <1>9 DEF StartRun, Crash, Resume
  <1> QED BY <1>2, <1>3, <1>4, <1>5, <1>6, <1>7, <1>8, <1>9 DEF Working

(* Only a question of a gate adds a plan, and that of the gate's process.  *)
LEMMA GatedKept ==
    ASSUME OneProcess, MaxLost = 0, AutopilotInv, MapsInv, GatedInv, [Next]_vars
    PROVE  GatedInv'
  <1>0. /\ ProcessTypeOK /\ CheckpointTypeOK /\ StoreTypeOK /\ ~Lose
        /\ \A q, r \in Runners : q = r
    BY NoLoss DEF AutopilotInv, TypeOK, OneProcess
  <1> DEFINE AboutToGate(r) == rpc[r] = "insert" /\ rquestion[r] = "plan-approved"
  <1>1. ASSUME UNCHANGED <<question, about>>, started \subseteq started',
               \A r \in Runners : AboutToGate(r)' =>
                   rplan'[r] \in started' /\ rplan'[r] \notin GatedPlans
        PROVE  GatedInv'
    BY <1>1 DEF GatedInv, GatedOnce, GatedPlans, PlansAbout
  <1>2. ASSUME NEW r \in Runners, Gate(r) PROVE GatedInv'
    <2>1. UNCHANGED <<question, about>>
      BY <1>2 DEF Gate, checkpointVars, itemVars
    <2>2. CASE Exit(r) /\ UNCHANGED started
      <3>1. ~AboutToGate(r)'
        BY <1>0, <2>2 DEF Exit, Goto, ProcessTypeOK
      <3> QED BY <1>0, <1>1, <2>1, <2>2, <3>1
    <2>3. ASSUME NEW p \in ReadyPlans(blocksOn, rcompleted[r], ractive[r]),
                 started' = started \cup {p}, rplan' = [rplan EXCEPT ![r] = p]
          PROVE  GatedInv'
      <3>1. p \notin started
        BY <1>2, <2>3, ReadyIsEligible DEF Gate, MapsInv, BehindOnlyBy
      <3>2. rplan'[r] = p /\ p \notin GatedPlans
        BY <1>0, <2>3, <3>1 DEF ProcessTypeOK, GatedInv
      <3> QED BY <1>0, <1>1, <2>1, <2>3, <3>2
    <2> QED BY <1>0, <1>2, <2>2, <2>3 DEF Gate
  <1>3. ASSUME NEW r \in Runners, Insert(r) PROVE GatedInv'
    <2>1. started' = started /\ rquestion' = rquestion /\ rplan' = rplan
      BY <1>3 DEF Insert, logVars
    <2>2. ~AboutToGate(r)'
      BY <1>0, <1>3 DEF Insert, Goto, AfterItem, ProcessTypeOK
    <2>3. CASE UNCHANGED <<question, about>>
      BY <1>0, <1>1, <2>1, <2>2, <2>3
    <2>4. ASSUME NEW i \in Items,
                 InsertAttention(i, rquestion[r],
                     IF rquestion[r] = "plan-approved" THEN rplan[r] ELSE NoPlan)
          PROVE  GatedInv'
      <3>1. /\ question[i] = "none"
            /\ question'[i] = rquestion[r]
            /\ rquestion[r] = "plan-approved" => about'[i] = rplan[r]
            /\ \A j \in Items \ {i} : question'[j] = question[j] /\ about'[j] = about[j]
        BY <1>0, <2>4 DEF InsertAttention, CheckpointTypeOK
      <3>2. rquestion[r] = "plan-approved" => rplan[r] \in started /\ rplan[r] \notin GatedPlans
        BY <1>3 DEF Insert, GatedInv
      <3>3. GatedPlans' \subseteq started'
        BY <2>1, <3>1, <3>2 DEF GatedInv, GatedPlans, PlansAbout
      <3>4. GatedOnce'
        BY <3>1, <3>2 DEF GatedInv, GatedOnce, GatedPlans, PlansAbout
      <3> QED BY <1>0, <2>2, <3>3, <3>4 DEF GatedInv
    <2> QED BY <1>3, <2>3, <2>4 DEF Insert, checkpointVars, itemVars
  <1>4. ASSUME NEW r \in Runners,
               \/ Working(r) /\ ~Gate(r) /\ ~Insert(r)
               \/ StartRun(r) \/ Crash(r) \/ \E i \in Items : Resume(r, i)
        PROVE  GatedInv'
    <2>1. started' = started
      BY <1>4, StartedKept
    <2>2. ~AboutToGate(r)' /\ UNCHANGED <<question, about>>
      BY <1>0, <1>4 DEF StartRun, Crash, Resume, Working, ArchitectReturns, Pair, Abort, Replay,
         LoadManifest, PlannerReturns, PhaseStarted, PhaseEnds, SetRow, CreatePR, EmitShipped,
         CreateShipJob, InsertArtifact, Finish, AfterItem, Exit, Goto, ProcessTypeOK,
         CreateCheckpoint, checkpointVars, itemVars
    <2> QED BY <1>0, <1>1, <2>1, <2>2
  <1>5. CASE UNCHANGED runVars /\ UNCHANGED <<question, about>>
    BY <1>1, <1>5 DEF runVars, logVars, localVars, GatedInv
  <1>6. ASSUME NEW h \in Answerers, Answering(h) PROVE UNCHANGED <<question, about>>
    BY <1>6 DEF Answering, Answer, LookupCheckpoint, ResolveCheckpoint, itemVars
  <1> QED BY <1>2, <1>3, <1>4, <1>5, <1>6 DEF Next, vars, checkpointVars, itemVars

(* A gate takes a slot only if the log leaves one free.                    *)
LEMMA LimitKept ==
    ASSUME OneProcess, MaxLost = 0, AutopilotInv, MapsInv, GatedInv, ActiveWithinLimit, [Next]_vars
    PROVE  ActiveWithinLimit'
  <1>0. /\ StoreTypeOK /\ ~Lose /\ MaxParallelPlans \in Nat
        /\ IsFiniteSet(started \ shipped) /\ Cardinality(started \ shipped) \in Nat
    <2>1. StoreTypeOK /\ ~Lose
      BY NoLoss DEF AutopilotInv, TypeOK
    <2>2. (started \ shipped) \in SUBSET Plans
      BY <2>1 DEF StoreTypeOK
    <2>3. IsFiniteSet(started \ shipped)
      BY <2>2, PlansAssumption, FS_Subset
    <2> QED BY <2>1, <2>3, FS_CardinalityType, PolicyAssumption DEF MaxParallelPlans
  <1>1. ASSUME started' \ shipped' \subseteq started \ shipped PROVE ActiveWithinLimit'
    <2>1. /\ IsFiniteSet(started' \ shipped')
          /\ Cardinality(started' \ shipped') <= Cardinality(started \ shipped)
      BY <1>0, <1>1, FS_Subset
    <2>2. Cardinality(started' \ shipped') \in Nat
      BY <2>1, FS_CardinalityType
    <2> QED BY <1>0, <2>1, <2>2 DEF ActiveWithinLimit, MaxParallelPlans
  <1>2. ASSUME NEW r \in Runners, Gate(r) PROVE ActiveWithinLimit'
    <2>1. CASE UNCHANGED started
      BY <1>1, <1>2, <2>1 DEF Gate
    <2>2. ASSUME NEW p \in ReadyPlans(blocksOn, rcompleted[r], ractive[r]),
                 started' = started \cup {p}, shipped' = shipped
          PROVE  ActiveWithinLimit'
      <3>1. ractive[r] = started \ shipped /\ rcompleted[r] = shipped
        BY <1>2 DEF Gate, MapsInv, BehindOnlyBy
      <3>2. started' \ shipped' = (started \ shipped) \cup {p}
        BY <2>2, <3>1, ReadyIsEligible
      <3>3. Cardinality(started' \ shipped') <= Cardinality(started \ shipped) + 1
        <4> DEFINE active == started \ shipped
        <4>1. IsFiniteSet(active) /\ Cardinality(active) \in Nat
          BY <1>0
        <4> HIDE DEF active
        <4>2. Cardinality(active \cup {p}) =
                 IF p \in active THEN Cardinality(active) ELSE Cardinality(active) + 1
          BY <4>1, FS_AddElement, Zenon
        <4>3. Cardinality(active \cup {p}) <= Cardinality(active) + 1
          BY <4>1, <4>2
        <4> QED BY <3>2, <4>3 DEF active
      <3>4. Cardinality(started \ shipped) < MaxParallelPlans
        <4> DEFINE eligible == Eligible(blocksOn, rcompleted[r], ractive[r])
                   before == {q \in eligible : q < p}
        <4>1. before \in SUBSET Plans
          BY DEF Eligible
        <4>2. Cardinality(before) \in Nat
          BY <4>1, PlansAssumption, FS_Subset, FS_CardinalityType
        <4>3. Cardinality(before) + Cardinality(ractive[r]) < MaxParallelPlans
          BY <2>2 DEF ReadyPlans
        <4> HIDE DEF before
        <4> QED BY <1>0, <3>1, <4>2, <4>3
      <3>5. Cardinality(started' \ shipped') \in Nat
        BY <1>0, <3>2, FS_AddElement, FS_CardinalityType
      <3> QED BY <1>0, <3>3, <3>4, <3>5 DEF ActiveWithinLimit, MaxParallelPlans
    <2> QED BY <1>0, <1>2, <2>1, <2>2 DEF Gate
  <1>3. ASSUME NEW r \in Runners,
               \/ Working(r) /\ ~Gate(r)
               \/ StartRun(r) \/ Crash(r) \/ \E i \in Items : Resume(r, i)
        PROVE  ActiveWithinLimit'
    <2>1. started' = started
      BY <1>3, StartedKept
    <2>2. shipped \subseteq shipped'
      BY <1>3 DEF StartRun, Crash, Resume, Working, ArchitectReturns, Insert, Pair, Abort, Replay,
         LoadManifest, PlannerReturns, PhaseStarted, PhaseEnds, SetRow, CreatePR, EmitShipped,
         CreateShipJob, InsertArtifact, Finish, ShippedEvent, logVars
    <2> QED BY <1>1, <2>1, <2>2
  <1>4. CASE UNCHANGED runVars
    BY <1>1, <1>4 DEF runVars, logVars
  <1> QED BY <1>2, <1>3, <1>4 DEF Next, vars

(* The maps, the gated plans and the limit together.                       *)
LEMMA RecordKept ==
    ASSUME OneProcess, MaxLost = 0, AutopilotInv, RecordInv, [Next]_vars
    PROVE  RecordInv'
  <1>1. ASSUME UNCHANGED runVars PROVE MapsInv'
    BY <1>1 DEF runVars, logVars, localVars, RecordInv, MapsInv, BehindOnlyBy
  <1>2. MapsInv'
    BY <1>1, MapsKept DEF RecordInv, Next, vars
  <1> QED BY <1>2, GatedKept, LimitKept DEF RecordInv

LEMMA RecordInit == Init => RecordInv
  <1> SUFFICES ASSUME Init PROVE RecordInv
    OBVIOUS
  <1>1. MapsInv /\ GatedInv
    BY DEF Init, CheckpointInit, MapsInv, GatedInv, GatedOnce, GatedPlans, PlansAbout
  <1>2. ActiveWithinLimit
    BY PolicyAssumption, FS_EmptySet DEF Init, ActiveWithinLimit, MaxParallelPlans
  <1> QED BY <1>1, <1>2 DEF RecordInv

(***************************************************************************)
(* One process at a time, no write lost, any number of them dying: no plan *)
(* is put to a person twice.                                               *)
(***************************************************************************)
THEOREM GatedOnlyOnce ==
    ASSUME OneProcess, MaxLost = 0
    PROVE  Spec => []GatedOnce
  <1>1. AutopilotInv /\ RecordInv /\ [Next]_vars => RecordInv'
    BY RecordKept
  <1>2. RecordInv => GatedOnce
    BY DEF RecordInv, GatedInv
  <1> QED BY <1>1, <1>2, RecordInit, AutopilotInvariant, PTL DEF Spec

(***************************************************************************)
(* One process at a time, no write lost, any number of them dying: the     *)
(* plans under way stay within the policy's limit.                         *)
(***************************************************************************)
THEOREM WithinLimit ==
    ASSUME OneProcess, MaxLost = 0
    PROVE  Spec => []ActiveWithinLimit
  <1>1. AutopilotInv /\ RecordInv /\ [Next]_vars => RecordInv'
    BY RecordKept
  <1>2. RecordInv => ActiveWithinLimit
    BY DEF RecordInv
  <1> QED BY <1>1, <1>2, RecordInit, AutopilotInvariant, PTL DEF Spec

(***************************************************************************)
(* Without an event that names the manifest, as the code stands, a process *)
(* never gets past the log it resumes from.                                *)
(***************************************************************************)
NothingUnderWay ==
    /\ started = {} /\ shipped = {} /\ delivered = {}
    /\ \A p \in Plans : row[p] = "none"

BeforeManifest ==
    \A r \in Runners :
        /\ rpc[r] \in {"idle", "architect", "insert", "pair", "abort", "replay"}
        /\ rpc[r] \in {"insert", "pair"} => rquestion[r] = "spec-approved"

(* Replay ends the process, and nobody else gets as far.                   *)
LEMMA StaysBeforeManifest ==
    ASSUME ~ManifestInLog, AutopilotInv, NothingUnderWay, BeforeManifest, [Next]_vars
    PROVE  NothingUnderWay' /\ BeforeManifest'
  <1> USE DEF AutopilotInv, TypeOK, ProcessTypeOK
  <1>1. CASE UNCHANGED runVars
    BY <1>1 DEF runVars, logVars, rowVars, localVars, NothingUnderWay, BeforeManifest
  <1>2. ASSUME NEW r \in Runners,
               Working(r) \/ StartRun(r) \/ Crash(r) \/ \E i \in Items : Resume(r, i)
        PROVE  NothingUnderWay' /\ BeforeManifest'
    <2>1. /\ rpc[r] \in {"idle", "architect", "insert", "pair", "abort", "replay"}
          /\ rpc[r] \in {"insert", "pair"} => rquestion[r] = "spec-approved"
      BY DEF BeforeManifest
    <2>2. /\ UNCHANGED <<started, shipped, delivered, row>>
          /\ rpc'[r] \in {"idle", "architect", "insert", "pair", "abort", "replay"}
          /\ rpc'[r] \in {"insert", "pair"} => rquestion'[r] = "spec-approved"
      <3>1. CASE ArchitectReturns(r) \/ Abort(r) \/ Replay(r) \/ Insert(r) \/ Pair(r)
        BY <2>1, <3>1 DEF ArchitectReturns, Abort, Replay, Insert, Pair, IsGate, Goto, Exit,
           logVars,
           rowVars, localVars
      <3>2. CASE StartRun(r) \/ Crash(r) \/ \E i \in Items : Resume(r, i)
        BY <3>2 DEF StartRun, Crash, Resume, Goto, Exit, logVars, rowVars, localVars
      <3>3. ASSUME ~(ArchitectReturns(r) \/ Abort(r) \/ Replay(r) \/ Insert(r) \/ Pair(r)), Working(r)
            PROVE  FALSE
        BY <2>1, <3>3 DEF Working, LoadManifest, Gate, PlannerReturns, PhaseStarted, PhaseEnds,
           SetRow, CreatePR, EmitShipped, CreateShipJob, InsertArtifact, Finish
      <3> QED BY <1>2, <3>1, <3>2, <3>3
    <2>3. \A s \in Runners \ {r} : rpc'[s] = rpc[s] /\ rquestion'[s] = rquestion[s]
      BY <1>2, OneMoves DEF OthersStay
    <2> QED BY <2>2, <2>3 DEF NothingUnderWay, BeforeManifest
  <1> QED BY <1>1, <1>2 DEF Next, vars

(***************************************************************************)
(* What no_manifest shows of one plan, for any plans and any number of     *)
(* processes, answers and resumptions: without that event nothing is       *)
(* started, delivered or recorded.                                         *)
(***************************************************************************)
THEOREM NothingWithoutManifest ==
    ASSUME ~ManifestInLog
    PROVE  Spec => []NothingUnderWay
  <1>1. Init => NothingUnderWay /\ BeforeManifest
    BY DEF Init, NothingUnderWay, BeforeManifest
  <1>2. AutopilotInv /\ NothingUnderWay /\ BeforeManifest /\ [Next]_vars
            => NothingUnderWay' /\ BeforeManifest'
    BY StaysBeforeManifest
  <1> QED BY <1>1, <1>2, AutopilotInvariant, PTL DEF Spec
=============================================================================
