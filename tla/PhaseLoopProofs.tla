--------------------------- MODULE PhaseLoopProofs ---------------------------
(***************************************************************************)
(* Proofs about a phase and its calls, for any roles, rules, agents,       *)
(* retries and fix cycles: what is open, charged and recorded when it      *)
(* ends, and that it implements FixLoop.                                   *)
(***************************************************************************)
EXTENDS PhaseLoop, TLAPS

Products == [exit : Int, findings : SUBSET Findings]

(* A call that began has a number.                                         *)
Counted == \A c \in Roles : dpc[c] # "idle" => round[c] > 0

Types == LoopTypeOK /\ product \in [Roles -> Products] /\ Counted

(* Where the calls are, by where the loop is.                              *)
Ended == {"completed", "exhausted", "item", "pair", "failed", "done"}
Returned == {"idle", "ok", "error"}

CallsOfLoop ==
    /\ lpc \in {"start", "develop", "invoke"} => \A c \in Roles : dpc[c] = "idle"
    /\ lpc \in {"developing", "invoked"} => \A r \in Group : dpc[r] = "idle"
    /\ lpc = "fan-out" => dpc[Developer] = "ok"
    /\ lpc \in Ended => \A c \in Roles : dpc[c] \in Returned

RolesOfLoop ==
    /\ \A r \in skipped : dpc[r] = "idle"
    /\ skipped # {} => lpc \in Ended \cup {"fan-out"}
    /\ outcome = "none" <=> lpc \notin Ended
    /\ lpc = "start" => cycles = 0
    /\ outcome \in {"clean", "dirty"} => \A c \in Roles \ skipped : dpc[c] = "ok"

(* Only `coworker invoke` gives a call its own run, and has it closed last.*)
RunOfCall ==
    /\ Invoked <=> wiring = Bare
    /\ ownRun # "none" => lpc = "invoked"
    /\ \A c \in Roles : dpc[c] \in {"open", "close", "close-failed"} => lpc = "invoked"
    /\ ownRun \in {"completed", "failed"} => dpc[Developer] \in {"ok", "error"}

Control == CallsOfLoop /\ RolesOfLoop /\ RunOfCall

(* What keeps a call from finishing its job as it should: a write that was *)
(* lost, a signal, or a reviewer that failed.                              *)
GroupFailed == \E d \in Group : dpc[d] = "error"
Excused == lost > 0 \/ interrupted \/ GroupFailed

(* The job of the attempt that is under way.                               *)
Leased == {"permit", "wait", "cost", "judge", "save", "finish", "fail"}

CurrentJob(c) ==
    /\ agent[c] <=> dpc[c] = "wait"
    /\ dpc[c] = "lease" => jobs[<<c, round[c], attempt[c]>>] = "pending"
    /\ dpc[c] \in Leased => jobs[<<c, round[c], attempt[c]>>] = "dispatched"

(* Jobs are made in the order of the calls and of their attempts.          *)
InTurn(c) ==
    \A n \in 1..MaxRounds, a \in 0..MaxRetries :
        jobs[<<c, n, a>>] # "absent" =>
            \/ n < round[c]
            \/ n = round[c] /\ a < attempt[c]
            \/ n = round[c] /\ a = attempt[c] /\ dpc[c] \notin {"open", "create"}

(* A job that is open is that of the attempt under way.                    *)
OpenJobs(c) ==
    \A n \in 1..MaxRounds, a \in 0..MaxRetries :
        jobs[<<c, n, a>>] \in {"pending", "dispatched"} =>
            \/ Excused
            \/ n = round[c] /\ a = attempt[c] /\ dpc[c] \in Leased \cup {"lease"}

(* What was not charged for is not over, or ended in an error.             *)
Uncharged == {"lease", "permit", "wait", "cost", "fail", "close-failed", "error"}

Charges(c) ==
    \A n \in 1..MaxRounds, a \in 0..MaxRetries :
        wiring.costs /\ c \in ReportsCost /\ jobs[<<c, n, a>>] # "absent" =>
            \/ <<c, n, a>> \in costed
            \/ Excused
            \/ n = round[c] /\ a = attempt[c] /\ dpc[c] \in Uncharged

(* The findings of a call are on record, or still to be saved.             *)
Recorded(c) ==
    dpc[c] \in {"save", "finish", "close", "ok"} =>
        /\ dpc[c] # "save" => unsaved[c] = {}
        /\ Excused \/ \A f \in product[c].findings :
                          f \in unsaved[c] \/ <<<<c, round[c], attempt[c]>>, f>> \in findings

CallInv(c) == CurrentJob(c) /\ InTurn(c) /\ OpenJobs(c) /\ Charges(c) /\ Recorded(c)
CallsInv == \A c \in Roles : CallInv(c)

(* When the run of `coworker invoke` is closed no job is open.             *)
ClosedRun ==
    lost = 0 /\ ownRun \in {"completed", "failed"} =>
        \A j \in JobIds : jobs[j] \notin {"pending", "dispatched"}

LoopInv == Types /\ Control /\ CallsInv /\ ClosedRun /\ FeedbackOnRecord
-----------------------------------------------------------------------------
(* The limits, defaults and clamps applied, are proper numbers.            *)
LEMMA Bounds == MaxRetries \in Nat /\ MaxFixCycles \in Nat \ {0} /\ MaxRounds = MaxFixCycles + 1
  BY RetriesAssumption, CyclesAssumption, RoundsAssumption DEF MaxRetries, MaxFixCycles

(* What agents produce, and what a call has before they do, are products.  *)
LEMMA OutcomeType == \A c \in Roles : Outcomes[c] \cup {NoProduct} \subseteq Products
  BY OutcomesAssumption DEF Products, NoProduct

(* A call that began works on a job of its own.                            *)
LEMMA JobTypes ==
  ASSUME Types, NEW c \in Roles, dpc[c] # "idle"
  PROVE  JobOf(c) \in JobIds
  BY Bounds DEF Types, LoopTypeOK, DispatchTypeOK, Counted, JobOf, JobIds

LEMMA InitLoopInv == Init => LoopInv
  <1> SUFFICES ASSUME Init PROVE LoopInv
    OBVIOUS
  <1> USE Bounds, DispatchBoundsAssumption DEF Init, DispatchInit
  <1>1. Types
    <2>1. DispatchTypeOK
      <3>1. \A c \in Roles : product[c] \in Outcomes[c] \cup {NoProduct}
        OBVIOUS
      <3>2. /\ dpc \in [Roles -> CallStates] /\ jobs \in [JobIds -> JobStates]
            /\ round \in [Roles -> 0..MaxRounds] /\ attempt \in [Roles -> 0..MaxRetries]
        BY DEF CallStates, JobStates
      <3> QED BY <3>1, <3>2 DEF DispatchTypeOK
    <2>2. LoopTypeOK
      BY <2>1 DEF LoopTypeOK, LoopStates
    <2>3. product \in [Roles -> Products]
      BY OutcomeType
    <2> QED BY <2>2, <2>3 DEF Types, Counted
  <1>2. Control
    BY DEF Init, DispatchInit, Control, CallsOfLoop, RolesOfLoop, RunOfCall, Ended, Returned,
       Invoked
  <1>3. CallsInv
    BY DEF Init, DispatchInit, CallsInv, CallInv, CurrentJob, InTurn, OpenJobs, Charges, Recorded,
       Leased, Uncharged, JobIds
  <1>4. ClosedRun /\ FeedbackOnRecord
    BY DEF Init, DispatchInit, ClosedRun, FeedbackOnRecord
  <1> QED BY <1>1, <1>2, <1>3, <1>4 DEF LoopInv
-----------------------------------------------------------------------------
(* A step of a call changes nothing of the others.                         *)
Frame(c) ==
    /\ UNCHANGED <<round, wiring, perms, interrupted>>
    /\ \A d \in Roles \ {c} :
         /\ dpc'[d] = dpc[d] /\ attempt'[d] = attempt[d] /\ product'[d] = product[d]
         /\ unsaved'[d] = unsaved[d] /\ agent'[d] = agent[d]
    /\ \A j \in JobIds : j # JobOf(c) => jobs'[j] = jobs[j]
    /\ findings \subseteq findings' /\ costed \subseteq costed' /\ lost <= lost'
    /\ dpc[c] \notin Returned /\ dpc'[c] \notin {"idle", "open"}

(* The steps of a call keep the types.                                     *)
LEMMA CallTypes ==
  ASSUME Types, NEW c \in Roles, Orchestrate(c)
  PROVE  DispatchTypeOK' /\ product' \in [Roles -> Products] /\ Counted'
  <1> USE Bounds DEF Types, LoopTypeOK, DispatchTypeOK, CallStates, JobStates, Counted
  <1>1. JobOf(c) \in JobIds
    <2>1. dpc[c] # "idle"
      BY DEF Orchestrate, OpenRun, Render, CreateJob, Lease, Deny, StartAgent, AgentExits,
         RecordCost, Accept, Refuse, Breach, SaveFinding, FinishJob, FailJob, CloseRun
    <2> QED BY <2>1, JobTypes
  <1>2. CASE OpenRun(c)
    BY <1>1, <1>2 DEF OpenRun, Goto, Commits, WriteFails, Lose, MayFail
  <1>3. CASE Render(c)
    BY <1>1, <1>3 DEF Render, Goto, Fail, MayFail, tableVars
  <1>4. CASE CreateJob(c)
    BY <1>1, <1>4 DEF CreateJob, Goto, SetJob, Commits, WriteFails, Lose, MayFail, AfterError
  <1>5. CASE Lease(c)
    BY <1>1, <1>5 DEF Lease, Goto, SetJob, Commits, WriteFails, Lose, MayFail, AfterError
  <1>6. CASE Deny(c)
    BY <1>1, <1>6 DEF Deny, Goto, Commits, WriteFails, Lose, MayFail
  <1>7. CASE StartAgent(c)
    <2>1. /\ UNCHANGED <<wiring, perms, round, attempt, product, unsaved, tableVars, tree, interrupted, lost>>
          /\ failures' \in Nat
      BY <1>7 DEF StartAgent, Fail, MayFail
    <2>2. dpc' \in [Roles -> CallStates] /\ agent' \in [Roles -> BOOLEAN]
      BY <1>7 DEF StartAgent, Goto
    <2>3. \A d \in Roles : dpc'[d] # "idle" => round[d] > 0
      BY <1>7 DEF StartAgent, Goto
    <2> QED BY <2>1, <2>2, <2>3 DEF tableVars
  <1>8. CASE AgentExits(c)
    BY <1>1, <1>8, OutcomeType DEF AgentExits, Goto, Fail, MayFail, tableVars
  <1>9. CASE RecordCost(c)
    BY <1>1, <1>9 DEF RecordCost, Goto, Commits, WriteFails, Lose, MayFail
  <1>10. CASE Accept(c)
    BY <1>1, <1>10 DEF Accept, Goto, tableVars, Products
  <1>11. CASE Refuse(c)
    BY <1>1, <1>11 DEF Refuse, Goto, SetJob, Commits, WriteFails, Lose, MayFail, RetryLeft
  <1>12. CASE Breach(c)
    BY <1>1, <1>12 DEF Breach, Goto, Commits, WriteFails, Lose, MayFail, Products
  <1>13. CASE SaveFinding(c)
    BY <1>1, <1>13 DEF SaveFinding, Goto, Commits, WriteFails, Lose, MayFail
  <1>14. CASE FinishJob(c)
    BY <1>1, <1>14 DEF FinishJob, Goto, SetJob, Commits, WriteFails, Lose, MayFail
  <1>15. CASE FailJob(c)
    BY <1>1, <1>15 DEF FailJob, Goto, SetJob, Commits, WriteFails, Lose, MayFail, AfterError
  <1>16. CASE CloseRun(c)
    BY <1>1, <1>16 DEF CloseRun, Goto, Commits, WriteFails, Lose, MayFail
  <1> QED BY <1>2, <1>3, <1>4, <1>5, <1>6, <1>7, <1>8, <1>9, <1>10, <1>11, <1>12, <1>13, <1>14,
     <1>15, <1>16 DEF Orchestrate

(* A step of one call leaves the others, the loop and their jobs alone.    *)
LEMMA CallFrame ==
  ASSUME Types, NEW c \in Roles, Orchestrate(c)
  PROVE  Frame(c)
  <1> USE DEF Types, LoopTypeOK, DispatchTypeOK, Frame, Returned
  <1>1. CASE OpenRun(c)
    BY <1>1 DEF OpenRun, Goto, Commits, WriteFails, Lose, MayFail
  <1>2. CASE Render(c)
    BY <1>2 DEF Render, Goto, Fail, MayFail, tableVars
  <1>3. CASE CreateJob(c)
    BY <1>3 DEF CreateJob, Goto, SetJob, Commits, WriteFails, Lose, MayFail, AfterError
  <1>4. CASE Lease(c)
    BY <1>4 DEF Lease, Goto, SetJob, Commits, WriteFails, Lose, MayFail, AfterError
  <1>5. CASE Deny(c)
    BY <1>5 DEF Deny, Goto, Commits, WriteFails, Lose, MayFail
  <1>6. CASE StartAgent(c)
    BY <1>6 DEF StartAgent, Goto, Fail, MayFail, tableVars
  <1>7. CASE AgentExits(c)
    BY <1>7 DEF AgentExits, Goto, Fail, MayFail, tableVars
  <1>8. CASE RecordCost(c)
    BY <1>8 DEF RecordCost, Goto, Commits, WriteFails, Lose, MayFail
  <1>9. CASE Accept(c)
    BY <1>9 DEF Accept, Goto, tableVars
  <1>10. CASE Refuse(c)
    BY <1>10 DEF Refuse, Goto, SetJob, Commits, WriteFails, Lose, MayFail, RetryLeft
  <1>11. CASE Breach(c)
    BY <1>11 DEF Breach, Goto, Commits, WriteFails, Lose, MayFail
  <1>12. CASE SaveFinding(c)
    BY <1>12 DEF SaveFinding, Goto, Commits, WriteFails, Lose, MayFail
  <1>13. CASE FinishJob(c)
    BY <1>13 DEF FinishJob, Goto, SetJob, Commits, WriteFails, Lose, MayFail
  <1>14. CASE FailJob(c)
    BY <1>14 DEF FailJob, Goto, SetJob, Commits, WriteFails, Lose, MayFail, AfterError
  <1>15. CASE CloseRun(c)
    BY <1>15 DEF CloseRun, Goto, Commits, WriteFails, Lose, MayFail
  <1> QED BY <1>1, <1>2, <1>3, <1>4, <1>5, <1>6, <1>7, <1>8, <1>9, <1>10, <1>11, <1>12, <1>13,
     <1>14, <1>15 DEF Orchestrate

(* An exception stays one, and a step makes one only for a reason.         *)
LEMMA Excusing ==
  ASSUME Types, NEW c \in Roles, Orchestrate(c)
  PROVE  /\ Excused \/ WriteFails(c) => Excused'
         /\ Excused' => Excused \/ lost' > 0 \/ (c \in Group /\ dpc'[c] = "error")
  <1>1. Frame(c) /\ lost \in Nat /\ lost' \in Nat
    BY CallFrame, CallTypes DEF Types, LoopTypeOK, DispatchTypeOK
  <1>2. \A d \in Group : d \in Roles /\ (dpc[d] = "error" => dpc'[d] = "error")
    BY <1>1, GroupAssumption DEF Frame, Returned
  <1>3. \A d \in Group : dpc'[d] = "error" => dpc[d] = "error" \/ (d = c /\ dpc'[c] = "error")
    BY <1>1, GroupAssumption DEF Frame
  <1> QED BY <1>1, <1>2, <1>3 DEF Frame, Excused, GroupFailed, WriteFails, CtxDone, Lose, MayFail

(* A step of a call keeps what is said of that call,                       *)
LEMMA OwnCall ==
  ASSUME Types, NEW c \in Roles, CallInv(c), Orchestrate(c)
  PROVE  CallInv(c)'
  <1>1. /\ round[c] \in 1..MaxRounds /\ attempt[c] \in 0..MaxRetries
        /\ round' = round /\ wiring' = wiring /\ attempt'[c] \in 0..MaxRetries
        /\ costed \subseteq costed' /\ findings \subseteq findings'
        /\ \A n \in 1..MaxRounds, a \in 0..MaxRetries :
             ~(n = round[c] /\ a = attempt[c]) => jobs'[<<c, n, a>>] = jobs[<<c, n, a>>]
        /\ MaxRetries \in Nat /\ MaxRounds \in Nat
    <2>1. Frame(c) /\ JobOf(c) \in JobIds /\ attempt'[c] \in 0..MaxRetries
      BY CallFrame, CallTypes, JobTypes DEF Frame, Returned, DispatchTypeOK
    <2> QED BY <2>1, Bounds DEF Frame, JobOf, JobIds
  <1>2. (Excused => Excused') /\ (WriteFails(c) => Excused')
    BY Excusing
  <1> USE DEF Types, LoopTypeOK, DispatchTypeOK, CallInv, CurrentJob, InTurn, OpenJobs, Charges, Recorded
  <1>3. CASE OpenRun(c)
    BY <1>1, <1>2, <1>3 DEF OpenRun, Goto, Commits, WriteFails, Lose, MayFail, JobOf, JobIds,
       Leased, Uncharged, CallStates, JobStates
  <1>4. CASE Render(c)
    BY <1>1, <1>2, <1>4 DEF Render, Goto, Fail, MayFail, tableVars, JobOf, JobIds, Leased,
       Uncharged, CallStates, JobStates
  <1>5. CASE CreateJob(c)
    <2>1. /\ dpc[c] = "create" /\ dpc'[c] \in {"lease", "error", "close-failed"} /\ attempt'[c] = attempt[c]
          /\ UNCHANGED <<product, unsaved, agent, findings, costed>>
          /\ \/ jobs'[<<c, round[c], attempt[c]>>] = "pending" /\ dpc'[c] = "lease"
             \/ jobs' = jobs /\ Excused' /\ dpc'[c] # "lease"
      BY <1>1, <1>2, <1>5 DEF CreateJob, Goto, SetJob, Commits, WriteFails, AfterError, JobOf,
         JobIds
    <2>2. CurrentJob(c)' /\ InTurn(c)'
      BY <1>1, <2>1 DEF Leased
    <2>3. OpenJobs(c)'
      BY <1>1, <1>2, <2>1 DEF Leased
    <2>4. Charges(c)' /\ Recorded(c)'
      BY <1>1, <1>2, <2>1 DEF Uncharged, Leased
    <2> QED BY <2>2, <2>3, <2>4
  <1>6. CASE Lease(c)
    BY <1>1, <1>2, <1>6 DEF Lease, Goto, SetJob, Commits, WriteFails, Lose, MayFail, AfterError,
       JobOf, JobIds, Leased, Uncharged, CallStates, JobStates
  <1>7. CASE Deny(c)
    BY <1>1, <1>2, <1>7 DEF Deny, Goto, Commits, WriteFails, Lose, MayFail, JobOf, JobIds, Leased,
       Uncharged, CallStates, JobStates
  <1>8. CASE StartAgent(c)
    BY <1>1, <1>2, <1>8 DEF StartAgent, Goto, Fail, MayFail, tableVars, JobOf, JobIds, Leased,
       Uncharged, CallStates, JobStates
  <1>9. CASE AgentExits(c)
    BY <1>1, <1>2, <1>9 DEF AgentExits, Goto, Fail, MayFail, tableVars, JobOf, JobIds, Leased,
       Uncharged, CallStates, JobStates
  <1>10. CASE RecordCost(c)
    <2>1. /\ dpc[c] = "cost" /\ dpc'[c] = "judge" /\ attempt' = attempt
          /\ UNCHANGED <<product, unsaved, agent, findings, jobs>>
          /\ \/ <<c, round[c], attempt[c]>> \in costed'
             \/ Excused' \/ ~(wiring.costs /\ c \in ReportsCost)
      BY <1>1, <1>2, <1>10 DEF RecordCost, Goto, JobOf, Charged
    <2>2. CurrentJob(c)' /\ InTurn(c)' /\ OpenJobs(c)'
      BY <1>1, <1>2, <2>1 DEF Leased
    <2>3. Charges(c)' /\ Recorded(c)'
      BY <1>1, <1>2, <2>1 DEF Uncharged, Leased
    <2> QED BY <2>2, <2>3
  <1>11. CASE Accept(c)
    BY <1>1, <1>2, <1>11 DEF Accept, Goto, tableVars, JobOf, JobIds, Leased, Uncharged, CallStates,
       JobStates
  <1>12. CASE Refuse(c)
    <2>1. /\ dpc[c] = "judge" /\ dpc'[c] = "create" /\ attempt'[c] = attempt[c] + 1
          /\ UNCHANGED <<product, unsaved, agent, findings, costed>>
          /\ \/ jobs'[<<c, round[c], attempt[c]>>] = "failed"
             \/ jobs' = jobs /\ Excused'
      BY <1>1, <1>2, <1>12 DEF Refuse, Goto, SetJob, RetryLeft, JobOf, JobIds
    <2>2. CurrentJob(c)' /\ InTurn(c)'
      BY <1>1, <2>1 DEF Leased
    <2>3. OpenJobs(c)'
      BY <1>1, <1>2, <2>1 DEF Leased
    <2>4. Charges(c)' /\ Recorded(c)'
      BY <1>1, <1>2, <2>1 DEF Uncharged, Leased
    <2> QED BY <2>2, <2>3, <2>4
  <1>13. CASE Breach(c)
    BY <1>1, <1>2, <1>13 DEF Breach, Goto, Commits, WriteFails, Lose, MayFail, JobOf, JobIds,
       Leased, Uncharged, CallStates, JobStates
  <1>14. CASE SaveFinding(c)
    BY <1>1, <1>2, <1>14 DEF SaveFinding, Goto, Commits, WriteFails, Lose, MayFail, JobOf, JobIds,
       Leased, Uncharged, CallStates, JobStates
  <1>15. CASE FinishJob(c)
    <2>1. /\ dpc[c] = "finish" /\ dpc'[c] \in {"ok", "close", "error"} /\ attempt'[c] = attempt[c]
          /\ UNCHANGED <<product, unsaved, agent, findings, costed>>
          /\ \/ jobs'[<<c, round[c], attempt[c]>>] \in {"complete", "failed"}
             \/ jobs' = jobs /\ Excused'
      BY <1>1, <1>2, <1>15 DEF FinishJob, Goto, SetJob, JobOf, JobIds
    <2>2. CurrentJob(c)' /\ InTurn(c)'
      BY <1>1, <2>1 DEF Leased
    <2>3. OpenJobs(c)'
      BY <1>1, <1>2, <2>1 DEF Leased
    <2>4. Charges(c)' /\ Recorded(c)'
      BY <1>1, <1>2, <2>1 DEF Uncharged, Leased
    <2> QED BY <2>2, <2>3, <2>4
  <1>16. CASE FailJob(c)
    <2>1. /\ dpc[c] = "fail" /\ dpc'[c] \in {"error", "close-failed"} /\ attempt'[c] = attempt[c]
          /\ UNCHANGED <<product, unsaved, agent, findings, costed>>
          /\ \/ jobs'[<<c, round[c], attempt[c]>>] = "failed"
             \/ jobs' = jobs /\ Excused'
      BY <1>1, <1>2, <1>16 DEF FailJob, Goto, SetJob, AfterError, JobOf, JobIds
    <2>2. CurrentJob(c)' /\ InTurn(c)'
      BY <1>1, <2>1 DEF Leased
    <2>3. OpenJobs(c)'
      BY <1>1, <1>2, <2>1 DEF Leased
    <2>4. Charges(c)' /\ Recorded(c)'
      BY <1>1, <1>2, <2>1 DEF Uncharged, Leased
    <2> QED BY <2>2, <2>3, <2>4
  <1>17. CASE CloseRun(c)
    BY <1>1, <1>2, <1>17 DEF CloseRun, Goto, Commits, WriteFails, Lose, MayFail, JobOf, JobIds,
       Leased, Uncharged, CallStates, JobStates
  <1> QED BY <1>3, <1>4, <1>5, <1>6, <1>7, <1>8, <1>9, <1>10, <1>11, <1>12, <1>13, <1>14, <1>15,
     <1>16, <1>17 DEF Orchestrate

(* and of every other one.                                                 *)
LEMMA OtherCall ==
  ASSUME Types, NEW c \in Roles, NEW d \in Roles \ {c}, CallInv(d), Orchestrate(c)
  PROVE  CallInv(d)'
  <1>1. /\ round' = round /\ wiring' = wiring /\ dpc'[d] = dpc[d] /\ attempt'[d] = attempt[d]
        /\ product'[d] = product[d] /\ unsaved'[d] = unsaved[d] /\ agent'[d] = agent[d]
        /\ costed \subseteq costed' /\ findings \subseteq findings'
        /\ \A n \in 1..MaxRounds, a \in 0..MaxRetries : jobs'[<<d, n, a>>] = jobs[<<d, n, a>>]
    BY CallFrame DEF Frame, JobIds, JobOf
  <1>2. dpc[d] # "idle" => round[d] \in 1..MaxRounds /\ attempt[d] \in 0..MaxRetries
    BY Bounds DEF Types, LoopTypeOK, DispatchTypeOK, Counted
  <1>3. Excused => Excused'
    BY Excusing
  <1>4. CurrentJob(d)'
    BY <1>1, <1>2 DEF CallInv, CurrentJob, Leased
  <1> QED BY <1>1, <1>3, <1>4 DEF CallInv, InTurn, OpenJobs, Charges, Recorded

(* A run of its own is opened and closed by the call it belongs to.        *)
LEMMA RunMoves ==
  ASSUME Types, NEW c \in Roles, Orchestrate(c)
  PROVE  /\ dpc'[c] \in {"close", "close-failed"} => ownRun # "none"
         /\ \/ ownRun' = ownRun
            \/ dpc[c] = "open" /\ ownRun' = "active"
            \/ /\ dpc[c] \in {"close", "close-failed"} /\ dpc'[c] \in {"ok", "error"}
               /\ ~CtxDone(c) /\ UNCHANGED <<jobs, lost>>
  <1> USE DEF Types, LoopTypeOK, DispatchTypeOK
  <1>1. CASE OpenRun(c)
    BY <1>1 DEF OpenRun, Goto, Commits, WriteFails, Lose, MayFail
  <1>2. CASE Render(c)
    BY <1>2 DEF Render, Goto, Fail, MayFail, tableVars
  <1>3. CASE CreateJob(c)
    BY <1>3 DEF CreateJob, Goto, SetJob, Commits, WriteFails, Lose, MayFail, AfterError
  <1>4. CASE Lease(c)
    BY <1>4 DEF Lease, Goto, SetJob, Commits, WriteFails, Lose, MayFail, AfterError
  <1>5. CASE Deny(c)
    BY <1>5 DEF Deny, Goto, Commits, WriteFails, Lose, MayFail
  <1>6. CASE StartAgent(c)
    BY <1>6 DEF StartAgent, Goto, Fail, MayFail, tableVars
  <1>7. CASE AgentExits(c)
    BY <1>7 DEF AgentExits, Goto, Fail, MayFail, tableVars
  <1>8. CASE RecordCost(c)
    BY <1>8 DEF RecordCost, Goto, Commits, WriteFails, Lose, MayFail
  <1>9. CASE Accept(c)
    BY <1>9 DEF Accept, Goto, tableVars
  <1>10. CASE Refuse(c)
    BY <1>10 DEF Refuse, Goto, SetJob, Commits, WriteFails, Lose, MayFail, RetryLeft
  <1>11. CASE Breach(c)
    BY <1>11 DEF Breach, Goto, Commits, WriteFails, Lose, MayFail
  <1>12. CASE SaveFinding(c)
    BY <1>12 DEF SaveFinding, Goto, Commits, WriteFails, Lose, MayFail
  <1>13. CASE FinishJob(c)
    BY <1>13 DEF FinishJob, Goto, SetJob, Commits, WriteFails, Lose, MayFail
  <1>14. CASE FailJob(c)
    BY <1>14 DEF FailJob, Goto, SetJob, Commits, WriteFails, Lose, MayFail, AfterError
  <1>15. CASE CloseRun(c)
    BY <1>15 DEF CloseRun, Goto, Commits, WriteFails, Lose, MayFail
  <1> QED BY <1>1, <1>2, <1>3, <1>4, <1>5, <1>6, <1>7, <1>8, <1>9, <1>10, <1>11, <1>12, <1>13,
     <1>14, <1>15 DEF Orchestrate

(* So the steps of the calls keep the whole invariant,                     *)
LEMMA CallStepKeepsLoopInv ==
  ASSUME LoopInv, NEW c \in Roles, Step(c)
  PROVE  LoopInv'
  <1>1. /\ Types /\ Control /\ CallsInv /\ ClosedRun /\ FeedbackOnRecord
        /\ Orchestrate(c) /\ UNCHANGED loopVars
    BY DEF LoopInv, Step
  <1>2. /\ Frame(c) /\ DispatchTypeOK' /\ Counted' /\ lost \in Nat /\ lost' \in Nat
        /\ dpc \in [Roles -> CallStates] /\ dpc' \in [Roles -> CallStates]
    BY <1>1, CallFrame, CallTypes DEF Types, LoopTypeOK, DispatchTypeOK
  <1>3. Types'
    BY <1>1, <1>2, CallTypes DEF Types, LoopTypeOK, loopVars
  <1>4. /\ lpc \in {"developing", "fan-out", "invoked"} /\ (c = Developer <=> lpc # "fan-out")
        /\ (c \in Group <=> lpc = "fan-out")
        /\ outcome = "none" /\ c \notin skipped
    <2>1. lpc \in {"developing", "fan-out", "invoked"}
      BY <1>1, <1>2 DEF Control, CallsOfLoop, Frame, Returned, Ended, Types, LoopTypeOK, LoopStates
    <2> QED BY <1>1, <1>2, <2>1, PhaseRolesAssumption DEF Control, CallsOfLoop, RolesOfLoop, Frame,
       Returned, Ended
  <1>5. Control'
    <2>1. CallsOfLoop'
      BY <1>1, <1>2, <1>4, PhaseRolesAssumption DEF Control, CallsOfLoop, loopVars, Frame, Ended
    <2>2. RolesOfLoop'
      BY <1>1, <1>2, <1>4, PhaseRolesAssumption DEF Control, RolesOfLoop, loopVars, Frame, Ended,
         Types, LoopTypeOK
    <2>3. RunOfCall'
      BY <1>1, <1>2, <1>4, RunMoves DEF Control, RunOfCall, loopVars, Frame, Returned, Invoked, Bare
    <2> QED BY <2>1, <2>2, <2>3 DEF Control
  <1>6. CallsInv'
    BY <1>1, OwnCall, OtherCall DEF CallsInv
  <1>7. ClosedRun'
    <2> SUFFICES ASSUME lost' = 0, ownRun' \in {"completed", "failed"}, NEW j \in JobIds,
                        jobs'[j] \in {"pending", "dispatched"}
                 PROVE  FALSE
      BY DEF ClosedRun
    <2>1. ownRun' # ownRun
      <3>1. dpc[c] \notin Returned /\ (lpc = "invoked" => c = Developer)
        BY <1>2, <1>4 DEF Frame
      <3> QED BY <1>1, <3>1 DEF Control, RunOfCall, Returned
    <2>2. /\ dpc[c] \in {"close", "close-failed"} /\ dpc'[c] \in {"ok", "error"}
          /\ ~CtxDone(c) /\ UNCHANGED <<jobs, lost>>
      BY <1>1, <2>1, RunMoves
    <2>3. ~interrupted /\ lpc = "invoked" /\ c = Developer
      BY <1>1, <1>4, <2>2 DEF CtxDone, Control, RunOfCall
    <2>4. ~Excused
      BY <1>1, <2>2, <2>3 DEF Excused, GroupFailed, Control, CallsOfLoop
    <2>5. PICK d \in Roles, n \in 1..MaxRounds, a \in 0..MaxRetries : j = <<d, n, a>>
      BY DEF JobIds
    <2>6. dpc[d] \in Leased \cup {"lease"}
      BY <1>1, <2>2, <2>4, <2>5 DEF CallsInv, CallInv, OpenJobs
    <2>7. d = Developer
      BY <1>1, <2>3, <2>6, PhaseRolesAssumption DEF Control, CallsOfLoop, Leased
    <2> QED BY <2>2, <2>3, <2>6, <2>7 DEF Leased
  <1>8. FeedbackOnRecord'
    BY <1>1, <1>2 DEF FeedbackOnRecord, Frame, loopVars
  <1> QED BY <1>3, <1>5, <1>6, <1>7, <1>8 DEF LoopInv
-----------------------------------------------------------------------------
(* A call begins.                                                          *)
LEMMA Calling ==
  ASSUME Types, CallsInv, NEW c \in Roles, NEW b \in BOOLEAN, Call(c, b)
  PROVE  /\ DispatchTypeOK' /\ product' \in [Roles -> Products] /\ Counted' /\ CallsInv'
         /\ UNCHANGED <<wiring, ownRun, jobs, interrupted, lost, findings>>
         /\ dpc[c] = "idle" /\ dpc'[c] \in {IF b THEN "open" ELSE "create", "error"}
         /\ \A d \in Roles \ {c} : dpc'[d] = dpc[d]
  <1> USE Bounds DEF Types, LoopTypeOK, DispatchTypeOK
  <1>1. /\ UNCHANGED <<wiring, perms, unsaved, agent, tableVars, tree, interrupted, lost>>
        /\ failures' \in Nat
        /\ dpc[c] = "idle" /\ dpc'[c] \in {IF b THEN "open" ELSE "create", "error"}
        /\ \A d \in Roles \ {c} : dpc'[d] = dpc[d]
        /\ dpc' \in [Roles -> CallStates]
    BY DEF Call, Goto, Fail, MayFail, CallStates
  <1>2. /\ round[c] \in 0..MaxRounds /\ round'[c] = round[c] + 1 /\ attempt'[c] = 0
        /\ \A d \in Roles \ {c} :
             round'[d] = round[d] /\ attempt'[d] = attempt[d] /\ product'[d] = product[d]
        /\ round' \in [Roles -> 0..MaxRounds] /\ attempt' \in [Roles -> 0..MaxRetries]
    BY DEF Call
  <1>3. /\ product' \in [Roles -> Products]
        /\ \A d \in Roles : product'[d] \in Outcomes[d] \cup {NoProduct}
    BY OutcomeType DEF Call
  <1>4. Counted'
    BY <1>1, <1>2 DEF Counted
  <1>5. Excused => Excused'
    BY <1>1, GroupAssumption DEF Excused, GroupFailed
  <1>6. ASSUME NEW d \in Roles PROVE CallInv(d)'
    <2>1. CASE d = c
      <3>1. /\ dpc'[c] \in {"open", "create", "error"} /\ dpc[c] = "idle"
            /\ round'[c] = round[c] + 1 /\ round[c] \in Nat /\ CallInv(c)
            /\ UNCHANGED <<wiring, agent, jobs, costed>>
        BY <1>1, <1>2 DEF tableVars, CallsInv
      <3>2. CurrentJob(c)' /\ Recorded(c)'
        BY <3>1 DEF CallInv, CurrentJob, Recorded, Leased
      <3>3. InTurn(c)'
        BY <3>1 DEF CallInv, InTurn
      <3>4. OpenJobs(c)' /\ Charges(c)'
        BY <1>5, <3>1 DEF CallInv, OpenJobs, Charges, Leased, Uncharged
      <3> QED BY <2>1, <3>2, <3>3, <3>4 DEF CallInv
    <2>2. CASE d # c
      <3>1. CurrentJob(d)'
        BY <1>1, <1>2, <2>2 DEF tableVars, CallsInv, CallInv, CurrentJob
      <3> QED BY <1>1, <1>2, <1>5, <2>2, <3>1 DEF tableVars, CallsInv, CallInv, InTurn, OpenJobs,
         Charges, Recorded
    <2> QED BY <2>1, <2>2
  <1>7. DispatchTypeOK'
    BY <1>1, <1>2, <1>3 DEF tableVars
  <1> QED BY <1>1, <1>3, <1>4, <1>6, <1>7 DEF tableVars, CallsInv

(* While the calls stand still, so does what is known of them.             *)
LEMMA CallsStand ==
  ASSUME CallsInv, UNCHANGED <<wiring, callVars, tableVars>>, Excused => Excused'
  PROVE  CallsInv'
  BY DEF CallsInv, CallInv, CurrentJob, InTurn, OpenJobs, Charges, Recorded, callVars, tableVars

(* An event of the loop, written or lost, keeps the types.                 *)
LEMMA EmitTypes ==
  ASSUME Types, NEW kind, Emit(kind), UNCHANGED dispatchRest
  PROVE  DispatchTypeOK' /\ product' \in [Roles -> Products] /\ Counted' /\ (lost' = 0 => lost = 0)
  BY DEF Types, LoopTypeOK, DispatchTypeOK, Emit, Lose, MayFail, dispatchRest, callVars, tableVars,
     Counted

(* What a deduplicated finding consists of.                                *)
LEMMA DedupedOf ==
  ASSUME NEW roles, NEW e \in Deduped(roles)
  PROVE  /\ e = [finding |-> e.finding, jobs |-> e.jobs] /\ e.jobs # {}
         /\ \E r \in roles : e.finding \in product[r].findings
         /\ \A j \in e.jobs : \E q \in roles : j = JobOf(q) /\ e.finding \in product[q].findings
  <1>1. PICK f \in UNION {product[r].findings : r \in roles} :
               e = [finding |-> f, jobs |-> {JobOf(r) : r \in {q \in roles : f \in product[q].findings}}]
    BY DEF Deduped
  <1>2. PICK r \in roles : f \in product[r].findings
    OBVIOUS
  <1>3. JobOf(r) \in e.jobs
    BY <1>1, <1>2
  <1> QED BY <1>1, <1>2, <1>3

(* and so do those of the loop.                                            *)
LEMMA LoopStepKeepsLoopInv ==
  ASSUME LoopInv, Loop
  PROVE  LoopInv'
  <1> USE DEF LoopInv
  <1>1. ASSUME NEW kind, Emit(kind), UNCHANGED <<dispatchRest, cycles, skipped, feedback, outcome, item>>,
               lpc' \in LoopStates, Control'
        PROVE  LoopInv'
    <2>1. DispatchTypeOK' /\ product' \in [Roles -> Products] /\ Counted' /\ (lost' = 0 => lost = 0)
      BY <1>1, EmitTypes
    <2>2. Excused => Excused'
      BY <1>1, <2>1 DEF Excused, GroupFailed, Emit, Lose, dispatchRest, callVars, MayFail, Types,
         LoopTypeOK, DispatchTypeOK
    <2>3. CallsInv'
      BY <1>1, <2>2, CallsStand DEF dispatchRest
    <2>4. ClosedRun' /\ FeedbackOnRecord'
      BY <1>1, <2>1 DEF ClosedRun, FeedbackOnRecord, dispatchRest, tableVars
    <2> QED BY <1>1, <2>1, <2>3, <2>4 DEF Types, LoopTypeOK
  <1>2. CASE EmitStarted
    <2>1. Control'
      BY <1>2 DEF EmitStarted, Control, CallsOfLoop, RolesOfLoop, RunOfCall, Ended, Invoked,
         dispatchRest, callVars, tableVars, Bare
    <2> QED BY <1>1, <1>2, <2>1 DEF EmitStarted, LoopStates
  <1>3. CASE Exhausted
    <2>1. Control'
      BY <1>3 DEF Exhausted, Control, CallsOfLoop, RolesOfLoop, RunOfCall, Ended, Invoked,
         dispatchRest, callVars, tableVars, Bare
    <2> QED BY <1>1, <1>3, <2>1 DEF Exhausted, LoopStates
  <1>4. CASE EmitEnd
    <2>1. Control'
      BY <1>4 DEF EmitEnd, Control, CallsOfLoop, RolesOfLoop, RunOfCall, Ended, Invoked,
         dispatchRest, callVars, tableVars, Bare
    <2> QED BY <1>1, <1>4, <2>1 DEF EmitEnd, LoopStates
  <1>5. CASE RaiseItem
    <2>1. /\ UNCHANGED <<dispatchRest, cycles, skipped, feedback, outcome, emitted>>
          /\ lost' \in Nat /\ (lost' = 0 => lost = 0) /\ (lost > 0 => lost' > 0)
          /\ lpc \in {"item", "pair"} /\ lpc' \in {"pair", "completed"}
          /\ item' \in {"none", "item", "paired"}
      BY <1>5 DEF RaiseItem, Lose, MayFail, Types, LoopTypeOK, DispatchTypeOK
    <2>2. Types'
      BY <2>1 DEF Types, LoopTypeOK, DispatchTypeOK, Counted, LoopStates, dispatchRest, callVars,
         tableVars
    <2>3. CallsInv'
      BY <2>1, CallsStand DEF dispatchRest, Excused, GroupFailed, callVars
    <2>4. Control'
      BY <2>1 DEF Control, CallsOfLoop, RolesOfLoop, RunOfCall, Ended, Invoked, dispatchRest,
         callVars, tableVars, Bare
    <2> QED BY <2>1, <2>2, <2>3, <2>4 DEF ClosedRun, FeedbackOnRecord, dispatchRest, tableVars
  <1>6. CASE CallDeveloper
    <2>1. /\ lpc \in {"develop", "invoke"} /\ lpc' = IF lpc = "invoke" THEN "invoked" ELSE "developing"
          /\ UNCHANGED <<cycles, skipped, feedback, outcome, emitted, item>>
          /\ Developer \in Roles /\ Call(Developer, lpc = "invoke")
      BY <1>6, PhaseRolesAssumption DEF CallDeveloper
    <2>2. /\ DispatchTypeOK' /\ product' \in [Roles -> Products] /\ Counted' /\ CallsInv'
          /\ UNCHANGED <<wiring, ownRun, jobs, interrupted, lost, findings>>
          /\ dpc'[Developer] \in {IF lpc = "invoke" THEN "open" ELSE "create", "error"}
          /\ \A d \in Roles \ {Developer} : dpc'[d] = dpc[d]
      BY <2>1, Calling
    <2>3. Types'
      BY <2>1, <2>2 DEF Types, LoopTypeOK, LoopStates
    <2>4. CallsOfLoop'
      BY <2>1, <2>2, PhaseRolesAssumption DEF Control, CallsOfLoop, Ended
    <2>5. RolesOfLoop' /\ RunOfCall'
      BY <2>1, <2>2, PhaseRolesAssumption DEF Control, CallsOfLoop, RolesOfLoop, RunOfCall, Ended,
         Invoked, Bare
    <2> QED BY <2>1, <2>2, <2>3, <2>4, <2>5 DEF Control, ClosedRun, FeedbackOnRecord
  <1>7. CASE DeveloperReturns
    <2>1. /\ UNCHANGED <<dispatchVars, cycles, skipped, feedback, emitted, item>> /\ lpc = "developing"
          /\ \/ dpc[Developer] = "ok" /\ lpc' = "fan-out" /\ outcome' = outcome
             \/ dpc[Developer] = "error" /\ lpc' = "failed" /\ outcome' = "failed"
      BY <1>7 DEF DeveloperReturns
    <2>2. Types'
      BY <2>1 DEF Types, LoopTypeOK, DispatchTypeOK, Counted, LoopStates, dispatchVars, callVars,
         tableVars
    <2>3. CallsInv'
      BY <2>1, CallsStand DEF dispatchVars, Excused, GroupFailed, callVars
    <2>4. Control'
      BY <2>1, PhaseRolesAssumption DEF Control, CallsOfLoop, RolesOfLoop, RunOfCall, Ended,
         Returned, Invoked, dispatchVars, callVars, tableVars, Bare
    <2> QED BY <2>1, <2>2, <2>3, <2>4 DEF ClosedRun, FeedbackOnRecord, dispatchVars, tableVars
  <1>8. ASSUME NEW r \in Group, StartReviewer(r) PROVE LoopInv'
    <2>1. /\ lpc = "fan-out" /\ r \in Roles /\ r # Developer /\ r \notin skipped /\ dpc[r] = "idle"
          /\ UNCHANGED <<lpc, cycles, feedback, outcome, item>>
      BY <1>8, PhaseRolesAssumption DEF StartReviewer
    <2>2. CASE ShouldSkip(r) /\ UNCHANGED dispatchRest /\ skipped' = skipped \cup {r} /\ (Commits(r) \/ WriteFails(r))
      <3>1. lost' \in Nat /\ (lost' = 0 => lost = 0) /\ (lost > 0 => lost' > 0)
        BY <2>2 DEF Commits, WriteFails, Lose, MayFail, Types, LoopTypeOK, DispatchTypeOK
      <3>2. Types'
        BY <2>1, <2>2, <3>1 DEF Types, LoopTypeOK, DispatchTypeOK, Counted, LoopStates,
           dispatchRest, callVars, tableVars
      <3>3. CallsInv'
        BY <2>2, <3>1, CallsStand DEF dispatchRest, Excused, GroupFailed, callVars
      <3>4. Control'
        BY <2>1, <2>2 DEF Control, CallsOfLoop, RolesOfLoop, RunOfCall, Ended, Invoked,
           dispatchRest, callVars, tableVars, Bare
      <3> QED BY <2>1, <2>2, <3>1, <3>2, <3>3, <3>4 DEF ClosedRun, FeedbackOnRecord, dispatchRest,
         tableVars
    <2>3. CASE Call(r, FALSE) /\ UNCHANGED <<skipped, emitted>>
      <3>1. /\ DispatchTypeOK' /\ product' \in [Roles -> Products] /\ Counted' /\ CallsInv'
            /\ UNCHANGED <<wiring, ownRun, jobs, interrupted, lost, findings>>
            /\ dpc'[r] \in {"create", "error"}
            /\ \A d \in Roles \ {r} : dpc'[d] = dpc[d]
        BY <2>1, <2>3, Calling
      <3>2. Types'
        BY <2>1, <2>3, <3>1 DEF Types, LoopTypeOK, LoopStates
      <3>3. Control'
        BY <2>1, <2>3, <3>1, PhaseRolesAssumption DEF Control, CallsOfLoop, RolesOfLoop, RunOfCall,
           Ended, Invoked, Bare, Types, LoopTypeOK
      <3> QED BY <2>1, <2>3, <3>1, <3>2, <3>3 DEF ClosedRun, FeedbackOnRecord
    <2> QED BY <1>8, <2>2, <2>3 DEF StartReviewer
  <1>9. CASE FanIn
    <2>1. /\ lpc = "fan-out" /\ dpc[Developer] = "ok"
          /\ \A c \in Roles : c \in skipped \/ dpc[c] \in {"ok", "error"}
          /\ \A c \in Roles : dpc[c] \in Returned
      BY <1>9, PhaseRolesAssumption DEF FanIn, Joined, Control, CallsOfLoop, RolesOfLoop, Returned
    <2>2. ASSUME UNCHANGED <<dispatchVars, cycles, skipped, feedback, emitted, item>>,
                 lpc' \in {"failed", "completed", "exhausted"}, outcome' \in {"failed", "clean", "dirty"},
                 outcome' = "failed" \/ \A c \in Roles \ skipped : dpc[c] = "ok"
          PROVE  LoopInv'
      <3>1. Types'
        BY <2>1, <2>2 DEF Types, LoopTypeOK, DispatchTypeOK, Counted, LoopStates, dispatchVars,
           callVars, tableVars
      <3>2. CallsInv'
        BY <2>2, CallsStand DEF dispatchVars, Excused, GroupFailed, callVars
      <3>3. Control'
        BY <2>1, <2>2 DEF Control, CallsOfLoop, RolesOfLoop, RunOfCall, Ended, Returned, Invoked,
           dispatchVars, callVars, tableVars, Bare
      <3> QED BY <2>2, <3>1, <3>2, <3>3 DEF ClosedRun, FeedbackOnRecord, dispatchVars, tableVars
    <2>3. CASE (\E r \in Group : dpc[r] = "error") /\ outcome' = "failed" /\ lpc' = "failed"
               /\ UNCHANGED <<dispatchVars, cycles, skipped, feedback>> /\ UNCHANGED <<emitted, item>>
      BY <2>2, <2>3
    <2>4. CASE (\A r \in Group : dpc[r] # "error") /\ Decide(Reporting) /\ UNCHANGED <<emitted, item>>
      <3>1. /\ \A c \in Roles \ skipped : dpc[c] = "ok"
            /\ \A c \in Roles : dpc[c] \in {"ok", "idle"}
        BY <2>1, <2>4, PhaseRolesAssumption DEF Returned
      <3>2. CASE /\ outcome' \in {"clean", "dirty"} /\ lpc' \in {"completed", "exhausted"}
                 /\ UNCHANGED <<dispatchVars, cycles, skipped, feedback>>
        BY <2>2, <2>4, <3>1, <3>2
      <3>3. CASE /\ cycles < MaxFixCycles /\ cycles' = cycles + 1
                 /\ feedback' = Deduped(Reporting) /\ skipped' = {} /\ lpc' = "develop"
                 /\ dpc' = [c \in Roles |-> "idle"]
                 /\ UNCHANGED <<wiring, perms, round, attempt, product, unsaved, agent, tableVars, tree,
                                interrupted, lost, failures, outcome>>
        <4>1. \A r \in Reporting : /\ r \in Roles /\ dpc[r] = "ok" /\ JobOf(r) \in JobIds
                                   /\ product[r].findings \subseteq Findings
          <5>1. \A r \in Reporting : r \in Roles /\ dpc[r] = "ok"
            BY <3>1 DEF Reporting
          <5>2. \A r \in Reporting : product[r] \in Products
            BY <5>1 DEF Types
          <5> QED BY <5>1, <5>2, JobTypes DEF Products
        <4>2. ASSUME NEW e \in feedback'
              PROVE  /\ e \in [finding : Findings, jobs : SUBSET JobIds]
                     /\ e.jobs # {} /\ \A j \in e.jobs : lost = 0 /\ ~interrupted => <<j, e.finding>> \in findings
          <5>1. /\ e = [finding |-> e.finding, jobs |-> e.jobs] /\ e.jobs # {}
                /\ \E r \in Reporting : e.finding \in product[r].findings
                /\ \A j \in e.jobs : \E q \in Reporting : j = JobOf(q) /\ e.finding \in product[q].findings
            BY <3>3, DedupedOf
          <5>2. e.finding \in Findings /\ e.jobs \subseteq JobIds
            BY <4>1, <5>1
          <5>3. ASSUME lost = 0, ~interrupted, NEW q \in Reporting, NEW f \in product[q].findings
                PROVE  <<JobOf(q), f>> \in findings
            <6>1. ~Excused
              BY <2>4, <5>3 DEF Excused, GroupFailed
            <6> QED BY <4>1, <5>3, <6>1 DEF CallsInv, CallInv, Recorded, JobOf
          <5> QED BY <5>1, <5>2, <5>3
        <4>3. Types'
          <5>1. dpc' \in [Roles -> CallStates] /\ \A c \in Roles : dpc'[c] = "idle"
            BY <3>3 DEF CallStates
          <5>2. DispatchTypeOK'
            BY <3>3, <5>1 DEF Types, LoopTypeOK, DispatchTypeOK, tableVars
          <5>3. cycles' \in 0..MaxFixCycles
            BY <3>3, Bounds DEF Types, LoopTypeOK
          <5>4. feedback' \subseteq [finding : Findings, jobs : SUBSET JobIds]
            BY <4>2
          <5> QED BY <2>4, <3>3, <5>1, <5>2, <5>3, <5>4 DEF Types, LoopTypeOK, Counted, LoopStates
        <4>4. CallsInv'
          <5>1. Excused' <=> Excused
            BY <2>4, <3>3, GroupAssumption DEF Excused, GroupFailed
          <5>2. \A c \in Roles : dpc'[c] = "idle"
            BY <3>3
          <5>3. ASSUME NEW c \in Roles PROVE CallInv(c)'
            <6>1. dpc[c] \in {"ok", "idle"} /\ dpc'[c] = "idle"
              BY <3>1, <5>2
            <6>2. CallInv(c)
              BY DEF CallsInv
            <6> QED BY <3>3, <5>1, <6>1, <6>2 DEF CallInv, CurrentJob, InTurn, OpenJobs, Charges,
                    Recorded, Leased, Uncharged, tableVars
          <5> QED BY <5>3 DEF CallsInv
        <4>5. Control'
          BY <2>1, <3>3, PhaseRolesAssumption DEF Control, CallsOfLoop, RolesOfLoop, RunOfCall,
             Ended, Invoked, Bare, tableVars
        <4>6. FeedbackOnRecord'
          BY <3>3, <4>2 DEF FeedbackOnRecord, tableVars
        <4>7. ClosedRun'
          BY <3>3 DEF ClosedRun, tableVars
        <4> QED BY <4>3, <4>4, <4>5, <4>6, <4>7
      <3> QED BY <2>4, <3>2, <3>3 DEF Decide
    <2> QED BY <1>9, <2>3, <2>4 DEF FanIn
  <1> QED BY <1>2, <1>3, <1>4, <1>5, <1>6, <1>7, <1>8, <1>9 DEF Loop

LEMMA NextKeepsLoopInv == LoopInv /\ [Next]_vars => LoopInv'
  <1> SUFFICES ASSUME LoopInv, [Next]_vars PROVE LoopInv'
    OBVIOUS
  <1>1. CASE Loop
    BY <1>1, LoopStepKeepsLoopInv
  <1>2. ASSUME NEW c \in Roles, Step(c) PROVE LoopInv'
    BY <1>2, CallStepKeepsLoopInv
  <1>3. CASE (Interrupt /\ UNCHANGED loopVars) \/ UNCHANGED vars
    <2>1. /\ UNCHANGED <<wiring, perms, callVars, tableVars, tree, lost, failures, loopVars>>
          /\ interrupted' \in BOOLEAN /\ (interrupted => interrupted')
      BY <1>3 DEF Interrupt, vars, dispatchVars, MayFail, LoopInv, Types, LoopTypeOK, DispatchTypeOK
    <2>2. Types'
      BY <2>1 DEF LoopInv, Types, LoopTypeOK, DispatchTypeOK, Counted, callVars, tableVars, loopVars
    <2>3. CallsInv'
      BY <2>1, CallsStand DEF LoopInv, Excused, GroupFailed, callVars
    <2>4. Control'
      BY <2>1 DEF LoopInv, Control, CallsOfLoop, RolesOfLoop, RunOfCall, Invoked, callVars,
         tableVars, loopVars, Bare
    <2> QED BY <2>1, <2>2, <2>3, <2>4 DEF LoopInv, ClosedRun, FeedbackOnRecord, tableVars, loopVars
  <1> QED BY <1>1, <1>2, <1>3 DEF Next

(* The invariant holds from the initial states on.                         *)
LEMMA LoopSafe == Spec => []LoopInv
  BY InitLoopInv, NextKeepsLoopInv, PTL DEF Spec
-----------------------------------------------------------------------------
(* The values of a phase and of its calls are of their types: no call      *)
(* makes more attempts than MaxRetries + 1, no phase more fix cycles than  *)
(* MaxFixCycles.                                                           *)
THEOREM LoopTypeCorrect == Spec => []LoopTypeOK
  <1>1. LoopInv => LoopTypeOK
    BY DEF LoopInv, Types
  <1> QED BY <1>1, LoopSafe, PTL

(* Whatever roles run side by side, an agent is alive only for a job the   *)
(* table shows as dispatched and in a phase that is not over, and the      *)
(* developer's never beside another.                                       *)
THEOREM AgentsInPhase == Spec => []AgentsWithinPhase
  <1>1. LoopInv => AgentsWithinPhase
    <2> SUFFICES ASSUME LoopInv, NEW c \in Roles, agent[c]
                 PROVE  /\ jobs[JobOf(c)] = "dispatched"
                        /\ lpc \in {"developing", "fan-out", "invoked"}
                        /\ c = Developer <=> lpc \in {"developing", "invoked"}
      BY DEF AgentsWithinPhase
    <2>1. dpc[c] = "wait" /\ jobs[JobOf(c)] = "dispatched"
      BY DEF LoopInv, CallsInv, CallInv, CurrentJob, JobOf, Leased
    <2>2. lpc \in {"developing", "fan-out", "invoked"}
      BY <2>1 DEF LoopInv, Types, LoopTypeOK, LoopStates, Control, CallsOfLoop, Ended, Returned
    <2> QED BY <2>1, <2>2, PhaseRolesAssumption DEF LoopInv, Control, CallsOfLoop
  <1> QED BY <1>1, LoopSafe, PTL

(* A phase or an invoked run that ended well leaves no job open, unless a  *)
(* write was lost.                                                         *)
THEOREM JobsClosed == Spec => []NothingOpen
  <1>1. LoopInv => NothingOpen
    <2> SUFFICES ASSUME LoopInv, lost = 0, EndedWell \/ ownRun = "failed", NEW j \in JobIds
                 PROVE  jobs[j] \in {"absent", "complete", "failed"}
      BY DEF NothingOpen
    <2>1. jobs[j] \in JobStates
      BY DEF LoopInv, Types, LoopTypeOK, DispatchTypeOK
    <2>2. CASE ownRun \in {"completed", "failed"}
      BY <2>1, <2>2 DEF LoopInv, ClosedRun, JobStates
    <2>3. CASE outcome \in {"clean", "dirty"} /\ ~interrupted
      <3>1. \A c \in Roles : dpc[c] \in {"idle", "ok"}
        BY <2>3 DEF LoopInv, Control, RolesOfLoop
      <3>2. ~Excused
        BY <2>3, <3>1, GroupAssumption DEF Excused, GroupFailed
      <3>3. PICK c \in Roles, n \in 1..MaxRounds, a \in 0..MaxRetries : j = <<c, n, a>>
        BY DEF JobIds
      <3> QED BY <2>1, <3>1, <3>2, <3>3 DEF LoopInv, CallsInv, CallInv, OpenJobs, Leased, JobStates
    <2> QED BY <2>2, <2>3 DEF EndedWell
  <1> QED BY <1>1, LoopSafe, PTL

(* In a phase that ended well every attempt that was made was charged for, *)
(* those the rules refused too.                                            *)
THEOREM AttemptsCharged == Spec => []EveryAttemptCharged
  <1>1. LoopInv => EveryAttemptCharged
    <2> SUFFICES ASSUME LoopInv, lost = 0, EndedWell, wiring.costs,
                        NEW j \in JobIds, jobs[j] # "absent", j[1] \in ReportsCost
                 PROVE  j \in costed
      BY DEF EveryAttemptCharged
    <2>1. outcome \in {"clean", "dirty"} /\ ~interrupted
      BY DEF EndedWell, LoopInv, Control, RunOfCall, Invoked, Bare
    <2>2. \A c \in Roles : dpc[c] \in {"idle", "ok"}
      BY <2>1 DEF LoopInv, Control, RolesOfLoop
    <2>3. ~Excused
      BY <2>1, <2>2, GroupAssumption DEF Excused, GroupFailed
    <2>4. PICK c \in Roles, n \in 1..MaxRounds, a \in 0..MaxRetries : j = <<c, n, a>>
      BY DEF JobIds
    <2> QED BY <2>2, <2>3, <2>4 DEF LoopInv, CallsInv, CallInv, Charges, Uncharged
  <1> QED BY <1>1, LoopSafe, PTL

(* What the developer is told is on record, for each of the jobs it is     *)
(* said to come from.                                                      *)
THEOREM FeedbackRecorded == Spec => []FeedbackOnRecord
  <1>1. LoopInv => FeedbackOnRecord
    BY DEF LoopInv
  <1> QED BY <1>1, LoopSafe, PTL
-----------------------------------------------------------------------------
(* The steps of a call that write its job.                                 *)
LEMMA JobMoves ==
  ASSUME NEW c \in Roles, Orchestrate(c)
  PROVE  jobs' = jobs \/ dpc[c] \in {"create", "lease", "judge", "finish", "fail"}
  BY DEF Orchestrate, OpenRun, Render, CreateJob, Lease, Deny, StartAgent, AgentExits, RecordCost,
     Accept, Refuse, Breach, SaveFinding, FinishJob, FailJob, CloseRun, tableVars

(* They write it while it is open or absent.                               *)
LEMMA JobsStayFinal ==
  ASSUME LoopInv, [Next]_vars, NEW j \in JobIds, jobs[j] \in {"complete", "failed"}
  PROVE  jobs'[j] = jobs[j]
  <1>1. CASE Loop
    <2>1. ASSUME NEW c \in Roles, NEW b, Call(c, b) PROVE jobs' = jobs
      BY <2>1 DEF Call, tableVars
    <2>2. Decide(Reporting) => jobs' = jobs
      BY DEF Decide, dispatchVars, tableVars
    <2> QED BY <1>1, <2>1, <2>2, PhaseRolesAssumption DEF Loop, EmitStarted, CallDeveloper,
       DeveloperReturns,
            StartReviewer, FanIn, Exhausted, RaiseItem, EmitEnd, dispatchRest, dispatchVars, tableVars
  <1>2. ASSUME NEW c \in Roles, Step(c) PROVE jobs'[j] = jobs[j]
    <2>1. Frame(c) /\ dpc[c] # "idle" /\ JobOf(c) \in JobIds
      BY <1>2, CallFrame, JobTypes DEF Step, LoopInv, Frame, Returned
    <2>2. CASE jobs' = jobs
      BY <2>2
    <2>3. CASE dpc[c] \in {"create", "lease", "judge", "finish", "fail"}
      <3>1. jobs[JobOf(c)] \in {"absent", "pending", "dispatched"}
        <4>1. dpc[c] = "create" => jobs[<<c, round[c], attempt[c]>>] = "absent"
          BY <2>1 DEF JobOf, JobIds, LoopInv, CallsInv, CallInv, InTurn, Types, LoopTypeOK,
             DispatchTypeOK
        <4> QED BY <2>3, <4>1 DEF JobOf, LoopInv, CallsInv, CallInv, CurrentJob, Leased
      <3> QED BY <2>1, <3>1 DEF Frame
    <2> QED BY <1>2, <2>2, <2>3, JobMoves DEF Step
  <1>3. CASE (Interrupt /\ UNCHANGED loopVars) \/ UNCHANGED vars
    BY <1>3 DEF Interrupt, vars, dispatchVars, tableVars
  <1> QED BY <1>1, <1>2, <1>3 DEF Next

(* A job that was closed is never opened again.                            *)
THEOREM ClosedJobsFinal == Spec => JobsFinal
  <1>1. LoopInv /\ [Next]_vars =>
          [\A j \in JobIds : jobs[j] \in {"complete", "failed"} => jobs'[j] = jobs[j]]_vars
    BY JobsStayFinal
  <1> QED BY <1>1, LoopSafe, PTL DEF Spec, JobsFinal
-----------------------------------------------------------------------------
(* The verdict of a call's last attempt is on record: the job is complete  *)
(* if it was accepted, and a refusal that no attempt is left for is named  *)
(* by an event.                                                            *)
Judged(c) ==
    dpc[c] \in {"save", "finish", "close", "ok"} =>
        /\ dpc[c] \in {"close", "ok"} =>
             jobs[<<c, round[c], attempt[c]>>] = IF Accepted(c) THEN "complete" ELSE "failed"
        /\ Verdict(c) # "pass" =>
             attempt[c] = MaxRetries /\ (Excused \/ <<c, round[c], attempt[c]>> \in breaches)

JudgedInv == \A c \in Roles : Judged(c)

(* In a clean phase a role that was not skipped has a complete job exactly *)
(* if the rules hold of what it produced; otherwise all its attempts were  *)
(* used, and an event names the breach.                                    *)
CleanAsJudged ==
    outcome = "clean" => \A c \in Reporting :
        /\ jobs[JobOf(c)] = IF Verdict(c) = "pass" THEN "complete" ELSE "failed"
        /\ Verdict(c) = "pass" \/ attempt[c] = MaxRetries
        /\ lost = 0 /\ ~interrupted => Verdict(c) = "pass" \/ JobOf(c) \in breaches

CleanExit == outcome = "clean" => \A c \in Reporting : product[c].exit = 0

(* Only the developer's agent changes the worktree.                        *)
LEMMA TreeMoves ==
  ASSUME NEW c \in Roles, Orchestrate(c)
  PROVE  tree' = tree \/ (dpc[c] = "wait" /\ c \notin Group)
  BY DEF Orchestrate, OpenRun, Render, CreateJob, Lease, Deny, StartAgent, AgentExits, RecordCost,
     Accept, Refuse, Breach, SaveFinding, FinishJob, FailJob, CloseRun

(* No breach is taken back.                                                *)
LEMMA BreachMoves ==
  ASSUME NEW c \in Roles, Orchestrate(c)
  PROVE  breaches \subseteq breaches'
  BY DEF Orchestrate, OpenRun, Render, CreateJob, Lease, Deny, StartAgent, AgentExits, RecordCost,
     Accept, Refuse, Breach, SaveFinding, FinishJob, FailJob, CloseRun, tableVars

(* How a call comes to where its attempt was judged.                       *)
LEMMA JudgedMoves ==
  ASSUME Types, NEW c \in Roles, Orchestrate(c), dpc'[c] \in {"save", "finish", "close", "ok"}
  PROVE  /\ UNCHANGED <<wiring, tree, product, round, attempt>>
         /\ \/ /\ dpc[c] = "judge" /\ dpc'[c] = "save"
               /\ Verdict(c) = "pass" \/ ~RetryLeft(c)
               /\ Verdict(c) = "pass" \/ JobOf(c) \in breaches' \/ WriteFails(c)
            \/ dpc[c] = "save" /\ dpc'[c] \in {"save", "finish"}
            \/ /\ dpc[c] = "finish" /\ dpc'[c] \in {"close", "ok"}
               /\ SetJob(c, IF Accepted(c) THEN "complete" ELSE "failed")
            \/ dpc[c] = "close" /\ dpc'[c] = "ok" /\ jobs' = jobs
  <1> USE DEF Types, LoopTypeOK, DispatchTypeOK
  <1>1. CASE Accept(c) \/ Breach(c)
    BY <1>1 DEF Accept, Breach, Goto
  <1>2. CASE SaveFinding(c)
    BY <1>2 DEF SaveFinding, Goto
  <1>3. CASE FinishJob(c) \/ CloseRun(c)
    BY <1>3 DEF FinishJob, CloseRun, Goto
  <1>4. CASE OpenRun(c) \/ Render(c) \/ CreateJob(c) \/ Lease(c) \/ Deny(c) \/ StartAgent(c)
    BY <1>4 DEF OpenRun, Render, CreateJob, Lease, Deny, StartAgent, Goto, AfterError
  <1>5. CASE AgentExits(c) \/ RecordCost(c) \/ Refuse(c) \/ FailJob(c)
    BY <1>5 DEF AgentExits, RecordCost, Refuse, FailJob, Goto, AfterError
  <1> QED BY <1>1, <1>2, <1>3, <1>4, <1>5 DEF Orchestrate

(* A step of a call keeps its verdict,                                     *)
LEMMA OwnJudged ==
  ASSUME Types, NEW c \in Roles, Judged(c), Orchestrate(c)
  PROVE  Judged(c)'
  <1> SUFFICES ASSUME dpc'[c] \in {"save", "finish", "close", "ok"} PROVE Judged(c)'
    BY DEF Judged
  <1>1. /\ UNCHANGED <<wiring, tree, product, round, attempt>> /\ breaches \subseteq breaches'
        /\ (Verdict(c)' = Verdict(c)) /\ (Accepted(c)' <=> Accepted(c))
    BY JudgedMoves, BreachMoves DEF Verdict, Accepted
  <1>2. (Excused => Excused') /\ (WriteFails(c) => Excused')
    BY Excusing
  <1>3. JobOf(c) \in JobIds /\ jobs \in [JobIds -> JobStates] /\ attempt[c] \in 0..MaxRetries /\ MaxRetries \in Nat
    BY CallFrame, JobTypes, Bounds DEF Frame, Returned, Types, LoopTypeOK, DispatchTypeOK
  <1>4. CASE dpc[c] = "judge"
    BY <1>1, <1>2, <1>3, <1>4, JudgedMoves DEF Judged, RetryLeft, JobOf
  <1>5. CASE dpc[c] = "save"
    BY <1>1, <1>2, <1>5, JudgedMoves DEF Judged
  <1>6. CASE dpc[c] = "finish"
    <2>1. jobs'[JobOf(c)] = IF Accepted(c) THEN "complete" ELSE "failed"
      BY <1>3, <1>6, JudgedMoves DEF SetJob
    <2> QED BY <1>1, <1>2, <1>6, <2>1 DEF Judged, JobOf
  <1>7. CASE dpc[c] = "close"
    BY <1>1, <1>2, <1>7, JudgedMoves DEF Judged
  <1> QED BY <1>4, <1>5, <1>6, <1>7, JudgedMoves

(* and so does every step of another, or of the loop.                      *)
LEMMA NextKeepsJudged == LoopInv /\ JudgedInv /\ [Next]_vars => JudgedInv'
  <1> SUFFICES ASSUME LoopInv, JudgedInv, [Next]_vars, NEW d \in Roles PROVE Judged(d)'
    BY DEF JudgedInv
  <1>1. Judged(d)
    BY DEF JudgedInv
  <1>2. ASSUME UNCHANGED <<wiring, tree, jobs, breaches>>, Excused => Excused',
               dpc'[d] = dpc[d], round'[d] = round[d], attempt'[d] = attempt[d], product'[d] = product[d]
        PROVE  Judged(d)'
    <2>1. (Verdict(d)' = Verdict(d)) /\ (Accepted(d)' <=> Accepted(d))
      BY <1>2 DEF Verdict, Accepted
    <2> QED BY <1>1, <1>2, <2>1 DEF Judged
  <1>3. ASSUME NEW c \in Roles, Step(c) PROVE Judged(d)'
    <2>1. CASE d = c
      BY <1>1, <1>3, <2>1, OwnJudged DEF Step, LoopInv
    <2>2. CASE d # c
      <3>1. /\ Frame(c) /\ Orchestrate(c) /\ (Excused => Excused') /\ breaches \subseteq breaches'
        BY <1>3, CallFrame, Excusing, BreachMoves DEF Step, LoopInv
      <3>2. dpc[d] # "idle" => JobOf(d) \in JobIds /\ JobOf(d) # JobOf(c)
        BY <2>2, JobTypes DEF LoopInv, JobOf
      <3>3. tree' = tree \/ dpc[d] = "idle"
        <4>1. dpc[c] = "wait" /\ c \notin Group => lpc \in {"developing", "invoked"} /\ d \in Group
          BY <2>2, PhaseRolesAssumption DEF LoopInv, Types, LoopTypeOK, LoopStates, Control,
             CallsOfLoop, Ended, Returned
        <4> QED BY <3>1, <4>1, TreeMoves DEF LoopInv, Control, CallsOfLoop
      <3>4. CASE dpc[d] = "idle"
        BY <2>2, <3>1, <3>4 DEF Frame, Judged
      <3>5. CASE dpc[d] # "idle" /\ tree' = tree
        <4>1. /\ dpc'[d] = dpc[d] /\ round'[d] = round[d] /\ attempt'[d] = attempt[d] /\ product'[d] = product[d]
              /\ wiring' = wiring /\ jobs'[<<d, round[d], attempt[d]>>] = jobs[<<d, round[d], attempt[d]>>]
          BY <2>2, <3>1, <3>2, <3>5 DEF Frame, JobOf
        <4>2. (Verdict(d)' = Verdict(d)) /\ (Accepted(d)' <=> Accepted(d))
          BY <3>5, <4>1 DEF Verdict, Accepted
        <4> QED BY <1>1, <3>1, <4>1, <4>2 DEF Judged
      <3> QED BY <3>3, <3>4, <3>5
    <2> QED BY <2>1, <2>2
  <1>4. ASSUME NEW c \in Roles, NEW b \in BOOLEAN, Call(c, b) PROVE Judged(d)'
    <2>1. /\ UNCHANGED <<wiring, tree, jobs, breaches, interrupted, lost>>
          /\ dpc[c] = "idle" /\ dpc'[c] \in {"open", "create", "error"}
          /\ \A e \in Roles \ {c} : /\ dpc'[e] = dpc[e] /\ round'[e] = round[e]
                                    /\ attempt'[e] = attempt[e] /\ product'[e] = product[e]
      BY <1>4 DEF Call, Goto, tableVars, LoopInv, Types, LoopTypeOK, DispatchTypeOK
    <2>2. Excused => Excused'
      BY <2>1, GroupAssumption DEF Excused, GroupFailed
    <2>3. CASE d = c
      BY <2>1, <2>3 DEF Judged
    <2>4. CASE d # c
      BY <1>2, <2>1, <2>2, <2>4
    <2> QED BY <2>3, <2>4
  <1>5. ASSUME UNCHANGED <<wiring, tree, callVars, jobs, breaches>>,
               interrupted => interrupted', lost > 0 => lost' > 0
        PROVE  Judged(d)'
    BY <1>2, <1>5 DEF callVars, Excused, GroupFailed
  <1>6. lost > 0 /\ Lose => lost' > 0
    BY DEF Lose, LoopInv, Types, LoopTypeOK, DispatchTypeOK
  <1>7. CASE EmitStarted \/ Exhausted \/ EmitEnd \/ RaiseItem
    BY <1>5, <1>6, <1>7 DEF EmitStarted, Exhausted, EmitEnd, RaiseItem, Emit, dispatchRest,
       tableVars
  <1>8. CASE CallDeveloper
    BY <1>4, <1>8, PhaseRolesAssumption DEF CallDeveloper
  <1>9. CASE DeveloperReturns
    BY <1>5, <1>9 DEF DeveloperReturns, dispatchVars, tableVars
  <1>10. ASSUME NEW r \in Group, StartReviewer(r) PROVE Judged(d)'
    <2>1. r \in Roles /\ (Call(r, FALSE) \/ (UNCHANGED dispatchRest /\ (Commits(r) \/ WriteFails(r))))
      BY <1>10, GroupAssumption DEF StartReviewer
    <2>2. CASE UNCHANGED dispatchRest /\ (Commits(r) \/ WriteFails(r))
      <3>1. lost > 0 => lost' > 0
        BY <1>6, <2>2 DEF Commits, WriteFails
      <3> QED BY <1>5, <2>2, <3>1 DEF dispatchRest, tableVars
    <2> QED BY <1>4, <2>1, <2>2
  <1>11. CASE FanIn
    <2>1. CASE UNCHANGED dispatchVars
      BY <1>5, <2>1 DEF dispatchVars, tableVars
    <2>2. CASE dpc' = [c \in Roles |-> "idle"]
      BY <2>2 DEF Judged
    <2> QED BY <1>11, <2>1, <2>2 DEF FanIn, Decide
  <1>12. CASE (Interrupt /\ UNCHANGED loopVars) \/ UNCHANGED vars
    BY <1>5, <1>12 DEF Interrupt, vars, dispatchVars, tableVars
  <1> QED BY <1>3, <1>7, <1>8, <1>9, <1>10, <1>11, <1>12 DEF Next, Loop

(* Fan-in calls a phase clean only if every agent exited with 0.           *)
LEMMA NextKeepsCleanExit == LoopInv /\ CleanExit /\ [Next]_vars => CleanExit'
  <1> SUFFICES ASSUME LoopInv, CleanExit, [Next]_vars, outcome' = "clean" PROVE CleanExit'
    BY DEF CleanExit
  <1>1. ASSUME UNCHANGED <<outcome, skipped, product>> PROVE CleanExit'
    BY <1>1 DEF CleanExit, Reporting
  <1>2. lpc \in {"start", "develop", "invoke", "developing", "fan-out", "invoked"} => outcome = "none"
    BY DEF LoopInv, Control, RolesOfLoop, Ended
  <1>3. CASE Loop
    <2>1. CASE EmitStarted \/ Exhausted \/ EmitEnd \/ RaiseItem
      BY <1>1, <2>1 DEF EmitStarted, Exhausted, EmitEnd, RaiseItem, dispatchRest, callVars
    <2>2. CASE CallDeveloper \/ DeveloperReturns \/ \E r \in Group : StartReviewer(r)
      BY <1>2, <2>2 DEF CallDeveloper, DeveloperReturns, StartReviewer
    <2>3. CASE FanIn
      <3>1. Decide(Reporting) /\ outcome = "none"
        BY <1>2, <2>3 DEF FanIn, Joined
      <3>2. TestsPassed(Reporting) /\ UNCHANGED <<dispatchVars, skipped>>
        BY <3>1 DEF Decide
      <3> QED BY <3>2 DEF CleanExit, TestsPassed, Reporting, dispatchVars, callVars
    <2> QED BY <1>3, <2>1, <2>2, <2>3 DEF Loop
  <1>4. ASSUME NEW c \in Roles, Step(c) PROVE FALSE
    <2>1. Frame(c) /\ outcome = "clean"
      BY <1>4, CallFrame DEF Step, LoopInv, loopVars
    <2> QED BY <2>1 DEF LoopInv, Control, RolesOfLoop, Frame, Returned
  <1>5. CASE (Interrupt /\ UNCHANGED loopVars) \/ UNCHANGED vars
    BY <1>1, <1>5 DEF Interrupt, vars, dispatchVars, callVars, loopVars
  <1> QED BY <1>3, <1>4, <1>5 DEF Next

(* Where CleanMeansCompliant fails: a clean phase with work the rules do   *)
(* not accept has run out of attempts, shows the job as failed and names   *)
(* the breach in an event.                                                 *)
THEOREM CleanIsAsJudged == Spec => []CleanAsJudged
  <1>1. Init => JudgedInv
    BY DEF Init, DispatchInit, JudgedInv, Judged
  <1>3. Init => CleanExit
    BY DEF Init, CleanExit
  <1>2. LoopInv /\ JudgedInv /\ CleanExit => CleanAsJudged
    <2> SUFFICES ASSUME LoopInv, JudgedInv, CleanExit, outcome = "clean", NEW c \in Reporting
                 PROVE  /\ jobs[JobOf(c)] = IF Verdict(c) = "pass" THEN "complete" ELSE "failed"
                        /\ Verdict(c) = "pass" \/ attempt[c] = MaxRetries
                        /\ lost = 0 /\ ~interrupted => Verdict(c) = "pass" \/ JobOf(c) \in breaches
      BY DEF CleanAsJudged
    <2>1. \A d \in Roles : dpc[d] \in {"idle", "ok"}
      BY DEF LoopInv, Control, RolesOfLoop
    <2>2. c \in Roles /\ dpc[c] = "ok"
      BY DEF LoopInv, Control, RolesOfLoop, Reporting
    <2>3. ~GroupFailed
      BY <2>1, GroupAssumption DEF GroupFailed
    <2>4. product[c].exit = 0
      BY DEF CleanExit
    <2> QED BY <2>2, <2>3, <2>4 DEF JudgedInv, Judged, JobOf, Accepted, Excused, LoopInv, Types,
       LoopTypeOK, DispatchTypeOK
  <1> QED BY <1>1, <1>2, <1>3, NextKeepsJudged, NextKeepsCleanExit, LoopSafe, PTL DEF Spec

(* Without a Supervisor no attempt is refused and no breach is found.      *)
NobodyIsJudged == breaches = {} /\ \A c \in Roles : attempt[c] = 0

(* As every command wires it: whatever the rules say of what the roles     *)
(* produce, no phase makes an agent try again and no event names a breach. *)
THEOREM UnsupervisedIsUnjudged ==
  ASSUME \A w \in Wirings : ~w.supervisor
  PROVE  Spec => []NobodyIsJudged
  <1>1. Init => NobodyIsJudged
    BY DEF Init, DispatchInit, NobodyIsJudged
  <1>2. LoopInv /\ NobodyIsJudged /\ [Next]_vars => NobodyIsJudged'
    <2> SUFFICES ASSUME LoopInv, NobodyIsJudged, [Next]_vars PROVE NobodyIsJudged'
      OBVIOUS
    <2> USE DEF LoopInv, Types, LoopTypeOK, DispatchTypeOK
    <2>1. ASSUME NEW c \in Roles, Step(c) PROVE NobodyIsJudged'
      <3>1. Verdict(c) = "pass"
        BY DEF Verdict, Bare
      <3>2. ~Breach(c) /\ ~Refuse(c)
        BY <3>1 DEF Breach, Refuse
      <3>3. UNCHANGED <<attempt, breaches>>
        BY <2>1, <3>2 DEF Step, Orchestrate, OpenRun, Render, CreateJob, Lease, Deny, StartAgent,
           AgentExits, RecordCost, Accept, SaveFinding, FinishJob, FailJob, CloseRun, tableVars
      <3> QED BY <3>3 DEF NobodyIsJudged
    <2>2. ASSUME NEW c \in Roles, NEW b \in BOOLEAN, Call(c, b) PROVE NobodyIsJudged'
      BY <2>2 DEF Call, tableVars, NobodyIsJudged
    <2>3. ASSUME UNCHANGED <<attempt, breaches>> PROVE NobodyIsJudged'
      BY <2>3 DEF NobodyIsJudged
    <2>4. CASE Loop
      <3>1. CASE EmitStarted \/ Exhausted \/ EmitEnd \/ RaiseItem \/ DeveloperReturns
        BY <2>3, <3>1 DEF EmitStarted, Exhausted, EmitEnd, RaiseItem, DeveloperReturns,
           dispatchRest,
           dispatchVars, tableVars, callVars
      <3>2. CASE CallDeveloper
        BY <2>2, <3>2, PhaseRolesAssumption DEF CallDeveloper
      <3>3. ASSUME NEW r \in Group, StartReviewer(r) PROVE NobodyIsJudged'
        <4>1. r \in Roles /\ (Call(r, FALSE) \/ UNCHANGED dispatchRest)
          BY <3>3, GroupAssumption DEF StartReviewer
        <4> QED BY <2>2, <2>3, <4>1 DEF dispatchRest, tableVars, callVars
      <3>4. CASE FanIn
        BY <2>3, <3>4 DEF FanIn, Decide, dispatchVars, tableVars, callVars, NobodyIsJudged
      <3> QED BY <2>4, <3>1, <3>2, <3>3, <3>4 DEF Loop
    <2>5. CASE (Interrupt /\ UNCHANGED loopVars) \/ UNCHANGED vars
      BY <2>3, <2>5 DEF Interrupt, vars, dispatchVars, tableVars, callVars
    <2> QED BY <2>1, <2>4, <2>5 DEF Next
  <1> QED BY <1>1, <1>2, LoopSafe, PTL DEF Spec
-----------------------------------------------------------------------------
(* The version under review and the reports on it, as FixLoop has them.    *)
Version == IF lpc \in {"start", "invoke", "invoked"} THEN 0 ELSE cycles + 1
Reports == [r \in Roles |-> IF Invoked THEN "pending" ELSE Said(r)]

(* A role whose report is not pending has said it and found nothing, has   *)
(* found something, or was skipped.                                        *)
LEMMA WhatIsSaid ==
  ASSUME NEW r \in Roles
  PROVE  /\ r \in skipped => Said(r) = "skipped"
         /\ r \notin skipped /\ dpc[r] # "ok" => Said(r) = "pending"
         /\ r \notin skipped /\ dpc[r] = "ok" =>
              Said(r) = IF product[r] = NoProduct THEN "clean" ELSE "faulted"
  BY DEF Said

(* What a role has said after a step.                                      *)
LEMMA WhatIsSaidNext ==
  ASSUME NEW r \in Roles
  PROVE  /\ r \in skipped' => Said(r)' = "skipped"
         /\ r \notin skipped' /\ dpc'[r] # "ok" => Said(r)' = "pending"
         /\ r \notin skipped' /\ dpc'[r] = "ok" =>
              Said(r)' = IF product'[r] = NoProduct THEN "clean" ELSE "faulted"
  BY DEF Said

(* A step of a call is a report to FixLoop, or nothing.                    *)
LEMMA CallIsReport ==
  ASSUME LoopInv, NEW c \in Roles, Step(c)
  PROVE  Promise!FixNext \/ UNCHANGED Promise!fixVars
  <1>1. /\ Frame(c) /\ UNCHANGED loopVars /\ Control
        /\ skipped \subseteq Group /\ cycles \in Nat /\ lpc \in LoopStates
    BY CallFrame, Bounds DEF LoopInv, Step, Types, LoopTypeOK
  <1>2. /\ lpc \in {"developing", "fan-out", "invoked"} /\ c \notin skipped
        /\ dpc[c] \notin Returned /\ outcome = "none"
    BY <1>1 DEF Control, CallsOfLoop, RolesOfLoop, Frame, Returned, Ended, LoopStates
  <1>3. Version' = Version /\ outcome' = outcome
    BY <1>1 DEF Version, loopVars
  <1>4. CASE Invoked
    <2>1. Reports' = Reports
      BY <1>1, <1>4 DEF Reports, Invoked, loopVars
    <2> QED BY <1>3, <2>1 DEF Promise!fixVars, Version, Reports
  <1>5. CASE ~Invoked
    <2>1. Version > 0 /\ ~Invoked'
      BY <1>1, <1>2, <1>5 DEF Version, Invoked, loopVars
    <2>2. \A r \in Roles \ {c} : Said(r)' = Said(r)
      BY <1>1, WhatIsSaid, WhatIsSaidNext DEF Frame, loopVars
    <2>3. Said(c) = "pending"
      BY <1>2, WhatIsSaid DEF Returned
    <2>4. CASE dpc'[c] # "ok"
      <3>1. Said(c)' = "pending"
        BY <1>1, <1>2, <2>4, WhatIsSaidNext DEF loopVars
      <3>2. Reports' = Reports
        BY <1>5, <2>1, <2>2, <2>3, <3>1 DEF Reports
      <3> QED BY <1>3, <3>2 DEF Promise!fixVars, Version, Reports
    <2>5. CASE dpc'[c] = "ok"
      <3>1. Said(c)' \in {"clean", "faulted"}
        BY <1>1, <1>2, <2>5, WhatIsSaidNext DEF loopVars
      <3>2. Reports[c] = "pending" /\ Reports' = [Reports EXCEPT ![c] = Said(c)']
        BY <1>5, <2>1, <2>2, <2>3 DEF Reports
      <3>3. Promise!Report(c)
        BY <1>2, <1>3, <2>1, <3>1, <3>2 DEF Promise!Report, Version, Reports
      <3> QED BY <3>3 DEF Promise!FixNext
    <2> QED BY <2>4, <2>5
  <1> QED BY <1>4, <1>5

(* A loop step that leaves version and reports alone.                      *)
LEMMA SameReports ==
  ASSUME Version' = Version, Reports' = Reports
  PROVE  /\ outcome' = outcome => UNCHANGED Promise!fixVars
         /\ outcome = "none" /\ Version > 0 /\ outcome' = "failed" => Promise!End
  BY DEF Promise!fixVars, Promise!End, Promise!EndFailed, Version, Reports

(* When fan-in decides, the reports are all in.                            *)
LEMMA AllIn ==
  ASSUME LoopInv, lpc = "fan-out", \A c \in Roles \ skipped : dpc[c] = "ok"
  PROVE  /\ ~Invoked /\ \A r \in Roles : Reports[r] # "pending"
         /\ (\E r \in Roles : Reports[r] = "faulted") <=>
               ~(Deduped(Reporting) = {} /\ TestsPassed(Reporting))
  <1>1. ~Invoked /\ \A r \in Roles : Reports[r] = Said(r)
    BY DEF Invoked, Reports
  <1>2. \A r \in Roles : Said(r) # "pending" /\ (Said(r) = "faulted" <=> r \in Reporting /\ product[r] # NoProduct)
    BY WhatIsSaid DEF Reporting
  <1>3. Deduped(Reporting) = {} <=> \A r \in Reporting : product[r].findings = {}
    <2>1. ASSUME NEW r \in Reporting, NEW f \in product[r].findings PROVE Deduped(Reporting) # {}
      <3>1. f \in UNION {product[q].findings : q \in Reporting}
        OBVIOUS
      <3>2. \E e : e = [finding |-> f, jobs |-> {JobOf(q) : q \in {u \in Reporting : f \in product[u].findings}}]
        OBVIOUS
      <3> QED BY <3>1, <3>2 DEF Deduped
    <2> QED BY <2>1, DedupedOf
  <1>4. \A r \in Reporting : product[r] = NoProduct <=> product[r].findings = {} /\ product[r].exit = 0
    <2>1. \A r \in Reporting : product[r] \in Products
      BY DEF LoopInv, Types, Reporting
    <2> QED BY <2>1 DEF Products, NoProduct
  <1> QED BY <1>1, <1>2, <1>3, <1>4 DEF TestsPassed, Reporting

(* A step of the loop is a step of FixLoop, or nothing.                    *)
LEMMA LoopIsFix ==
  ASSUME LoopInv, Loop
  PROVE  Promise!FixNext \/ UNCHANGED Promise!fixVars
  <1>1. /\ Types /\ Control /\ cycles \in 0..MaxFixCycles /\ skipped \subseteq Group /\ MaxFixCycles \in Nat \ {0}
    BY Bounds DEF LoopInv, Types, LoopTypeOK
  <1>2. ASSUME UNCHANGED <<skipped, dpc, product>>, Invoked' <=> Invoked PROVE Reports' = Reports
    <2>1. \A r \in Roles : Said(r)' = Said(r)
      BY <1>2, WhatIsSaid, WhatIsSaidNext
    <2> QED BY <1>2, <2>1 DEF Reports
  <1>3. CASE EmitStarted
    <2>1. /\ Version = 0 /\ Version' = 1 /\ outcome = "none" /\ outcome' = outcome
          /\ skipped' = {} /\ \A r \in Roles : dpc'[r] = "idle"
      BY <1>1, <1>3 DEF EmitStarted, Control, CallsOfLoop, RolesOfLoop, Ended, Version,
         dispatchRest, callVars
    <2>2. Reports' = [r \in Roles |-> "pending"]
      BY <2>1, WhatIsSaidNext DEF Reports
    <2>3. Promise!Develop
      BY <1>1, <2>1, <2>2 DEF Promise!Develop, Version, Reports
    <2> QED BY <2>3 DEF Promise!FixNext
  <1>4. CASE Exhausted \/ EmitEnd \/ RaiseItem
    <2>1. /\ UNCHANGED <<skipped, dpc, product, outcome, cycles>> /\ (Invoked' <=> Invoked)
          /\ lpc \notin {"start", "invoke", "invoked"} /\ lpc' \notin {"start", "invoke", "invoked"}
      BY <1>4 DEF Exhausted, EmitEnd, RaiseItem, Invoked, dispatchRest, callVars
    <2> QED BY <1>2, <2>1, SameReports DEF Version
  <1>5. ASSUME NEW c \in Roles, NEW b, Call(c, b), UNCHANGED <<skipped, outcome, cycles>>, Invoked' <=> Invoked,
               Version' = Version
        PROVE  UNCHANGED Promise!fixVars
    <2>1. /\ dpc[c] = "idle" /\ dpc'[c] # "ok"
          /\ \A d \in Roles \ {c} : dpc'[d] = dpc[d] /\ product'[d] = product[d]
      BY <1>1, <1>5 DEF Call, Goto, Types, LoopTypeOK, DispatchTypeOK
    <2>2. \A r \in Roles : Said(r)' = Said(r)
      BY <1>5, <2>1, WhatIsSaid, WhatIsSaidNext
    <2>3. Reports' = Reports
      BY <1>5, <2>2 DEF Reports
    <2> QED BY <1>5, <2>3, SameReports
  <1>6. CASE CallDeveloper
    <2>1. /\ Call(Developer, lpc = "invoke") /\ Developer \in Roles
          /\ UNCHANGED <<skipped, outcome, cycles>> /\ (Invoked' <=> Invoked) /\ Version' = Version
      BY <1>6, PhaseRolesAssumption DEF CallDeveloper, Invoked, Version
    <2> QED BY <1>5, <2>1
  <1>7. CASE DeveloperReturns
    <2>1. /\ UNCHANGED <<skipped, dpc, product>> /\ (Invoked' <=> Invoked) /\ Version' = Version
          /\ Version > 0 /\ outcome = "none" /\ outcome' \in {outcome, "failed"}
      BY <1>1, <1>7 DEF DeveloperReturns, Invoked, Version, dispatchVars, callVars, Control,
         RolesOfLoop, Ended
    <2> QED BY <1>2, <2>1, SameReports DEF Promise!FixNext
  <1>8. ASSUME NEW r \in Group, StartReviewer(r) PROVE Promise!FixNext \/ UNCHANGED Promise!fixVars
    <2>1. /\ lpc = "fan-out" /\ UNCHANGED <<lpc, cycles, outcome>> /\ r \in Roles
          /\ r \notin skipped /\ dpc[r] = "idle" /\ outcome = "none" /\ ~Invoked /\ ~Invoked'
          /\ Version' = Version /\ Version > 0
      BY <1>1, <1>8, PhaseRolesAssumption DEF StartReviewer, Version, Invoked, Control,
         RolesOfLoop, Ended
    <2>2. CASE skipped' = skipped \cup {r} /\ UNCHANGED dispatchRest
      <3>1. \A d \in Roles \ {r} : Said(d)' = Said(d)
        BY <2>2, WhatIsSaid, WhatIsSaidNext DEF dispatchRest, callVars
      <3>2. Said(r) = "pending" /\ Said(r)' = "skipped"
        BY <2>1, <2>2, WhatIsSaid, WhatIsSaidNext
      <3>3. Reports[r] = "pending" /\ Reports' = [Reports EXCEPT ![r] = "skipped"]
        BY <2>1, <3>1, <3>2 DEF Reports
      <3>4. Promise!Report(r)
        BY <2>1, <3>3 DEF Promise!Report, Version, Reports
      <3> QED BY <2>1, <3>4 DEF Promise!FixNext
    <2>3. CASE Call(r, FALSE) /\ UNCHANGED <<skipped, emitted>>
      BY <1>5, <2>1, <2>3
    <2> QED BY <1>8, <2>2, <2>3 DEF StartReviewer
  <1>9. CASE FanIn
    <2>1. /\ lpc = "fan-out" /\ dpc[Developer] = "ok" /\ outcome = "none"
          /\ \A c \in Roles : c \in skipped \/ dpc[c] \in {"ok", "error"}
          /\ Version = cycles + 1 /\ Version > 0
      BY <1>1, <1>9, PhaseRolesAssumption DEF FanIn, Joined, Control, CallsOfLoop, RolesOfLoop,
         Ended, Version
    <2>2. CASE outcome' = "failed" /\ lpc' = "failed" /\ UNCHANGED <<dispatchVars, cycles, skipped, feedback>>
      <3>1. UNCHANGED <<skipped, dpc, product>> /\ (Invoked' <=> Invoked) /\ Version' = Version
        BY <2>1, <2>2 DEF Invoked, Version, dispatchVars, callVars
      <3> QED BY <1>2, <2>1, <2>2, <3>1, SameReports DEF Promise!FixNext
    <2>3. CASE (\A r \in Group : dpc[r] # "error") /\ Decide(Reporting)
      <3>1. \A c \in Roles \ skipped : dpc[c] = "ok"
        BY <2>1, <2>3, PhaseRolesAssumption
      <3>2. /\ ~Invoked /\ \A r \in Roles : Reports[r] # "pending"
            /\ (\E r \in Roles : Reports[r] = "faulted") <=>
                  ~(Deduped(Reporting) = {} /\ TestsPassed(Reporting))
        BY <2>1, <3>1, AllIn
      <3>3. CASE /\ outcome' \in {"clean", "dirty"} /\ lpc' \in {"completed", "exhausted"}
                 /\ UNCHANGED <<dispatchVars, cycles, skipped, feedback>>
                 /\ outcome' = "clean" => Deduped(Reporting) = {} /\ TestsPassed(Reporting)
                 /\ outcome' = "dirty" => ~(Deduped(Reporting) = {} /\ TestsPassed(Reporting)) /\ cycles >= MaxFixCycles
        <4>1. UNCHANGED <<skipped, dpc, product>> /\ (Invoked' <=> Invoked) /\ Version' = Version
          BY <2>1, <3>3 DEF Invoked, Version, dispatchVars, callVars
        <4>2. Reports' = Reports
          BY <1>2, <4>1
        <4>3. Version = MaxFixCycles + 1 \/ outcome' = "clean"
          BY <1>1, <2>1, <3>3
        <4>4. Promise!End
          BY <2>1, <3>2, <3>3, <4>1, <4>2, <4>3 DEF Promise!End, Promise!EndClean, Promise!EndDirty,
             Promise!AllReported, Promise!Faulted, Version, Reports
        <4> QED BY <4>4 DEF Promise!FixNext
      <3>4. CASE /\ ~(Deduped(Reporting) = {} /\ TestsPassed(Reporting)) /\ cycles < MaxFixCycles
                 /\ cycles' = cycles + 1 /\ skipped' = {} /\ lpc' = "develop"
                 /\ dpc' = [c \in Roles |-> "idle"] /\ outcome' = outcome
        <4>1. Version' = Version + 1 /\ ~Invoked' /\ Version < MaxFixCycles + 1
          BY <1>1, <2>1, <3>4 DEF Version, Invoked
        <4>2. Reports' = [r \in Roles |-> "pending"]
          <5>1. \A r \in Roles : Said(r)' = "pending"
            BY <3>4, WhatIsSaidNext
          <5> QED BY <5>1 DEF Reports
        <4>3. Promise!Develop
          BY <2>1, <3>2, <3>4, <4>1, <4>2 DEF Promise!Develop, Promise!AllReported,
             Promise!Faulted, Version, Reports
        <4> QED BY <4>3 DEF Promise!FixNext
      <3> QED BY <2>3, <3>3, <3>4 DEF Decide
    <2> QED BY <1>9, <2>2, <2>3 DEF FanIn
  <1> QED BY <1>3, <1>4, <1>6, <1>7, <1>8, <1>9 DEF Loop

(* A phase implements FixLoop, whatever runs side by side, is retried,     *)
(* skipped or cancelled: it is clean only if the last version of the work  *)
(* was reported on by every role and faulted by none, and a new version is *)
(* made only to answer a report.                                           *)
THEOREM PhaseRefinement == Spec => ImplementsFixLoop
  <1>1. Init => Promise!FixInit
    <2> SUFFICES ASSUME Init PROVE Promise!FixInit
      OBVIOUS
    <2>1. /\ lpc \in {"start", "invoke"} /\ outcome = "none" /\ skipped = {}
          /\ \A r \in Roles : dpc[r] = "idle"
      BY DEF Init, DispatchInit
    <2>2. Version = 0 /\ Reports = [r \in Roles |-> "pending"]
      BY <2>1, WhatIsSaid DEF Version, Reports
    <2> QED BY <2>1, <2>2 DEF Promise!FixInit, Version, Reports
  <1>2. LoopInv /\ [Next]_vars => [Promise!FixNext]_(Promise!fixVars)
    <2> SUFFICES ASSUME LoopInv, [Next]_vars PROVE Promise!FixNext \/ UNCHANGED Promise!fixVars
      OBVIOUS
    <2>1. CASE (Interrupt /\ UNCHANGED loopVars) \/ UNCHANGED vars
      <3>1. UNCHANGED <<lpc, cycles, skipped, dpc, product, outcome>>
        BY <2>1 DEF Interrupt, vars, dispatchVars, callVars, loopVars
      <3>2. \A r \in Roles : Said(r)' = Said(r)
        BY <3>1, WhatIsSaid, WhatIsSaidNext
      <3>3. Version' = Version /\ Reports' = Reports
        BY <3>1, <3>2 DEF Version, Reports, Invoked
      <3> QED BY <3>1, <3>3, SameReports
    <2> QED BY <2>1, LoopIsFix, CallIsReport DEF Next
  <1> QED BY <1>1, <1>2, LoopSafe, PTL DEF Spec, ImplementsFixLoop, Promise!FixSpec
=============================================================================
