------------------------------ MODULE PhaseLoop ------------------------------
(***************************************************************************)
(* One phase of a plan (coding/phaseloop), over the calls of Dispatcher:   *)
(* the developer, then all reviewers and testers at once, then fan-in, and *)
(* again with the findings as feedback until a round is clean or the fix   *)
(* cycles are used up.  Or, as another life of the same process, one       *)
(* `coworker invoke` (cli/invoke.go): a single call with a run of its own. *)
(***************************************************************************)
EXTENDS Dispatcher

CONSTANTS
    Developer,
    AppliesWhen,     \* by role: [globs, message, phases], {} or FALSE if not given
    PhaseIndex,
    MaxFixCyclesPolicy  \* policy.supervisor_limits.max_fix_cycles_per_phase

ASSUME PhaseRolesAssumption == Developer \in Roles \ Group /\ Roles = Group \cup {Developer}
ASSUME CyclesAssumption == MaxFixCyclesPolicy \in Int

VARIABLES
    lpc,       \* where the loop is
    cycles,    \* fixCycles
    skipped,   \* roles this round skipped
    feedback,  \* the deduplicated findings the developer works on
    outcome,   \* what Execute returns
    emitted,   \* kinds of the phase's events
    item       \* the phase-clean attention item and its checkpoint

loopVars == <<lpc, cycles, skipped, feedback, outcome, emitted, item>>
vars == <<dispatchVars, loopVars>>

MaxFixCycles == IF MaxFixCyclesPolicy <= 0 THEN 5 ELSE MaxFixCyclesPolicy

ASSUME RoundsAssumption == MaxRounds = MaxFixCycles + 1

(* cli/invoke.go gives its Dispatcher none of the optional parts.          *)
Bare == [supervisor |-> FALSE, costs |-> FALSE, attention |-> FALSE, onUndeclared |-> "deny"]

Init ==
    /\ DispatchInit
    /\ lpc \in {"start", "invoke"}
    /\ (lpc = "invoke") = (wiring = Bare)
    /\ cycles = 0
    /\ skipped = {}
    /\ feedback = {}
    /\ outcome = "none"
    /\ emitted = {}
    /\ item = "none"

(* An event of the phase, written with the phase's context and an error    *)
(* only logged.                                                            *)
Emit(kind) ==
    \/ ~interrupted /\ emitted' = emitted \cup {kind} /\ UNCHANGED lost
    \/ interrupted /\ UNCHANGED <<emitted, lost>>
    \/ ~interrupted /\ Lose /\ UNCHANGED emitted

dispatchRest == <<wiring, perms, callVars, tableVars, tree, interrupted, failures>>

-----------------------------------------------------------------------------
EmitStarted ==
    /\ lpc = "start"
    /\ Emit("phase.started")
    /\ lpc' = "develop"
    /\ UNCHANGED <<dispatchRest, cycles, skipped, feedback, outcome, item>>

CallDeveloper ==
    /\ lpc \in {"develop", "invoke"}
    /\ Call(Developer, lpc = "invoke")
    /\ lpc' = IF lpc = "invoke" THEN "invoked" ELSE "developing"
    /\ UNCHANGED <<cycles, skipped, feedback, outcome, emitted, item>>

DeveloperReturns ==
    /\ lpc = "developing"
    /\ \/ dpc[Developer] = "ok" /\ lpc' = "fan-out" /\ UNCHANGED outcome
       \/ dpc[Developer] = "error" /\ lpc' = "failed" /\ outcome' = "failed"
    /\ UNCHANGED <<dispatchVars, cycles, skipped, feedback, emitted, item>>

(* roleShouldSkip: the populated predicates in turn, up to the first that  *)
(* does not hold.  An error, or a role file that cannot be read, is no     *)
(* reason to skip.                                                         *)
Predicates(r) ==
    LET when == AppliesWhen[r] IN
    <<IF when.globs = {} THEN "yes" ELSE ChangesTouch(tree, when.globs),
      IF when.message THEN Matches(tree, tree.message) ELSE "yes",
      IF when.phases = {} \/ PhaseIndex \in when.phases THEN "yes" ELSE "no">>

ShouldSkip(r) ==
    \E k \in 1..3 :
        /\ Predicates(r)[k] = "no"
        /\ \A j \in 1..(k - 1) : Predicates(r)[j] = "yes"

(* A goroutine of fanOut starts.                                           *)
StartReviewer(r) ==
    /\ lpc = "fan-out" /\ r \in Group \ skipped /\ dpc[r] = "idle"
    /\ \/ /\ ShouldSkip(r)
          /\ skipped' = skipped \cup {r}
          /\ \/ Commits(r) /\ emitted' = emitted \cup {"job.skipped"}
             \/ WriteFails(r) /\ UNCHANGED emitted
          /\ UNCHANGED <<dispatchRest>>
       \/ ~ShouldSkip(r) /\ Call(r, FALSE) /\ UNCHANGED <<skipped, emitted>>
    /\ UNCHANGED <<lpc, cycles, feedback, outcome, item>>

-----------------------------------------------------------------------------
(* AggregateResults and DedupeFindings: identical findings are one, with   *)
(* the jobs that reported it.                                              *)
Reporting == Roles \ skipped

Deduped(roles) ==
    {[finding |-> f, jobs |-> {JobOf(r) : r \in {q \in roles : f \in product[q].findings}}] :
        f \in UNION {product[r].findings : r \in roles}}

TestsPassed(roles) == \A r \in roles : product[r].exit = 0

Decide(roles) ==
    LET found == Deduped(roles) IN
    \/ /\ found = {} /\ TestsPassed(roles)
       /\ outcome' = "clean" /\ lpc' = "completed"
       /\ UNCHANGED <<dispatchVars, cycles, skipped, feedback>>
    \/ /\ ~(found = {} /\ TestsPassed(roles)) /\ cycles >= MaxFixCycles
       /\ outcome' = "dirty" /\ lpc' = "exhausted"
       /\ UNCHANGED <<dispatchVars, cycles, skipped, feedback>>
    \/ /\ ~(found = {} /\ TestsPassed(roles)) /\ cycles < MaxFixCycles
       /\ cycles' = cycles + 1
       /\ feedback' = found
       /\ skipped' = {}
       /\ lpc' = "develop"
       /\ dpc' = [c \in Roles |-> "idle"]
       /\ UNCHANGED <<wiring, perms, round, attempt, product, unsaved, agent, tableVars, tree,
                      interrupted, lost, failures, outcome>>

Joined ==
    /\ lpc = "fan-out"
    /\ \A r \in Group : r \in skipped \/ dpc[r] \in {"ok", "error"}

(* Mutant: fan-in forgets what the developer reported itself.              *)
FanInOfReviewers ==
    /\ Joined
    /\ \/ /\ \E r \in Group : dpc[r] = "error"
          /\ outcome' = "failed" /\ lpc' = "failed"
          /\ UNCHANGED <<dispatchVars, cycles, skipped, feedback>>
       \/ (\A r \in Group : dpc[r] # "error") /\ Decide(Reporting \ {Developer})
    /\ UNCHANGED <<emitted, item>>

(* Mutant: the phase ends at the first error.                              *)
FanInAtFirstError ==
    /\ lpc = "fan-out"
    /\ \/ /\ \E r \in Group : dpc[r] = "error"
          /\ outcome' = "failed" /\ lpc' = "failed"
          /\ UNCHANGED <<dispatchVars, cycles, skipped, feedback>>
       \/ Joined /\ (\A r \in Group : dpc[r] # "error") /\ Decide(Reporting)
    /\ UNCHANGED <<emitted, item>>

(* All goroutines have returned; the developer's own findings count too.   *)
FanIn ==
    /\ Joined
    /\ \/ /\ \E r \in Group : dpc[r] = "error"
          /\ outcome' = "failed" /\ lpc' = "failed"
          /\ UNCHANGED <<dispatchVars, cycles, skipped, feedback>>
       \/ (\A r \in Group : dpc[r] # "error") /\ Decide(Reporting)
    /\ UNCHANGED <<emitted, item>>

-----------------------------------------------------------------------------
(* A phase that does not converge raises an event, an item and a           *)
(* checkpoint; each may fail, and the phase ends as completed all the same.*)
Exhausted ==
    /\ lpc = "exhausted"
    /\ Emit("phase.clean")
    /\ lpc' = "item"
    /\ UNCHANGED <<dispatchRest, cycles, skipped, feedback, outcome, item>>

RaiseItem ==
    /\ \/ lpc = "item" /\ item' = "item" /\ lpc' = "pair" /\ ~interrupted /\ UNCHANGED lost
       \/ lpc = "pair" /\ item' = "paired" /\ lpc' = "completed" /\ ~interrupted /\ UNCHANGED lost
       \/ /\ lpc \in {"item", "pair"} /\ lpc' = "completed" /\ UNCHANGED item
          /\ IF interrupted THEN UNCHANGED lost ELSE Lose
    /\ UNCHANGED <<dispatchRest, cycles, skipped, feedback, outcome, emitted>>

EmitEnd ==
    /\ \/ lpc = "completed" /\ Emit("phase.completed")
       \/ lpc = "failed" /\ Emit("phase.failed")
    /\ lpc' = "done"
    /\ UNCHANGED <<dispatchRest, cycles, skipped, feedback, outcome, item>>

Invoked == lpc \in {"invoke", "invoked"}

Step(c) == Orchestrate(c) /\ UNCHANGED loopVars

Loop ==
    \/ EmitStarted \/ CallDeveloper \/ DeveloperReturns
    \/ \E r \in Group : StartReviewer(r)
    \/ FanIn \/ Exhausted \/ RaiseItem \/ EmitEnd

Next ==
    \/ Loop
    \/ \E c \in Roles : Step(c)
    \/ Interrupt /\ UNCHANGED loopVars

Spec == Init /\ [][Next]_vars

(* Fairness: goroutines are scheduled, and every agent ends some time, if  *)
(* only at the deadline of its role's budget.                              *)
FairSpec == Spec /\ WF_vars(Loop) /\ \A c \in Roles : WF_vars(Step(c))

-----------------------------------------------------------------------------
LoopStates ==
    {"start", "develop", "developing", "fan-out", "completed", "exhausted", "item", "pair",
     "failed", "done", "invoke", "invoked"}

(* Values are in range; in particular no call makes more attempts than     *)
(* MaxRetries + 1 and no phase more fix cycles than MaxFixCycles.          *)
LoopTypeOK ==
    /\ DispatchTypeOK
    /\ lpc \in LoopStates
    /\ cycles \in 0..MaxFixCycles
    /\ skipped \subseteq Group
    /\ feedback \subseteq [finding : Findings, jobs : SUBSET JobIds]
    /\ outcome \in {"none", "clean", "dirty", "failed"}
    /\ item \in {"none", "item", "paired"}

(* A phase keeps the promise of FixLoop, whatever runs side by side, is    *)
(* retried, skipped or cancelled.                                          *)
Said(r) ==
    CASE r \in skipped -> "skipped"
      [] r \notin skipped /\ dpc[r] = "ok" -> IF product[r] = NoProduct THEN "clean" ELSE "faulted"
      [] OTHER -> "pending"

Promise == INSTANCE FixLoop WITH
    Reporters <- Roles,
    MaxVersions <- MaxFixCycles + 1,
    version <- IF lpc \in {"start", "invoke", "invoked"} THEN 0 ELSE cycles + 1,
    report <- [r \in Roles |-> IF Invoked THEN "pending" ELSE Said(r)],
    outcome <- outcome

ImplementsFixLoop == Promise!FixSpec

(* An agent is alive only for a job the table shows as dispatched and a    *)
(* phase that is not over, and the developer's never beside another: they  *)
(* share a worktree.                                                       *)
AgentsWithinPhase ==
    \A c \in Roles : agent[c] =>
        /\ jobs[JobOf(c)] = "dispatched"
        /\ lpc \in {"developing", "fan-out", "invoked"}
        /\ c = Developer <=> lpc \in {"developing", "invoked"}

EndedWell == (outcome \in {"clean", "dirty"} /\ ~interrupted) \/ ownRun = "completed"

(* A phase or an invoked run that ended well leaves no job open, unless a  *)
(* write was lost.                                                         *)
NothingOpen ==
    lost = 0 /\ (EndedWell \/ ownRun = "failed") =>
        \A j \in JobIds : jobs[j] \in {"absent", "complete", "failed"}

(* And every attempt was charged for, those the rules refused too.         *)
EveryAttemptCharged ==
    lost = 0 /\ EndedWell /\ wiring.costs =>
        \A j \in JobIds : jobs[j] # "absent" /\ j[1] \in ReportsCost => j \in costed

(* What the developer is told is on record: each finding of the feedback   *)
(* has a row for each of the jobs it is said to come from.                 *)
FeedbackOnRecord ==
    lost = 0 /\ ~interrupted =>
        \A e \in feedback : e.jobs # {} /\ \A j \in e.jobs : <<j, e.finding>> \in findings

(* A job that was closed is never opened again.                            *)
JobsFinal ==
    [][\A j \in JobIds : jobs[j] \in {"complete", "failed"} => jobs'[j] = jobs[j]]_vars

(* A phase that was started ends.                                          *)
PhaseEnds == (lpc = "start") ~> (lpc = "done")

(* What the design says, and the code does not do: a phase is clean only   *)
(* if the contract rules hold of everything its agents delivered.          *)
CleanMeansCompliant ==
    outcome = "clean" => \A r \in Reporting : Evaluate(r, product[r], tree) = "pass"
=============================================================================
