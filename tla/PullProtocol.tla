---------------------------- MODULE PullProtocol ----------------------------
(***************************************************************************)
(* The pull-model worker protocol: workers register, beat and poll for     *)
(* work through the orch_* tools of mcp/; a router enqueues work for the   *)
(* live workers of a role (coding/router.go); every daemon runs a watchdog *)
(* that evicts silent workers and requeues what they were working on       *)
(* (mcp/watchdog.go).  Registry and queue are tables of one SQLite file,   *)
(* which several daemons may share: `coworker daemon` is a stdio MCP       *)
(* server, started once per CLI session.                                   *)
(*                                                                         *)
(* One action is one committed statement or transaction.  What a handler   *)
(* or the watchdog carries from one statement to the next is in variables, *)
(* is lost with its daemon, and may be stale when it is used.              *)
(***************************************************************************)
EXTENDS WorkerStore, DispatchStore, FiniteSets

CONSTANTS
    Servers,     \* daemons sharing the database
    NoServer,
    Interval,    \* WatchdogConfig.Interval
    StaleAfter,  \* WatchdogConfig.StaleAfter
    EvictAfter,  \* WatchdogConfig.EvictAfter
    MaxFaults,   \* bound: daemon restarts and failing statements
    MaxDeaths    \* bound: worker processes that die

ASSUME TimeAssumption ==
    /\ Interval \in Nat /\ StaleAfter \in Nat /\ EvictAfter \in Nat
    /\ StaleAfter < MaxAge /\ EvictAfter < MaxAge
ASSUME BoundAssumption == MaxFaults \in Nat /\ MaxDeaths \in Nat
ASSUME ServerAssumption == NoServer \notin Servers

VARIABLES
    pc,          \* where a daemon's watchdog is in tick
    since,       \* time since its last tick began, up to Interval
    overdue,     \* handles older than the tick's eviction cutoff
    marked,      \* history: handles this tick found live and marked stale
    selected,    \* MarkEvicted's SELECT, not yet processed
    evicted,     \* handles it evicted, not yet requeued
    requeueing,  \* the handle RequeueByWorker is running for
    leased,      \* its SELECT, not yet processed
    routing,     \* the rows a Route call has yet to enqueue, by target
    routeRole,   \* the role of that call
    finishing,   \* the daemon between the two halves of orch_job_complete
    jobDone,     \* dispatches whose completion reached their job
    dead,        \* workers whose process is gone
    faults       \* faults so far

watchdogVars == <<pc, since, overdue, marked, selected, evicted, requeueing, leased>>
routerVars == <<routing, routeRole>>
jobVars == <<finishing, jobDone>>
vars == <<workerVars, dispatchVars, watchdogVars, routerVars, jobVars, dead, faults>>

Init ==
    /\ WorkerInit
    /\ DispatchInit
    /\ pc = [s \in Servers |-> "idle"]
    /\ since = [s \in Servers |-> 0]
    /\ overdue = [s \in Servers |-> {}]
    /\ marked = [s \in Servers |-> {}]
    /\ selected = [s \in Servers |-> {}]
    /\ evicted = [s \in Servers |-> {}]
    /\ requeueing = [s \in Servers |-> NoWorker]
    /\ leased = [s \in Servers |-> {}]
    /\ routing = [s \in Servers |-> {}]
    /\ routeRole \in [Servers -> Roles]
    /\ finishing = [d \in Dispatches |-> NoServer]
    /\ jobDone = {}
    /\ dead = {}
    /\ faults = 0

Fault == faults < MaxFaults /\ faults' = faults + 1

-----------------------------------------------------------------------------
(* The orch_* tools, as a worker or an ephemeral process calls them.       *)

WorkerRegister(w) ==
    /\ Register(w)
    /\ UNCHANGED <<dispatchVars, watchdogVars, routerVars, jobVars, dead, faults>>

(* A heartbeat takes its sender out of every cutoff already computed.      *)
WorkerHeartbeat(w) ==
    /\ w \notin dead
    /\ Heartbeat(w)
    /\ overdue' = [s \in Servers |-> overdue[s] \ {w}]
    /\ UNCHANGED <<pc, since, marked, selected, evicted, requeueing, leased>>
    /\ UNCHANGED <<dispatchVars, routerVars, jobVars, dead, faults>>

WorkerDeregister(w) ==
    /\ w \notin dead
    /\ Deregister(w)
    /\ UNCHANGED <<dispatchVars, watchdogVars, routerVars, jobVars, dead, faults>>

WorkerDies(w) ==
    /\ w \in Registered \ dead
    /\ Cardinality(dead) < MaxDeaths
    /\ dead' = dead \cup {w}
    /\ UNCHANGED <<workerVars, dispatchVars, watchdogVars, routerVars, jobVars, faults>>

(* orch_next_dispatch of a worker with its handle, evicted or not.         *)
WorkerClaims(w) ==
    /\ w \in Registered \ dead
    /\ ClaimNextDispatch(w, w, RoleOf[w])
    /\ UNCHANGED <<workerVars, watchdogVars, routerVars, jobVars, dead, faults>>

EphemeralClaims(e, role) ==
    /\ ClaimNextDispatch(e, NoWorker, role)
    /\ UNCHANGED <<workerVars, watchdogVars, routerVars, jobVars, dead, faults>>

(***************************************************************************)
(* orch_job_complete: anyone who was ever given the dispatch may report    *)
(* it.  The job is updated by a statement of its own, whose failure is     *)
(* only logged.  The rows of one "many" route share their job, so it is    *)
(* complete with the first of them.                                        *)
(***************************************************************************)
JobComplete(a, d, s) ==
    /\ a \in granted[d] \ dead
    /\ CompleteDispatch(d)
    /\ finishing' = [finishing EXCEPT ![d] = s]
    /\ UNCHANGED <<workerVars, watchdogVars, routerVars, jobDone, dead, faults>>

UpdateJobState(d) ==
    /\ finishing[d] # NoServer
    /\ finishing' = [finishing EXCEPT ![d] = NoServer]
    /\ \/ jobDone' = jobDone \cup {d} /\ UNCHANGED faults
       \/ Fault /\ UNCHANGED jobDone
    /\ UNCHANGED <<workerVars, dispatchVars, watchdogVars, routerVars, dead>>

-----------------------------------------------------------------------------
(***************************************************************************)
(* Route reads the live workers of a role, then enqueues one row per       *)
(* chosen worker (or one row for nobody) in transactions of their own.     *)
(***************************************************************************)
Route(s, role, concurrency) ==
    /\ routing[s] = {}
    /\ \E d \in Dispatches : dstate[d] = "none" /\ RoleOf[d] = role
    /\ LET live == LiveWorkersForRole(role) IN
       \E chosen \in IF live = {} THEN {{NoWorker}}
                     ELSE IF concurrency = "many" THEN {live}
                     ELSE {{w} : w \in Oldest(live)} :
          routing' = [routing EXCEPT ![s] = chosen]
    /\ routeRole' = [routeRole EXCEPT ![s] = role]
    /\ UNCHANGED <<workerVars, dispatchVars, watchdogVars, jobVars, dead, faults>>

(* enqueue and enqueueEphemeral, oldest worker first.                      *)
RouteEnqueue(s, d) ==
    /\ RoleOf[d] = routeRole[s]
    /\ \E w \in Oldest(routing[s] \cap Workers) \cup (routing[s] \ Workers) :
          /\ EnqueueDispatch(d, w)
          /\ routing' = [routing EXCEPT ![s] = @ \ {w}]
    /\ UNCHANGED <<workerVars, watchdogVars, routeRole, jobVars, dead, faults>>

(* A failing insert ends the call; the rows already enqueued stay.         *)
RouteFails(s) ==
    /\ routing[s] # {}
    /\ Fault
    /\ routing' = [routing EXCEPT ![s] = {}]
    /\ UNCHANGED <<workerVars, dispatchVars, watchdogVars, routeRole, jobVars, dead>>

-----------------------------------------------------------------------------
(***************************************************************************)
(* The watchdog's tick.  Its clock is read once, when it begins: the       *)
(* eviction cutoff then covers the handles in overdue until they beat      *)
(* again.  MarkStale's own SELECT decides nothing, so beginning and        *)
(* marking are one step; a failing MarkStale is logged and the tick goes   *)
(* on.                                                                     *)
(***************************************************************************)
TickBegin(s) ==
    /\ pc[s] = "idle"
    /\ since[s] >= Interval
    /\ since' = [since EXCEPT ![s] = 0]
    /\ pc' = [pc EXCEPT ![s] = "select"]
    /\ overdue' = [overdue EXCEPT ![s] = {w \in Workers : age[w] > EvictAfter}]
    /\ \/ /\ MarkStale(StaleAfter)
          /\ marked' = [marked EXCEPT ![s] = NewlyStale(StaleAfter)]
          /\ UNCHANGED faults
       \/ /\ Fault
          /\ marked' = [marked EXCEPT ![s] = {}]
          /\ UNCHANGED workerVars
    /\ UNCHANGED <<selected, evicted, requeueing, leased>>
    /\ UNCHANGED <<dispatchVars, routerVars, jobVars, dead>>

EvictSelect(s) ==
    /\ pc[s] = "select"
    /\ pc' = [pc EXCEPT ![s] = "evict"]
    /\ selected' = [selected EXCEPT ![s] = {w \in overdue[s] : wstate[w] = "stale"}]
    /\ UNCHANGED <<since, overdue, marked, evicted, requeueing, leased>>
    /\ UNCHANGED <<workerVars, dispatchVars, routerVars, jobVars, dead, faults>>

(* Mutant: the UPDATE forgets AND state = 'stale'.                         *)
EvictRecovered(s, w) ==
    /\ pc[s] = "evict" /\ w \in selected[s]
    /\ selected' = [selected EXCEPT ![s] = @ \ {w}]
    /\ wstate' = [wstate EXCEPT ![w] = "evicted"]
    /\ evicted' = [evicted EXCEPT ![s] = @ \cup {w}]
    /\ UNCHANGED <<age, regAt, regSecond, left>>
    /\ UNCHANGED <<pc, since, overdue, marked, requeueing, leased>>
    /\ UNCHANGED <<dispatchVars, routerVars, jobVars, dead, faults>>

(* Mutant: a handle whose UPDATE matched no row is returned as evicted.    *)
EvictUnchecked(s, w) ==
    /\ pc[s] = "evict" /\ w \in selected[s]
    /\ selected' = [selected EXCEPT ![s] = @ \ {w}]
    /\ evicted' = [evicted EXCEPT ![s] = @ \cup {w}]
    /\ IF wstate[w] = "stale" THEN MarkEvicted(w) ELSE UNCHANGED workerVars
    /\ UNCHANGED <<pc, since, overdue, marked, requeueing, leased>>
    /\ UNCHANGED <<dispatchVars, routerVars, jobVars, dead, faults>>

(* One selected handle: evicted if still stale, left out if it recovered.  *)
Evict(s, w) ==
    /\ pc[s] = "evict" /\ w \in selected[s]
    /\ selected' = [selected EXCEPT ![s] = @ \ {w}]
    /\ \/ MarkEvicted(w) /\ evicted' = [evicted EXCEPT ![s] = @ \cup {w}]
       \/ wstate[w] # "stale" /\ UNCHANGED <<workerVars, evicted>>
    /\ UNCHANGED <<pc, since, overdue, marked, requeueing, leased>>
    /\ UNCHANGED <<dispatchVars, routerVars, jobVars, dead, faults>>

RequeueSelect(s, w) ==
    /\ pc[s] = "evict" /\ selected[s] = {} /\ w \in evicted[s]
    /\ pc' = [pc EXCEPT ![s] = "requeue"]
    /\ evicted' = [evicted EXCEPT ![s] = @ \ {w}]
    /\ requeueing' = [requeueing EXCEPT ![s] = w]
    /\ leased' = [leased EXCEPT ![s] = LeasedTo(w)]
    /\ UNCHANGED <<since, overdue, marked, selected>>
    /\ UNCHANGED <<workerVars, dispatchVars, routerVars, jobVars, dead, faults>>

Requeue(s, d) ==
    /\ pc[s] = "requeue" /\ d \in leased[s]
    /\ RequeueLeased(d)
    /\ leased' = [leased EXCEPT ![s] = @ \ {d}]
    /\ UNCHANGED <<pc, since, overdue, marked, selected, evicted, requeueing>>
    /\ UNCHANGED <<workerVars, routerVars, jobVars, dead, faults>>

RequeueClear(s) ==
    /\ pc[s] = "requeue" /\ leased[s] = {}
    /\ ClearPendingTargets(requeueing[s])
    /\ pc' = [pc EXCEPT ![s] = "evict"]
    /\ requeueing' = [requeueing EXCEPT ![s] = NoWorker]
    /\ UNCHANGED <<since, overdue, marked, selected, evicted, leased>>
    /\ UNCHANGED <<workerVars, routerVars, jobVars, dead, faults>>

TickEnd(s) ==
    /\ pc[s] = "evict" /\ selected[s] = {} /\ evicted[s] = {}
    /\ pc' = [pc EXCEPT ![s] = "idle"]
    /\ overdue' = [overdue EXCEPT ![s] = {}]
    /\ marked' = [marked EXCEPT ![s] = {}]
    /\ UNCHANGED <<since, selected, evicted, requeueing, leased>>
    /\ UNCHANGED <<workerVars, dispatchVars, routerVars, jobVars, dead, faults>>

(* What the watchdog had in hand is gone.                                  *)
ForgetTick(s) ==
    /\ pc' = [pc EXCEPT ![s] = "idle"]
    /\ overdue' = [overdue EXCEPT ![s] = {}]
    /\ marked' = [marked EXCEPT ![s] = {}]
    /\ selected' = [selected EXCEPT ![s] = {}]
    /\ evicted' = [evicted EXCEPT ![s] = {}]
    /\ requeueing' = [requeueing EXCEPT ![s] = NoWorker]
    /\ leased' = [leased EXCEPT ![s] = {}]

(* MarkEvicted returns its error without the handles it already evicted,   *)
(* and tick returns without requeueing any of them.                        *)
MarkEvictedFails(s) ==
    /\ \/ pc[s] = "select"
       \/ pc[s] = "evict" /\ selected[s] # {}
    /\ Fault
    /\ ForgetTick(s)
    /\ UNCHANGED since
    /\ UNCHANGED <<workerVars, dispatchVars, routerVars, jobVars, dead>>

(* RequeueByWorker returns at its first failing statement; tick logs it    *)
(* and goes on to the next handle.                                         *)
RequeueFails(s) ==
    /\ pc[s] = "requeue"
    /\ Fault
    /\ pc' = [pc EXCEPT ![s] = "evict"]
    /\ requeueing' = [requeueing EXCEPT ![s] = NoWorker]
    /\ leased' = [leased EXCEPT ![s] = {}]
    /\ UNCHANGED <<since, overdue, marked, selected, evicted>>
    /\ UNCHANGED <<workerVars, dispatchVars, routerVars, jobVars, dead>>

-----------------------------------------------------------------------------
(* A daemon is killed and started again: the tables are all that is left.  *)
DaemonRestarts(s) ==
    /\ Fault
    /\ ForgetTick(s)
    /\ since' = [since EXCEPT ![s] = 0]
    /\ routing' = [routing EXCEPT ![s] = {}]
    /\ finishing' = [d \in Dispatches |-> IF finishing[d] = s THEN NoServer ELSE finishing[d]]
    /\ UNCHANGED <<workerVars, dispatchVars, routeRole, jobDone, dead>>

TimePasses ==
    /\ Age
    /\ since' = [s \in Servers |-> IF since[s] < Interval THEN since[s] + 1 ELSE since[s]]
    /\ UNCHANGED <<pc, overdue, marked, selected, evicted, requeueing, leased>>
    /\ UNCHANGED <<dispatchVars, routerVars, jobVars, dead, faults>>

WorkerCall(w) ==
    \/ WorkerRegister(w) \/ WorkerHeartbeat(w) \/ WorkerDeregister(w)
    \/ WorkerDies(w) \/ WorkerClaims(w)

Router(s) ==
    \/ \E role \in Roles, concurrency \in {"single", "many"} : Route(s, role, concurrency)
    \/ \E d \in Dispatches : RouteEnqueue(s, d)
    \/ RouteFails(s)

Tick(s) ==
    \/ TickBegin(s) \/ EvictSelect(s)
    \/ \E w \in Workers : Evict(s, w) \/ RequeueSelect(s, w)
    \/ \E d \in Dispatches : Requeue(s, d)
    \/ RequeueClear(s) \/ TickEnd(s)

Next ==
    \/ \E w \in Workers : WorkerCall(w)
    \/ \E e \in Ephemerals, role \in Roles : EphemeralClaims(e, role)
    \/ \E a \in Agents, d \in Dispatches, s \in Servers : JobComplete(a, d, s)
    \/ \E d \in Dispatches : UpdateJobState(d)
    \/ \E s \in Servers : Router(s) \/ Tick(s) \/ MarkEvictedFails(s) \/ RequeueFails(s)
                          \/ DaemonRestarts(s)
    \/ TimePasses

Spec == Init /\ [][Next]_vars

(***************************************************************************)
(* Time passes, and a running daemon's ticker fires and its tick goes on.  *)
(* Nothing is assumed of workers, ephemeral processes or callers of Route. *)
(***************************************************************************)
Fairness ==
    /\ WF_vars(TimePasses)
    /\ \A s \in Servers : WF_vars(Tick(s))

FairSpec == Spec /\ Fairness

-----------------------------------------------------------------------------
TypeOK ==
    /\ WorkerTypeOK /\ DispatchTypeOK
    /\ pc \in [Servers -> {"idle", "select", "evict", "requeue"}]
    /\ since \in [Servers -> 0 .. Interval]
    /\ overdue \in [Servers -> SUBSET Workers]
    /\ marked \in [Servers -> SUBSET Workers]
    /\ selected \in [Servers -> SUBSET Workers]
    /\ evicted \in [Servers -> SUBSET Workers]
    /\ requeueing \in [Servers -> Workers \cup {NoWorker}]
    /\ leased \in [Servers -> SUBSET Dispatches]
    /\ routing \in [Servers -> SUBSET (Workers \cup {NoWorker})]
    /\ routeRole \in [Servers -> Roles]
    /\ finishing \in [Dispatches -> Servers \cup {NoServer}]
    /\ jobDone \subseteq Dispatches
    /\ dead \subseteq Workers
    /\ faults \in 0 .. MaxFaults

(* The handles evicted by a watchdog, which alone requeues.                *)
Silenced == Evicted \ left

(***************************************************************************)
(* A dispatch is handed to a second agent only after the watchdog evicted  *)
(* one of the two.  RequeueByWorker updates by id and state alone, from a  *)
(* list read earlier, so nothing in that UPDATE says whose lease it ends.  *)
(***************************************************************************)
SecondGrantNeedsEviction ==
    \A d \in Dispatches : \A a, b \in granted[d] : a # b => {a, b} \cap Silenced # {}

(***************************************************************************)
(* Work routed to a worker reaches another agent only after the watchdog   *)
(* evicted that worker: neither ephemeral pollers nor a requeue meant for  *)
(* somebody else take it (ClaimNextDispatch's eligibility filter).         *)
(***************************************************************************)
RoutedWorkStaysWithTarget ==
    \A d \in Dispatches : \A a \in granted[d] :
        target[d] \in {NoWorker, a} \cup Silenced

(***************************************************************************)
(* Why the two invariants above hold, step by step (inductive).  A row     *)
(* names nobody but its target, and forgets it only once it is silenced; a *)
(* lease on a row that names a worker is that worker's; whoever held an    *)
(* earlier lease is silenced; and what a daemon is about to requeue is on  *)
(* lease to, or completed by, a worker it alone evicted.                   *)
(***************************************************************************)
HandleInv ==
    \A d \in Dispatches :
        /\ handle[d] \in {NoWorker, target[d]}
        /\ handle[d] = NoWorker => target[d] \in {NoWorker} \cup Silenced
        /\ dstate[d] = "leased" /\ handle[d] # NoWorker => holder[d] = handle[d]
        /\ dstate[d] # "leased" => holder[d] = NoWorker

GrantInv ==
    \A d \in Dispatches :
        /\ dstate[d] = "none" => granted[d] = {}
        /\ dstate[d] = "pending" => granted[d] \subseteq Silenced
        /\ dstate[d] = "leased" => granted[d] \ {holder[d]} \subseteq Silenced
        /\ dstate[d] = "completed" => \E a \in Agents : granted[d] \ {a} \subseteq Silenced

Responsible(s) == evicted[s] \cup ({requeueing[s]} \cap Workers)

RequeueInv ==
    /\ \A s \in Servers : Responsible(s) \subseteq Silenced
    /\ \A s, t \in Servers : s # t => Responsible(s) \cap Responsible(t) = {}
    /\ \A s \in Servers : \A d \in leased[s] :
          /\ requeueing[s] \in Workers /\ handle[d] = requeueing[s]
          /\ dstate[d] \in {"leased", "completed"}

LeaseInv ==
    /\ HandleInv /\ GrantInv /\ RequeueInv /\ RoutedWorkStaysWithTarget
    /\ left \subseteq Evicted

(***************************************************************************)
(* The event log of a dispatch agrees with its row until it is completed;  *)
(* it is completed once, and only dispatch.expired events that describe    *)
(* nothing (RequeueByWorker's unchecked UPDATE) can follow.                *)
(***************************************************************************)
LogFollowsRow ==
    \A d \in Dispatches :
        LET events == log[d]
            lastIs(kinds) == events # <<>> /\ events[Len(events)] \in kinds
        IN  CASE dstate[d] = "none" -> events = <<>>
              [] dstate[d] = "pending" -> lastIs({"queued", "expired"})
              [] dstate[d] = "leased" -> lastIs({"leased"})
              [] dstate[d] = "completed" ->
                    \E i \in DOMAIN events : \A j \in DOMAIN events :
                        /\ events[j] = "completed" <=> j = i
                        /\ j > i => events[j] = "expired"

(***************************************************************************)
(* The watchdog evicts a worker only while its last heartbeat is older     *)
(* than EvictAfter: one that beats between MarkEvicted's SELECT and UPDATE *)
(* is spared (errSkipEviction).                                            *)
(***************************************************************************)
EvictedOnlyIfSilent ==
    [][\A w \in Workers :
          w \in Silenced' /\ w \notin Silenced => age[w] > EvictAfter]_vars

(***************************************************************************)
(* A completed dispatch is never queued or leased again, however a         *)
(* completion and a requeue of the same lease race.                        *)
(***************************************************************************)
CompletedIsFinal ==
    [][\A d \in Dispatches : dstate[d] = "completed" => dstate'[d] = "completed"]_vars

(***************************************************************************)
(* While no daemon fails, what a dead worker was running or was meant to   *)
(* run when it was still in the registry ends up with nobody's name on it, *)
(* where any worker of the role may claim it, or completed.                *)
(***************************************************************************)
DeadWorkersWorkIsReleased ==
    \A w \in Workers, d \in Dispatches :
        (w \in dead /\ wstate[w] \in {"live", "stale"} /\ handle[d] = w)
            ~> (handle[d] = NoWorker \/ dstate[d] = "completed")

(* The abstract queue, with the watchdog's evictions for its own.          *)
Abstract == INSTANCE LeaseQueue
    WITH NoAgent <- NoWorker, state <- dstate, holder <- holder, evicted <- Silenced

(* The protocol implements the abstract lease queue.                       *)
ImplementsLeaseQueue == Abstract!LeaseSpec

=============================================================================
