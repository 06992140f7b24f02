-------------------------- MODULE PullProtocolProofs --------------------------
(***************************************************************************)
(* Proofs about PullProtocol for any workers, dispatches, daemons, cutoffs *)
(* and bounds.                                                             *)
(***************************************************************************)
EXTENDS PullProtocol, TLAPS

(***************************************************************************)
(* The state has its types: what every step of the protocol stores is a    *)
(* value its table column or its handler variable may hold.                *)
(***************************************************************************)
LEMMA TypeInit == Init => TypeOK
  BY BoundAssumption, MaxAgeAssumption, TimeAssumption
  DEF Init, WorkerInit, DispatchInit, TypeOK, WorkerTypeOK, DispatchTypeOK,
      WorkerStates, DispatchStates, Kinds

(* No statement of the protocol stores a value outside its type.           *)
LEMMA TypeStep == TypeOK /\ [Next]_vars => TypeOK'
  <1> SUFFICES ASSUME TypeOK, [Next]_vars PROVE TypeOK'
    OBVIOUS
  <1> USE BoundAssumption, MaxAgeAssumption, TimeAssumption
      DEF TypeOK, WorkerTypeOK, DispatchTypeOK, WorkerStates, DispatchStates, Kinds,
          workerVars, dispatchVars, watchdogVars, routerVars, jobVars, Fault, Emit
  <1>1. ASSUME NEW w \in Workers, WorkerCall(w) PROVE TypeOK'
    <2>1. CASE WorkerRegister(w)
      BY <2>1 DEF WorkerRegister, Register
    <2>2. CASE WorkerHeartbeat(w)
      BY <2>2 DEF WorkerHeartbeat, Heartbeat
    <2>3. CASE WorkerDeregister(w)
      BY <2>3 DEF WorkerDeregister, Deregister
    <2>4. CASE WorkerDies(w)
      BY <2>4 DEF WorkerDies
    <2>5. CASE WorkerClaims(w)
      BY <2>5 DEF WorkerClaims, ClaimNextDispatch, NextPending, Claimable, Agents
    <2> QED BY <1>1, <2>1, <2>2, <2>3, <2>4, <2>5 DEF WorkerCall
  <1>2. ASSUME NEW e \in Ephemerals, NEW role \in Roles, EphemeralClaims(e, role) PROVE TypeOK'
    BY <1>2 DEF EphemeralClaims, ClaimNextDispatch, NextPending, Claimable, Agents
  <1>3. ASSUME NEW a \in Agents, NEW d \in Dispatches, NEW s \in Servers, JobComplete(a, d, s)
        PROVE TypeOK'
    BY <1>3 DEF JobComplete, CompleteDispatch
  <1>4. ASSUME NEW d \in Dispatches, UpdateJobState(d) PROVE TypeOK'
    BY <1>4 DEF UpdateJobState
  <1>5. ASSUME NEW s \in Servers, Router(s) PROVE TypeOK'
    <2>1. ASSUME NEW role \in Roles, NEW c \in {"single", "many"}, Route(s, role, c) PROVE TypeOK'
      <3>1. LiveWorkersForRole(role) \in SUBSET Workers /\ Oldest(LiveWorkersForRole(role)) \in SUBSET Workers
        BY DEF LiveWorkersForRole, Oldest
      <3>2. PICK chosen \in SUBSET (Workers \cup {NoWorker}) :
               routing' = [routing EXCEPT ![s] = chosen]
        <4>1. CASE LiveWorkersForRole(role) = {}
          BY <2>1, <4>1 DEF Route
        <4>2. CASE LiveWorkersForRole(role) # {} /\ c = "many"
          BY <2>1, <3>1, <4>2 DEF Route
        <4>3. CASE LiveWorkersForRole(role) # {} /\ c # "many"
          <5>1. PICK chosen \in {{w} : w \in Oldest(LiveWorkersForRole(role))} :
                   routing' = [routing EXCEPT ![s] = chosen]
            BY <2>1, <4>3 DEF Route
          <5>2. chosen \in SUBSET (Workers \cup {NoWorker})
            BY <3>1
          <5> QED BY <5>1, <5>2
        <4> QED BY <4>1, <4>2, <4>3
      <3>3. routing' \in [Servers -> SUBSET (Workers \cup {NoWorker})]
        BY <3>2
      <3> QED BY <2>1, <3>3 DEF Route
    <2>2. ASSUME NEW d \in Dispatches, RouteEnqueue(s, d) PROVE TypeOK'
      BY <2>2 DEF RouteEnqueue, EnqueueDispatch, Oldest
    <2>3. CASE RouteFails(s)
      BY <2>3 DEF RouteFails
    <2> QED BY <1>5, <2>1, <2>2, <2>3 DEF Router
  <1>6. ASSUME NEW s \in Servers, Tick(s) PROVE TypeOK'
    <2>1. CASE TickBegin(s)
      <3>1. CASE MarkStale(StaleAfter) /\ marked' = [marked EXCEPT ![s] = NewlyStale(StaleAfter)]
                 /\ UNCHANGED faults
        <4>1. wstate' \in [Workers -> WorkerStates]
          BY <3>1 DEF MarkStale
        <4>2. marked' \in [Servers -> SUBSET Workers]
          BY <3>1 DEF NewlyStale
        <4>3. overdue' \in [Servers -> SUBSET Workers]
          BY <2>1 DEF TickBegin
        <4> QED BY <2>1, <3>1, <4>1, <4>2, <4>3 DEF TickBegin, MarkStale
      <3>2. CASE Fault /\ marked' = [marked EXCEPT ![s] = {}] /\ UNCHANGED workerVars
        BY <2>1, <3>2 DEF TickBegin
      <3> QED BY <2>1, <3>1, <3>2 DEF TickBegin
    <2>2. CASE EvictSelect(s)
      BY <2>2 DEF EvictSelect
    <2>3. ASSUME NEW w \in Workers, Evict(s, w) PROVE TypeOK'
      <3>1. selected' \in [Servers -> SUBSET Workers]
        BY <2>3 DEF Evict
      <3>2. CASE MarkEvicted(w) /\ evicted' = [evicted EXCEPT ![s] = @ \cup {w}]
        <4>1. evicted' \in [Servers -> SUBSET Workers]
          BY <3>2
        <4>2. WorkerTypeOK'
          BY <3>2 DEF MarkEvicted
        <4> QED BY <2>3, <3>1, <4>1, <4>2 DEF Evict
      <3>3. CASE UNCHANGED <<workerVars, evicted>>
        BY <2>3, <3>1, <3>3 DEF Evict
      <3> QED BY <2>3, <3>2, <3>3 DEF Evict
    <2>4. ASSUME NEW w \in Workers, RequeueSelect(s, w) PROVE TypeOK'
      BY <2>4 DEF RequeueSelect, LeasedTo
    <2>5. ASSUME NEW d \in Dispatches, Requeue(s, d) PROVE TypeOK'
      <3>1. RequeueLeased(d) /\ leased' \in [Servers -> SUBSET Dispatches]
        BY <2>5 DEF Requeue
      <3>2. log' \in [Dispatches -> Seq(Kinds)]
        BY <3>1 DEF RequeueLeased
      <3>3. CASE dstate[d] = "leased"
        BY <3>1, <3>2, <3>3, <2>5 DEF Requeue, RequeueLeased
      <3>4. CASE dstate[d] # "leased"
        BY <3>1, <3>2, <3>4, <2>5 DEF Requeue, RequeueLeased
      <3> QED BY <3>3, <3>4
    <2>6. CASE RequeueClear(s)
      BY <2>6 DEF RequeueClear, ClearPendingTargets
    <2>7. CASE TickEnd(s)
      BY <2>7 DEF TickEnd
    <2> QED BY <1>6, <2>1, <2>2, <2>3, <2>4, <2>5, <2>6, <2>7 DEF Tick
  <1>7. ASSUME NEW s \in Servers, MarkEvictedFails(s) PROVE TypeOK'
    BY <1>7 DEF MarkEvictedFails, ForgetTick
  <1>8. ASSUME NEW s \in Servers, RequeueFails(s) PROVE TypeOK'
    BY <1>8 DEF RequeueFails
  <1>9. ASSUME NEW s \in Servers, DaemonRestarts(s) PROVE TypeOK'
    BY <1>9 DEF DaemonRestarts, ForgetTick
  <1>10. CASE TimePasses
    BY <1>10 DEF TimePasses, Age
  <1>11. CASE UNCHANGED vars
    BY <1>11 DEF vars
  <1> QED BY <1>1, <1>2, <1>3, <1>4, <1>5, <1>6, <1>7, <1>8, <1>9, <1>10, <1>11 DEF Next

(***************************************************************************)
(* Every reachable state is well typed.                                    *)
(***************************************************************************)
THEOREM TypeCorrect == Spec => []TypeOK
  BY TypeInit, TypeStep, PTL DEF Spec

-----------------------------------------------------------------------------
(***************************************************************************)
(* Eviction by the watchdog is for good: a heartbeat does not revive an    *)
(* evicted handle, and one that is evicted cannot deregister.              *)
(***************************************************************************)
LEMMA SilencedGrows ==
    ASSUME TypeOK, [Next]_vars
    PROVE  Silenced \subseteq Silenced'
  <1> USE DEF TypeOK, WorkerTypeOK, WorkerStates, Silenced, Evicted
  <1>1. CASE UNCHANGED workerVars
    BY <1>1 DEF workerVars
  <1>2. ASSUME NEW w \in Workers, WorkerCall(w) PROVE Silenced \subseteq Silenced'
    <2>1. CASE WorkerRegister(w)
      BY <2>1 DEF WorkerRegister, Register
    <2>2. CASE WorkerHeartbeat(w)
      BY <2>2 DEF WorkerHeartbeat, Heartbeat
    <2>3. CASE WorkerDeregister(w)
      BY <2>3 DEF WorkerDeregister, Deregister
    <2> QED BY <1>1, <1>2, <2>1, <2>2, <2>3 DEF WorkerCall, WorkerDies, WorkerClaims
  <1>3. ASSUME NEW s \in Servers, Tick(s) PROVE Silenced \subseteq Silenced'
    <2>1. CASE TickBegin(s)
      BY <1>1, <2>1 DEF TickBegin, MarkStale
    <2>2. ASSUME NEW w \in Workers, Evict(s, w) PROVE Silenced \subseteq Silenced'
      BY <1>1, <2>2 DEF Evict, MarkEvicted, workerVars
    <2> QED BY <1>1, <1>3, <2>1, <2>2
            DEF Tick, EvictSelect, RequeueSelect, Requeue, RequeueClear, TickEnd
  <1>4. CASE TimePasses
    BY <1>4 DEF TimePasses, Age
  <1>5. ASSUME NEW s \in Servers, Router(s) PROVE UNCHANGED workerVars
    BY <1>5 DEF Router, Route, RouteEnqueue, RouteFails
  <1> QED BY <1>1, <1>2, <1>3, <1>4, <1>5
          DEF Next, EphemeralClaims, JobComplete, UpdateJobState, MarkEvictedFails,
              RequeueFails, DaemonRestarts, vars

(* A handle that deregistered stays evicted: nothing registers it again.   *)
LEMMA LeftStayEvicted ==
    ASSUME TypeOK, left \subseteq Evicted, [Next]_vars
    PROVE  (left \subseteq Evicted)'
  <1> USE DEF TypeOK, WorkerTypeOK, WorkerStates, Evicted
  <1>1. CASE UNCHANGED workerVars
    BY <1>1 DEF workerVars
  <1>2. ASSUME NEW w \in Workers, WorkerCall(w) PROVE (left \subseteq Evicted)'
    <2>1. CASE WorkerRegister(w)
      BY <2>1 DEF WorkerRegister, Register
    <2>2. CASE WorkerHeartbeat(w)
      BY <2>2 DEF WorkerHeartbeat, Heartbeat
    <2>3. CASE WorkerDeregister(w)
      BY <2>3 DEF WorkerDeregister, Deregister
    <2> QED BY <1>1, <1>2, <2>1, <2>2, <2>3 DEF WorkerCall, WorkerDies, WorkerClaims
  <1>3. ASSUME NEW s \in Servers, Tick(s) PROVE (left \subseteq Evicted)'
    <2>1. CASE TickBegin(s)
      BY <1>1, <2>1 DEF TickBegin, MarkStale
    <2>2. ASSUME NEW w \in Workers, Evict(s, w) PROVE (left \subseteq Evicted)'
      BY <1>1, <2>2 DEF Evict, MarkEvicted, workerVars
    <2> QED BY <1>1, <1>3, <2>1, <2>2
            DEF Tick, EvictSelect, RequeueSelect, Requeue, RequeueClear, TickEnd
  <1>4. CASE TimePasses
    BY <1>4 DEF TimePasses, Age
  <1>5. ASSUME NEW s \in Servers, Router(s) PROVE UNCHANGED workerVars
    BY <1>5 DEF Router, Route, RouteEnqueue, RouteFails
  <1> QED BY <1>1, <1>2, <1>3, <1>4, <1>5
          DEF Next, EphemeralClaims, JobComplete, UpdateJobState, MarkEvictedFails,
              RequeueFails, DaemonRestarts, vars

(***************************************************************************)
(* A step that leaves the rows alone keeps the invariant if it gives no    *)
(* daemon a handle or a row to requeue.                                    *)
(***************************************************************************)
LEMMA RowsKept ==
    ASSUME TypeOK, LeaseInv, Silenced \subseteq Silenced', (left \subseteq Evicted)',
           UNCHANGED <<dstate, handle, target, holder, granted>>,
           \A s \in Servers : /\ Responsible(s)' \subseteq Responsible(s)
                              /\ leased'[s] \subseteq leased[s]
                              /\ leased'[s] # {} => requeueing'[s] = requeueing[s]
    PROVE  LeaseInv'
  <1>1. HandleInv'
    BY DEF LeaseInv, HandleInv
  <1>2. GrantInv'
    BY DEF LeaseInv, GrantInv
  <1>3. RequeueInv'
    <2>1. \A s \in Servers : Responsible(s)' \subseteq Silenced'
      BY DEF LeaseInv, RequeueInv
    <2>2. \A s, t \in Servers : s # t => Responsible(s)' \cap Responsible(t)' = {}
      BY DEF LeaseInv, RequeueInv
    <2>3. ASSUME NEW s \in Servers, NEW d \in leased'[s]
          PROVE  /\ requeueing'[s] \in Workers /\ handle'[d] = requeueing'[s]
                 /\ dstate'[d] \in {"leased", "completed"}
      BY <2>3 DEF LeaseInv, RequeueInv
    <2> QED BY <2>1, <2>2, <2>3 DEF RequeueInv
  <1>4. RoutedWorkStaysWithTarget'
    BY DEF LeaseInv, RoutedWorkStaysWithTarget
  <1> QED BY <1>1, <1>2, <1>3, <1>4 DEF LeaseInv

(* What the next three lemmas leave alone.                                 *)
LEMMA RegistryKept ==
    ASSUME UNCHANGED <<workerVars, watchdogVars>>
    PROVE  Silenced' = Silenced /\ \A s \in Servers : Responsible(s)' = Responsible(s)
  BY DEF workerVars, watchdogVars, Silenced, Evicted, Responsible

(* A claim takes a pending row that is the caller's or nobody's.           *)
LEMMA ClaimKeepsLeaseInv ==
    ASSUME TypeOK, LeaseInv, UNCHANGED <<workerVars, watchdogVars>>, (left \subseteq Evicted)',
           NEW a \in Agents, NEW h \in {a, NoWorker}, NEW role, ClaimNextDispatch(a, h, role)
    PROVE  LeaseInv'
  <1> USE DEF TypeOK, DispatchTypeOK, LeaseInv, HandleInv, GrantInv
  <1>1. PICK d \in Dispatches :
          /\ dstate[d] = "pending" /\ handle[d] \in {h, NoWorker}
          /\ dstate' = [dstate EXCEPT ![d] = "leased"]
          /\ holder' = [holder EXCEPT ![d] = a]
          /\ granted' = [granted EXCEPT ![d] = @ \cup {a}]
          /\ UNCHANGED <<handle, target>>
    BY DEF ClaimNextDispatch, NextPending, Claimable
  <1>2. Silenced' = Silenced /\ \A s \in Servers : Responsible(s)' = Responsible(s)
    BY RegistryKept
  <1>3. HandleInv'
    BY <1>1, <1>2
  <1>4. GrantInv'
    <2>1. granted'[d] \ {holder'[d]} \subseteq Silenced'
      BY <1>1, <1>2
    <2>2. \A e \in Dispatches : e # d =>
             dstate'[e] = dstate[e] /\ granted'[e] = granted[e] /\ holder'[e] = holder[e]
      BY <1>1
    <2> QED BY <1>1, <1>2, <2>1, <2>2
  <1>5. RequeueInv'
    <2>1. \A s \in Servers : d \notin leased[s]
      BY <1>1 DEF RequeueInv
    <2> QED BY <1>1, <1>2, <2>1 DEF RequeueInv, watchdogVars
  <1>6. RoutedWorkStaysWithTarget'
    <2>1. target[d] \in {NoWorker, a} \cup Silenced
      BY <1>1
    <2> QED BY <1>1, <1>2, <2>1 DEF RoutedWorkStaysWithTarget
  <1> QED BY <1>3, <1>4, <1>5, <1>6

(* A completion ends the lease, whoever reports it.                        *)
LEMMA CompleteKeepsLeaseInv ==
    ASSUME TypeOK, LeaseInv, UNCHANGED <<workerVars, watchdogVars>>, (left \subseteq Evicted)',
           NEW d \in Dispatches, NEW a \in granted[d], CompleteDispatch(d)
    PROVE  LeaseInv'
  <1> USE DEF TypeOK, DispatchTypeOK, LeaseInv, HandleInv, GrantInv, CompleteDispatch
  <1>1. Silenced' = Silenced /\ \A s \in Servers : Responsible(s)' = Responsible(s)
    BY RegistryKept
  <1>2. HandleInv'
    BY <1>1
  <1>3. GrantInv'
    <2>1. \E b \in Agents : granted'[d] \ {b} \subseteq Silenced'
      <3>1. CASE holder[d] \in Agents
        BY <1>1, <3>1
      <3>2. CASE holder[d] = NoWorker
        BY <1>1, <3>2, NoWorkerAssumption
      <3> QED BY <3>1, <3>2
    <2>2. \A e \in Dispatches : e # d =>
             dstate'[e] = dstate[e] /\ granted'[e] = granted[e] /\ holder'[e] = holder[e]
      OBVIOUS
    <2> QED BY <1>1, <2>1, <2>2
  <1>4. RequeueInv'
    BY <1>1 DEF RequeueInv, watchdogVars
  <1>5. RoutedWorkStaysWithTarget'
    BY <1>1 DEF RoutedWorkStaysWithTarget
  <1> QED BY <1>2, <1>3, <1>4, <1>5

(* A new row is nobody's yet.                                              *)
LEMMA EnqueueKeepsLeaseInv ==
    ASSUME TypeOK, LeaseInv, UNCHANGED <<workerVars, watchdogVars>>, (left \subseteq Evicted)',
           NEW d \in Dispatches, NEW w \in Workers \cup {NoWorker}, EnqueueDispatch(d, w)
    PROVE  LeaseInv'
  <1> USE DEF TypeOK, DispatchTypeOK, LeaseInv, HandleInv, GrantInv, EnqueueDispatch
  <1>1. Silenced' = Silenced /\ \A s \in Servers : Responsible(s)' = Responsible(s)
    BY RegistryKept
  <1>2. HandleInv'
    BY <1>1
  <1>3. GrantInv'
    BY <1>1
  <1>4. RequeueInv'
    <2>1. \A s \in Servers : d \notin leased[s]
      BY DEF RequeueInv
    <2> QED BY <1>1, <2>1 DEF RequeueInv, watchdogVars
  <1>5. RoutedWorkStaysWithTarget'
    <2>1. granted[d] = {}
      OBVIOUS
    <2> QED BY <1>1, <2>1 DEF RoutedWorkStaysWithTarget
  <1> QED BY <1>2, <1>3, <1>4, <1>5

(* Evicting a handle makes one daemon, and no other, responsible for it.   *)
LEMMA EvictKeepsLeaseInv ==
    ASSUME TypeOK, LeaseInv, Silenced \subseteq Silenced', (left \subseteq Evicted)',
           NEW s \in Servers, NEW w \in Workers, Evict(s, w), MarkEvicted(w),
           evicted' = [evicted EXCEPT ![s] = @ \cup {w}], w \notin left
    PROVE  LeaseInv'
  <1> USE DEF TypeOK, LeaseInv
  <1>1. UNCHANGED <<dstate, handle, target, holder, granted, requeueing, leased>>
    BY DEF Evict, dispatchVars
  <1>2. w \notin Silenced /\ w \in Silenced'
    BY DEF MarkEvicted, Silenced, Evicted, WorkerTypeOK
  <1>3. HandleInv'
    BY <1>1 DEF HandleInv
  <1>4. GrantInv'
    BY <1>1 DEF GrantInv
  <1>5. RequeueInv'
    <2>1. /\ Responsible(s)' = Responsible(s) \cup {w}
          /\ \A t \in Servers : t # s => Responsible(t)' = Responsible(t)
      BY <1>1 DEF Responsible
    <2>2. \A t \in Servers : w \notin Responsible(t)
      BY <1>2 DEF RequeueInv
    <2>3. \A t \in Servers : Responsible(t)' \subseteq Silenced'
      BY <1>2, <2>1 DEF RequeueInv
    <2>4. \A t, u \in Servers : t # u => Responsible(t)' \cap Responsible(u)' = {}
      BY <2>1, <2>2 DEF RequeueInv
    <2> QED BY <1>1, <2>3, <2>4 DEF RequeueInv
  <1>6. RoutedWorkStaysWithTarget'
    BY <1>1 DEF RoutedWorkStaysWithTarget
  <1> QED BY <1>3, <1>4, <1>5, <1>6

(* RequeueByWorker's SELECT finds leases of the handle it was called for.  *)
LEMMA SelectKeepsLeaseInv ==
    ASSUME TypeOK, LeaseInv, (left \subseteq Evicted)', NEW s \in Servers, NEW w \in Workers, RequeueSelect(s, w)
    PROVE  LeaseInv'
  <1> USE DEF TypeOK, LeaseInv, RequeueSelect
  <1>1. /\ UNCHANGED <<dstate, handle, target, holder, granted>>
        /\ Silenced' = Silenced
    BY DEF dispatchVars, workerVars, Silenced, Evicted
  <1>2. RequeueInv'
    <2>1. /\ Responsible(s)' \subseteq Responsible(s)
          /\ \A t \in Servers : t # s => Responsible(t)' = Responsible(t)
      BY DEF Responsible
    <2>2. ASSUME NEW t \in Servers, NEW d \in leased'[t]
          PROVE  /\ requeueing'[t] \in Workers /\ handle'[d] = requeueing'[t]
                 /\ dstate'[d] \in {"leased", "completed"}
      BY <1>1, <2>2 DEF RequeueInv, LeasedTo
    <2>3. \A t \in Servers : Responsible(t)' \subseteq Silenced'
      BY <1>1, <2>1 DEF RequeueInv
    <2>4. \A t, u \in Servers : t # u => Responsible(t)' \cap Responsible(u)' = {}
      BY <2>1 DEF RequeueInv
    <2> QED BY <2>2, <2>3, <2>4 DEF RequeueInv
  <1>3. HandleInv' /\ GrantInv' /\ RoutedWorkStaysWithTarget'
    BY <1>1 DEF HandleInv, GrantInv, RoutedWorkStaysWithTarget
  <1> QED BY <1>2, <1>3

(***************************************************************************)
(* The unfenced UPDATE takes a lease from the handle it was meant for: the *)
(* row still names that handle, and no other daemon has it in hand.        *)
(***************************************************************************)
LEMMA RequeueKeepsLeaseInv ==
    ASSUME TypeOK, LeaseInv, (left \subseteq Evicted)', NEW s \in Servers, NEW d \in Dispatches, Requeue(s, d)
    PROVE  LeaseInv'
  <1> USE DEF TypeOK, DispatchTypeOK, LeaseInv, Requeue
  <1>1. /\ Silenced' = Silenced
        /\ \A t \in Servers : Responsible(t)' = Responsible(t)
        /\ UNCHANGED <<target, granted, requeueing>>
    BY DEF workerVars, Silenced, Evicted, Responsible, RequeueLeased
  <1>2. /\ requeueing[s] \in Workers /\ handle[d] = requeueing[s]
        /\ handle[d] \in Silenced
    BY DEF RequeueInv, Responsible
  <1>3. /\ d \notin leased'[s]
        /\ \A t \in Servers : t # s => d \notin leased[t] /\ leased'[t] = leased[t]
        /\ \A t \in Servers : leased'[t] \subseteq leased[t]
    BY <1>2 DEF RequeueInv, Responsible
  <1>4. CASE dstate[d] # "leased"
    BY <1>1, <1>4, RowsKept DEF RequeueLeased
  <1>5. CASE dstate[d] = "leased"
    <2>1. /\ dstate' = [dstate EXCEPT ![d] = "pending"]
          /\ handle' = [handle EXCEPT ![d] = NoWorker]
          /\ holder' = [holder EXCEPT ![d] = NoWorker]
      BY <1>5 DEF RequeueLeased
    <2>2. holder[d] = handle[d] /\ target[d] = handle[d]
      BY <1>2, <1>5, NoWorkerAssumption DEF HandleInv, Agents
    <2>3. HandleInv'
      BY <1>1, <1>2, <2>1, <2>2 DEF HandleInv
    <2>4. GrantInv'
      <3>1. granted'[d] \subseteq Silenced'
        BY <1>1, <1>2, <1>5, <2>2 DEF GrantInv
      <3> QED BY <1>1, <2>1, <3>1 DEF GrantInv
    <2>5. RequeueInv'
      BY <1>1, <1>3, <2>1 DEF RequeueInv
    <2>6. RoutedWorkStaysWithTarget'
      BY <1>1 DEF RoutedWorkStaysWithTarget
    <2> QED BY <2>3, <2>4, <2>5, <2>6
  <1> QED BY <1>4, <1>5

(* Phase 2 clears the name of a silenced handle, from pending rows only.   *)
LEMMA ClearKeepsLeaseInv ==
    ASSUME TypeOK, LeaseInv, (left \subseteq Evicted)', NEW s \in Servers, RequeueClear(s)
    PROVE  LeaseInv'
  <1> USE DEF TypeOK, DispatchTypeOK, LeaseInv, RequeueClear, ClearPendingTargets
  <1>1. /\ Silenced' = Silenced
        /\ \A t \in Servers : /\ Responsible(t)' \subseteq Responsible(t)
                              /\ leased'[t] # {} => requeueing'[t] = requeueing[t]
        /\ UNCHANGED <<dstate, target, holder, granted, leased>>
    BY NoWorkerAssumption DEF workerVars, Silenced, Evicted, Responsible, Agents
  <1>2. \A d \in Dispatches : handle'[d] # handle[d] =>
           /\ dstate[d] = "pending" /\ handle'[d] = NoWorker /\ handle[d] \in Silenced
    BY DEF RequeueInv, Responsible
  <1>3. HandleInv'
    BY <1>1, <1>2 DEF HandleInv
  <1>4. GrantInv' /\ RoutedWorkStaysWithTarget'
    BY <1>1 DEF GrantInv, RoutedWorkStaysWithTarget
  <1>5. RequeueInv'
    <2>1. ASSUME NEW t \in Servers, NEW d \in leased'[t]
          PROVE  /\ requeueing'[t] \in Workers /\ handle'[d] = requeueing'[t]
                 /\ dstate'[d] \in {"leased", "completed"}
      BY <1>1, <1>2, <2>1 DEF RequeueInv
    <2>2. \A t \in Servers : Responsible(t)' \subseteq Silenced'
      BY <1>1 DEF RequeueInv
    <2>3. \A t, u \in Servers : t # u => Responsible(t)' \cap Responsible(u)' = {}
      BY <1>1 DEF RequeueInv
    <2> QED BY <2>1, <2>2, <2>3 DEF RequeueInv
  <1> QED BY <1>3, <1>4, <1>5

(* Empty tables satisfy the inductive invariant.                           *)
LEMMA LeaseInvInit == Init => LeaseInv
  BY NoWorkerAssumption
  DEF Init, WorkerInit, DispatchInit, LeaseInv, HandleInv, GrantInv, RequeueInv,
      RoutedWorkStaysWithTarget, Responsible, Agents, Evicted

(* Every statement of tools, router and watchdog keeps it.                 *)
LEMMA LeaseInvStep == TypeOK /\ LeaseInv /\ [Next]_vars => LeaseInv'
  <1> SUFFICES ASSUME TypeOK, LeaseInv, [Next]_vars PROVE LeaseInv'
    OBVIOUS
  <1>1. Silenced \subseteq Silenced' /\ (left \subseteq Evicted)'
    BY SilencedGrows, LeftStayEvicted DEF LeaseInv
  <1>2. CASE UNCHANGED <<dispatchVars, evicted, requeueing, leased>>
    BY <1>1, <1>2, RowsKept DEF dispatchVars, Responsible
  <1>3. ASSUME NEW w \in Workers, WorkerCall(w) PROVE LeaseInv'
    <2>1. CASE WorkerClaims(w)
      <3>1. w \in Agents /\ w \in {w, NoWorker}
        BY DEF Agents
      <3> QED BY <1>1, <2>1, <3>1, ClaimKeepsLeaseInv DEF WorkerClaims
    <2> QED BY <1>2, <1>3, <2>1
            DEF WorkerCall, WorkerRegister, WorkerHeartbeat, WorkerDeregister, WorkerDies,
                watchdogVars
  <1>4. ASSUME NEW e \in Ephemerals, NEW role \in Roles, EphemeralClaims(e, role)
        PROVE  LeaseInv'
    <2>1. e \in Agents /\ NoWorker \in {e, NoWorker}
      BY DEF Agents
    <2> QED BY <1>1, <1>4, <2>1, ClaimKeepsLeaseInv DEF EphemeralClaims
  <1>5. ASSUME NEW a \in Agents, NEW d \in Dispatches, NEW s \in Servers, JobComplete(a, d, s)
        PROVE  LeaseInv'
    BY <1>1, <1>5, CompleteKeepsLeaseInv DEF JobComplete
  <1>6. ASSUME NEW s \in Servers, Router(s) PROVE LeaseInv'
    <2>1. ASSUME NEW d \in Dispatches, RouteEnqueue(s, d) PROVE LeaseInv'
      <3>1. PICK w \in Workers \cup {NoWorker} : EnqueueDispatch(d, w)
        BY <2>1 DEF RouteEnqueue, Oldest, TypeOK
      <3> QED BY <1>1, <2>1, <3>1, EnqueueKeepsLeaseInv DEF RouteEnqueue
    <2> QED BY <1>2, <1>6, <2>1 DEF Router, Route, RouteFails, watchdogVars
  <1>7. ASSUME NEW s \in Servers, Tick(s) PROVE LeaseInv'
    <2>1. ASSUME NEW w \in Workers, Evict(s, w) PROVE LeaseInv'
      <3>1. CASE wstate[w] # "stale"
        BY <1>2, <2>1, <3>1 DEF Evict, MarkEvicted
      <3>2. CASE wstate[w] = "stale"
        <4>1. MarkEvicted(w) /\ evicted' = [evicted EXCEPT ![s] = @ \cup {w}]
          BY <2>1, <3>2 DEF Evict
        <4>2. w \notin left
          BY <3>2 DEF LeaseInv, Evicted
        <4> QED BY <1>1, <2>1, <4>1, <4>2, EvictKeepsLeaseInv
      <3> QED BY <3>1, <3>2
    <2>2. ASSUME NEW w \in Workers, RequeueSelect(s, w) PROVE LeaseInv'
      BY <1>1, <2>2, SelectKeepsLeaseInv
    <2>3. ASSUME NEW d \in Dispatches, Requeue(s, d) PROVE LeaseInv'
      BY <1>1, <2>3, RequeueKeepsLeaseInv
    <2>4. CASE RequeueClear(s)
      BY <1>1, <2>4, ClearKeepsLeaseInv
    <2> QED BY <1>2, <1>7, <2>1, <2>2, <2>3, <2>4 DEF Tick, TickBegin, EvictSelect, TickEnd
  <1>8. ASSUME NEW s \in Servers, MarkEvictedFails(s) \/ RequeueFails(s) \/ DaemonRestarts(s)
        PROVE  LeaseInv'
    <2>1. \A t \in Servers : /\ Responsible(t)' \subseteq Responsible(t)
                             /\ leased'[t] \subseteq leased[t]
                             /\ leased'[t] # {} => requeueing'[t] = requeueing[t]
      BY <1>8, NoWorkerAssumption
      DEF MarkEvictedFails, RequeueFails, DaemonRestarts, ForgetTick, Responsible, Agents, TypeOK
    <2>2. UNCHANGED <<dstate, handle, target, holder, granted>>
      BY <1>8 DEF MarkEvictedFails, RequeueFails, DaemonRestarts, dispatchVars
    <2> QED BY <1>1, <2>1, <2>2, RowsKept
  <1>9. CASE UNCHANGED vars
    BY <1>2, <1>9 DEF vars, watchdogVars
  <1>10. ASSUME NEW d \in Dispatches, UpdateJobState(d) PROVE LeaseInv'
    BY <1>2, <1>10 DEF UpdateJobState, watchdogVars
  <1>11. CASE TimePasses
    BY <1>2, <1>11 DEF TimePasses
  <1> QED BY <1>3, <1>4, <1>5, <1>6, <1>7, <1>8, <1>9, <1>10, <1>11 DEF Next

(***************************************************************************)
(* The inductive invariant holds.                                          *)
(***************************************************************************)
THEOREM LeaseInvariant == Spec => []LeaseInv
  <1>1. Init => TypeOK /\ LeaseInv
    BY TypeInit, LeaseInvInit
  <1>2. (TypeOK /\ LeaseInv) /\ [Next]_vars => (TypeOK /\ LeaseInv)'
    BY TypeStep, LeaseInvStep
  <1> QED BY <1>1, <1>2, PTL DEF Spec

(***************************************************************************)
(* ClaimNextDispatch and RequeueByWorker never hand a dispatch to a second *)
(* agent unless the watchdog evicted one of the two, for any number of     *)
(* workers and of daemons that share the database and crash at will.       *)
(***************************************************************************)
THEOREM SecondGrantSafe == Spec => []SecondGrantNeedsEviction
  <1>1. TypeOK /\ LeaseInv => SecondGrantNeedsEviction
    <2> SUFFICES ASSUME TypeOK, LeaseInv, NEW d \in Dispatches,
                        NEW a \in granted[d], NEW b \in granted[d], a # b
                 PROVE  {a, b} \cap Silenced # {}
      BY DEF SecondGrantNeedsEviction
    <2>1. \E c : granted[d] \ {c} \subseteq Silenced
      BY DEF LeaseInv, GrantInv, TypeOK, DispatchTypeOK, DispatchStates
    <2> QED BY <2>1
  <1> QED BY <1>1, TypeCorrect, LeaseInvariant, PTL

(***************************************************************************)
(* The eligibility filter and the requeue together keep routed work with   *)
(* its worker until the watchdog evicts it.                                *)
(***************************************************************************)
THEOREM RoutedWorkSafe == Spec => []RoutedWorkStaysWithTarget
  <1>1. LeaseInv => RoutedWorkStaysWithTarget
    BY DEF LeaseInv
  <1> QED BY <1>1, LeaseInvariant, PTL

-----------------------------------------------------------------------------
(* Which watchdog step silences whom.                                      *)
LEMMA SilencedStep ==
    ASSUME TypeOK, LeaseInv, [Next]_vars
    PROVE  \/ Silenced' = Silenced
           \/ /\ UNCHANGED dispatchVars
              /\ \E s \in Servers, w \in Workers :
                    /\ Evict(s, w) /\ wstate[w] = "stale"
                    /\ Silenced' = Silenced \cup {w}
  <1> USE DEF TypeOK, WorkerTypeOK, WorkerStates, Silenced, Evicted
  <1>1. CASE UNCHANGED <<wstate, left>>
    BY <1>1
  <1>2. ASSUME NEW w \in Workers, WorkerCall(w) PROVE Silenced' = Silenced
    <2>1. CASE WorkerRegister(w)
      BY <2>1 DEF WorkerRegister, Register
    <2>2. CASE WorkerHeartbeat(w)
      BY <2>2 DEF WorkerHeartbeat, Heartbeat
    <2>3. CASE WorkerDeregister(w)
      BY <2>3 DEF WorkerDeregister, Deregister
    <2> QED BY <1>1, <1>2, <2>1, <2>2, <2>3 DEF WorkerCall, WorkerDies, WorkerClaims, workerVars
  <1>3. ASSUME NEW s \in Servers, TickBegin(s) PROVE Silenced' = Silenced
    BY <1>3 DEF TickBegin, MarkStale, workerVars
  <1>4. ASSUME NEW s \in Servers, NEW w \in Workers, Evict(s, w)
        PROVE  \/ Silenced' = Silenced
               \/ /\ UNCHANGED dispatchVars /\ wstate[w] = "stale"
                  /\ Silenced' = Silenced \cup {w}
    <2>1. UNCHANGED dispatchVars
      BY <1>4 DEF Evict
    <2>2. CASE MarkEvicted(w)
      <3>1. w \notin left
        BY <2>2 DEF LeaseInv, MarkEvicted
      <3>2. Silenced' = Silenced \cup {w}
        BY <2>2, <3>1 DEF MarkEvicted
      <3> QED BY <2>1, <2>2, <3>2 DEF MarkEvicted
    <2>3. CASE UNCHANGED workerVars
      BY <1>1, <2>3 DEF workerVars
    <2> QED BY <1>4, <2>2, <2>3 DEF Evict
  <1>5. CASE TimePasses
    BY <1>1, <1>5 DEF TimePasses, Age
  <1>6. CASE UNCHANGED workerVars
    BY <1>1, <1>6 DEF workerVars
  <1>7. ASSUME NEW s \in Servers, Router(s) PROVE UNCHANGED workerVars
    BY <1>7 DEF Router, Route, RouteEnqueue, RouteFails
  <1>8. ASSUME NEW s \in Servers, Tick(s)
        PROVE  \/ UNCHANGED workerVars \/ TickBegin(s)
               \/ \E w \in Workers : Evict(s, w)
    BY <1>8 DEF Tick, EvictSelect, RequeueSelect, Requeue, RequeueClear, TickEnd
  <1> QED BY <1>2, <1>3, <1>4, <1>5, <1>6, <1>7, <1>8
          DEF Next, EphemeralClaims, JobComplete, UpdateJobState, MarkEvictedFails,
              RequeueFails, DaemonRestarts, vars

(* What a step does to the rows, seen from the abstract queue.             *)
LEMMA RowStep ==
    ASSUME TypeOK, LeaseInv, [Next]_vars
    PROVE  \/ UNCHANGED <<dstate, holder>>
           \/ /\ Silenced' = Silenced
              /\ \E d \in Dispatches :
                    \/ Abstract!Enqueue(d) \/ Abstract!TakeBack(d) \/ Abstract!Complete(d)
                    \/ \E a \in Agents : Abstract!Lease(d, a)
  <1> USE DEF Abstract!Move
  <1> DEFINE Goal == \/ UNCHANGED <<dstate, holder>>
                     \/ /\ Silenced' = Silenced
                        /\ \E d \in Dispatches :
                              \/ Abstract!Enqueue(d) \/ Abstract!TakeBack(d) \/ Abstract!Complete(d)
                              \/ \E a \in Agents : Abstract!Lease(d, a)
  <1>1. CASE UNCHANGED dispatchVars
    BY <1>1 DEF dispatchVars
  <1>2. ASSUME UNCHANGED workerVars PROVE Silenced' = Silenced
    BY <1>2 DEF workerVars, Silenced, Evicted
  <1>3. ASSUME NEW a \in Agents, NEW h, NEW role, ClaimNextDispatch(a, h, role), UNCHANGED workerVars
        PROVE  Goal
    BY <1>2, <1>3 DEF ClaimNextDispatch, NextPending, Claimable, Abstract!Lease
  <1>4. ASSUME NEW d \in Dispatches, CompleteDispatch(d), UNCHANGED workerVars
        PROVE  Goal
    BY <1>2, <1>4 DEF CompleteDispatch, Abstract!Complete
  <1>5. ASSUME NEW d \in Dispatches, NEW w, EnqueueDispatch(d, w), UNCHANGED workerVars
        PROVE  Goal
    <2>1. holder[d] = NoWorker
      BY <1>5 DEF EnqueueDispatch, LeaseInv, HandleInv
    <2> QED BY <1>2, <1>5, <2>1 DEF EnqueueDispatch, Abstract!Enqueue, TypeOK, DispatchTypeOK
  <1>6. ASSUME NEW s \in Servers, NEW d \in Dispatches, Requeue(s, d)
        PROVE  Goal
    <2>1. CASE dstate[d] = "leased"
      <3>1. holder[d] \in Silenced
        BY <1>6, <2>1, NoWorkerAssumption
        DEF Requeue, LeaseInv, RequeueInv, HandleInv, Responsible, Agents
      <3> QED BY <1>2, <1>6, <2>1, <3>1 DEF Requeue, RequeueLeased, Abstract!TakeBack
    <2>2. CASE dstate[d] # "leased"
      BY <1>6, <2>2 DEF Requeue, RequeueLeased
    <2> QED BY <2>1, <2>2
  <1>7. ASSUME NEW s \in Servers, RequeueClear(s) PROVE UNCHANGED <<dstate, holder>>
    BY <1>7 DEF RequeueClear, ClearPendingTargets
  <1>8. ASSUME NEW w \in Workers, WorkerCall(w) PROVE Goal
    <2>1. CASE WorkerClaims(w)
      <3>1. w \in Agents
        BY DEF Agents
      <3> QED BY <1>3, <2>1, <3>1 DEF WorkerClaims
    <2> QED BY <1>1, <1>8, <2>1
            DEF WorkerCall, WorkerRegister, WorkerHeartbeat, WorkerDeregister, WorkerDies
  <1>9. ASSUME NEW e \in Ephemerals, NEW role \in Roles, EphemeralClaims(e, role) PROVE Goal
    <2>1. e \in Agents
      BY DEF Agents
    <2> QED BY <1>3, <1>9, <2>1 DEF EphemeralClaims
  <1>10. ASSUME NEW s \in Servers, Router(s) PROVE Goal
    <2>1. ASSUME NEW d \in Dispatches, RouteEnqueue(s, d) PROVE Goal
      BY <1>5, <2>1 DEF RouteEnqueue
    <2> QED BY <1>1, <1>10, <2>1 DEF Router, Route, RouteFails
  <1>11. ASSUME NEW s \in Servers, Tick(s) PROVE Goal
    BY <1>1, <1>6, <1>7, <1>11 DEF Tick, TickBegin, EvictSelect, Evict, RequeueSelect, TickEnd
  <1> QED BY <1>1, <1>4, <1>8, <1>9, <1>10, <1>11
          DEF Next, JobComplete, UpdateJobState, MarkEvictedFails, RequeueFails,
              DaemonRestarts, TimePasses, vars

(***************************************************************************)
(* The protocol implements the abstract lease queue: rows move as its      *)
(* dispatches do, and RequeueByWorker takes a lease back only from a       *)
(* worker the watchdog evicted.                                            *)
(***************************************************************************)
THEOREM Refinement == Spec => ImplementsLeaseQueue
  <1>1. Init => Abstract!LeaseInit
    BY DEF Init, WorkerInit, DispatchInit, Abstract!LeaseInit, Silenced, Evicted
  <1>2. TypeOK /\ LeaseInv /\ [Next]_vars => [Abstract!LeaseNext]_(Abstract!leaseVars)
    <2> SUFFICES ASSUME TypeOK, LeaseInv, [Next]_vars
                 PROVE  Abstract!LeaseNext \/ UNCHANGED <<dstate, holder, Silenced>>
      BY DEF Abstract!leaseVars
    <2>1. CASE Silenced' = Silenced
      BY <2>1, RowStep DEF Abstract!LeaseNext
    <2>2. ASSUME UNCHANGED dispatchVars, NEW w \in Workers, Silenced' = Silenced \cup {w}
          PROVE  Abstract!LeaseNext
      <3>1. w \in Agents /\ Abstract!EvictAgent(w)
        BY <2>2 DEF Agents, Abstract!EvictAgent, dispatchVars
      <3> QED BY <3>1 DEF Abstract!LeaseNext
    <2> QED BY <2>1, <2>2, SilencedStep
  <1> QED BY <1>1, <1>2, TypeCorrect, LeaseInvariant, PTL
          DEF Spec, ImplementsLeaseQueue, Abstract!LeaseSpec

(***************************************************************************)
(* A completion is final: no requeue, claim or second report undoes it,    *)
(* because the UPDATE of each of them is guarded by the row's state.       *)
(***************************************************************************)
THEOREM CompletionIsFinal == Spec => CompletedIsFinal
  <1>1. TypeOK /\ LeaseInv /\ [Next]_vars =>
          [\A d \in Dispatches : dstate[d] = "completed" => dstate'[d] = "completed"]_vars
    <2> SUFFICES ASSUME TypeOK, LeaseInv, [Next]_vars,
                        NEW d \in Dispatches, dstate[d] = "completed"
                 PROVE  dstate'[d] = "completed"
      OBVIOUS
    <2> QED BY RowStep
            DEF Abstract!Enqueue, Abstract!TakeBack, Abstract!Complete, Abstract!Lease,
                Abstract!Move, TypeOK, DispatchTypeOK
  <1> QED BY <1>1, TypeCorrect, LeaseInvariant, PTL DEF Spec, CompletedIsFinal

(***************************************************************************)
(* The rows' state machine with the event each move commits.  The last     *)
(* entry is RequeueByWorker's UPDATE that matches no row any more.         *)
(***************************************************************************)
RowMoves == {<<"none", "queued", "pending">>, <<"pending", "leased", "leased">>,
             <<"leased", "completed", "completed">>, <<"leased", "expired", "pending">>,
             <<"completed", "expired", "completed">>}

(* A step writes one event and the row's move that goes with it, or neither. *)
LEMMA EventStep ==
    ASSUME TypeOK, LeaseInv, [Next]_vars
    PROVE  \/ UNCHANGED <<dstate, log>>
           \/ \E d \in Dispatches, kind \in Kinds, to \in DispatchStates :
                /\ <<dstate[d], kind, to>> \in RowMoves
                /\ Emit(d, kind)
                /\ dstate' = [dstate EXCEPT ![d] = to]
  <1> DEFINE Goal == \/ UNCHANGED <<dstate, log>>
                     \/ \E d \in Dispatches, kind \in Kinds, to \in DispatchStates :
                          /\ <<dstate[d], kind, to>> \in RowMoves
                          /\ Emit(d, kind)
                          /\ dstate' = [dstate EXCEPT ![d] = to]
  <1> USE DEF RowMoves, Kinds, DispatchStates
  <1>1. CASE UNCHANGED dispatchVars
    BY <1>1 DEF dispatchVars
  <1>2. ASSUME NEW a, NEW h, NEW role, ClaimNextDispatch(a, h, role) PROVE Goal
    BY <1>2 DEF ClaimNextDispatch, NextPending, Claimable
  <1>3. ASSUME NEW d \in Dispatches, CompleteDispatch(d) PROVE Goal
    BY <1>3 DEF CompleteDispatch
  <1>4. ASSUME NEW d \in Dispatches, NEW w, EnqueueDispatch(d, w) PROVE Goal
    BY <1>4 DEF EnqueueDispatch
  <1>5. ASSUME NEW s \in Servers, NEW d \in Dispatches, Requeue(s, d) PROVE Goal
    <2>1. CASE dstate[d] = "leased"
      BY <1>5, <2>1 DEF Requeue, RequeueLeased
    <2>2. CASE dstate[d] = "completed"
      <3>1. dstate' = [dstate EXCEPT ![d] = "completed"]
        BY <1>5, <2>2 DEF Requeue, RequeueLeased, TypeOK, DispatchTypeOK
      <3> QED BY <1>5, <2>2, <3>1 DEF Requeue, RequeueLeased
    <2>3. dstate[d] \in {"leased", "completed"}
      BY <1>5 DEF Requeue, LeaseInv, RequeueInv
    <2> QED BY <2>1, <2>2, <2>3
  <1>6. ASSUME NEW s \in Servers, RequeueClear(s) PROVE UNCHANGED <<dstate, log>>
    BY <1>6 DEF RequeueClear, ClearPendingTargets
  <1>7. ASSUME NEW w \in Workers, WorkerCall(w) PROVE Goal
    BY <1>1, <1>2, <1>7 DEF WorkerCall, WorkerRegister, WorkerHeartbeat, WorkerDeregister,
       WorkerDies, WorkerClaims
  <1>8. ASSUME NEW s \in Servers, Router(s) PROVE Goal
    <2>1. ASSUME NEW d \in Dispatches, RouteEnqueue(s, d) PROVE Goal
      BY <1>4, <2>1 DEF RouteEnqueue
    <2> QED BY <1>1, <1>8, <2>1 DEF Router, Route, RouteFails
  <1>9. ASSUME NEW s \in Servers, Tick(s) PROVE Goal
    BY <1>1, <1>5, <1>6, <1>9 DEF Tick, TickBegin, EvictSelect, Evict, RequeueSelect, TickEnd
  <1> QED BY <1>1, <1>2, <1>3, <1>7, <1>8, <1>9
          DEF Next, EphemeralClaims, JobComplete, UpdateJobState, MarkEvictedFails, RequeueFails,
              DaemonRestarts, TimePasses, vars

(***************************************************************************)
(* LogFollowsRow says nothing of the events before a lease, so it is not   *)
(* inductive: no completion was among them.                                *)
(***************************************************************************)
CompletedOf(d) == {i \in DOMAIN log[d] : log[d][i] = "completed"}

EventsOf(d) ==
    LET events == log[d] IN
    /\ dstate[d] = "none" => events = <<>>
    /\ dstate[d] # "none" => events # <<>>
    /\ dstate[d] = "pending" => events[Len(events)] \in {"queued", "expired"}
    /\ dstate[d] = "leased" => events[Len(events)] = "leased"
    /\ dstate[d] # "completed" => CompletedOf(d) = {}
    /\ dstate[d] = "completed" =>
         \E i \in DOMAIN events : /\ CompletedOf(d) = {i}
                                  /\ \A j \in DOMAIN events : j > i => events[j] = "expired"

LEMMA EventsInit == Init => \A d \in Dispatches : EventsOf(d)
  BY DEF Init, DispatchInit, EventsOf, CompletedOf

(* No completion is on record of a row that is not completed.              *)
LEMMA EventsKept ==
    ASSUME TypeOK, LeaseInv, [Next]_vars, \A d \in Dispatches : EventsOf(d)
    PROVE  \A d \in Dispatches : EventsOf(d)'
  <1>1. CASE UNCHANGED <<dstate, log>>
    BY <1>1 DEF EventsOf, CompletedOf
  <1>2. ASSUME NEW d \in Dispatches, NEW kind \in Kinds, NEW to \in DispatchStates,
               <<dstate[d], kind, to>> \in RowMoves, Emit(d, kind),
               dstate' = [dstate EXCEPT ![d] = to]
        PROVE  \A e \in Dispatches : EventsOf(e)'
    <2>1. ASSUME NEW e \in Dispatches \ {d} PROVE EventsOf(e)'
      <3>1. log'[e] = log[e] /\ dstate'[e] = dstate[e]
        BY <1>2 DEF Emit, TypeOK, DispatchTypeOK
      <3> QED BY <3>1 DEF EventsOf, CompletedOf
    <2>2. EventsOf(d)'
      <3> DEFINE events == log[d]
                 more == Append(events, kind)
      <3>1. events \in Seq(Kinds) /\ log'[d] = more /\ dstate'[d] = to
        BY <1>2 DEF Emit, TypeOK, DispatchTypeOK
      <3>2. /\ Len(more) = Len(events) + 1 /\ more[Len(more)] = kind /\ more # <<>>
            /\ \A j \in 1 .. Len(events) : more[j] = events[j]
            /\ DOMAIN more = 1 .. Len(events) + 1 /\ DOMAIN events = 1 .. Len(events)
            /\ Len(events) \in Nat
        BY <3>1
      <3>3. CASE dstate[d] # "completed" /\ kind # "completed"
        <4>1. CompletedOf(d)' = {}
          BY <3>1, <3>2, <3>3 DEF EventsOf, CompletedOf
        <4> QED BY <1>2, <3>1, <3>2, <3>3, <4>1 DEF EventsOf, RowMoves
      <3>4. CASE kind = "completed"
        <4>1. dstate[d] = "leased" /\ to = "completed"
          BY <1>2, <3>4 DEF RowMoves
        <4>2. CompletedOf(d)' = {Len(more)}
          BY <3>1, <3>2, <3>4, <4>1 DEF EventsOf, CompletedOf
        <4>3. Len(more) \in DOMAIN more /\ \A j \in DOMAIN more : ~(j > Len(more))
          BY <3>2
        <4>4. \E i \in DOMAIN more : /\ CompletedOf(d)' = {i}
                                     /\ \A j \in DOMAIN more : j > i => more[j] = "expired"
          BY <4>2, <4>3
        <4> QED BY <3>1, <3>2, <4>1, <4>4 DEF EventsOf
      <3>5. CASE dstate[d] = "completed"
        <4>1. kind = "expired" /\ to = "completed"
          BY <1>2, <3>5 DEF RowMoves
        <4>2. PICK i \in DOMAIN events :
                 CompletedOf(d) = {i} /\ \A j \in DOMAIN events : j > i => events[j] = "expired"
          BY <3>5 DEF EventsOf
        <4>3. CompletedOf(d)' = {i}
          BY <3>1, <3>2, <4>1, <4>2 DEF CompletedOf
        <4>4. i \in DOMAIN more /\ \A j \in DOMAIN more : j > i => more[j] = "expired"
          BY <3>2, <4>1, <4>2
        <4> QED BY <3>1, <3>2, <4>1, <4>3, <4>4 DEF EventsOf
      <3> QED BY <3>3, <3>4, <3>5
    <2> QED BY <2>1, <2>2
  <1> QED BY <1>1, <1>2, EventStep

(***************************************************************************)
(* The events of a dispatch and its row tell the same story, however       *)
(* completions, requeues and claims race.                                  *)
(***************************************************************************)
THEOREM LogAgrees == Spec => []LogFollowsRow
  <1> DEFINE EventsInv == \A d \in Dispatches : EventsOf(d)
  <1>1. Init => EventsInv
    BY EventsInit
  <1>2. TypeOK /\ LeaseInv /\ EventsInv /\ [Next]_vars => EventsInv'
    BY EventsKept
  <1>3. TypeOK /\ EventsInv => LogFollowsRow
    <2> SUFFICES ASSUME TypeOK, EventsInv PROVE LogFollowsRow
      OBVIOUS
    <2> SUFFICES ASSUME NEW d \in Dispatches
                 PROVE  LET events == log[d]
                            lastIs(kinds) == events # <<>> /\ events[Len(events)] \in kinds
                        IN  CASE dstate[d] = "none" -> events = <<>>
                              [] dstate[d] = "pending" -> lastIs({"queued", "expired"})
                              [] dstate[d] = "leased" -> lastIs({"leased"})
                              [] dstate[d] = "completed" ->
                                    \E i \in DOMAIN events : \A j \in DOMAIN events :
                                        /\ events[j] = "completed" <=> j = i
                                        /\ j > i => events[j] = "expired"
      BY DEF LogFollowsRow
    <2>1. dstate[d] \in DispatchStates /\ EventsOf(d)
      BY DEF TypeOK, DispatchTypeOK
    <2>2. CASE dstate[d] = "completed"
      BY <2>1, <2>2 DEF EventsOf, CompletedOf
    <2>3. CASE dstate[d] # "completed"
      BY <2>1, <2>3 DEF EventsOf, DispatchStates
    <2> QED BY <2>2, <2>3
  <1> HIDE DEF EventsInv
  <1> QED BY <1>1, <1>2, <1>3, TypeCorrect, LeaseInvariant, PTL DEF Spec

-----------------------------------------------------------------------------
(***************************************************************************)
(* With one daemon: what a tick has selected and is still stale is what it *)
(* found older than its cutoff.  A second daemon breaks the last conjunct: *)
(* its MarkStale can make a worker stale that beat after the SELECT.       *)
(***************************************************************************)
SilentInv ==
    /\ \A w \in Workers : wstate[w] = "none" => age[w] = 0
    /\ \A s \in Servers : \A w \in overdue[s] : age[w] > EvictAfter
    /\ \A s \in Servers : selected[s] # {} => pc[s] = "evict"
    /\ \A s \in Servers : \A w \in selected[s] : wstate[w] = "stale" => w \in overdue[s]

(* With one daemon, who is stale on a tick's list has been silent too long. *)
LEMMA SilentKept ==
    ASSUME \A s, t \in Servers : s = t, TypeOK, SilentInv, [Next]_vars
    PROVE  SilentInv'
  <1> USE TimeAssumption, MaxAgeAssumption DEF TypeOK, WorkerTypeOK, SilentInv
  <1>1. CASE UNCHANGED <<wstate, age, pc, overdue, selected>>
    BY <1>1
  <1>2. ASSUME NEW w \in Workers, WorkerCall(w) PROVE SilentInv'
    <2>1. CASE WorkerRegister(w)
      BY <2>1 DEF WorkerRegister, Register, watchdogVars
    <2>2. CASE WorkerHeartbeat(w)
      BY <2>2 DEF WorkerHeartbeat, Heartbeat
    <2>3. CASE WorkerDeregister(w)
      BY <2>3 DEF WorkerDeregister, Deregister, watchdogVars
    <2> QED BY <1>1, <1>2, <2>1, <2>2, <2>3
            DEF WorkerCall, WorkerDies, WorkerClaims, workerVars, watchdogVars
  <1>3. ASSUME NEW s \in Servers, Tick(s) PROVE SilentInv'
    <2>1. CASE TickBegin(s)
      <3>1. selected' = [t \in Servers |-> {}]
        BY <2>1 DEF TickBegin
      <3>2. \A w \in Workers : wstate'[w] = "none" => age'[w] = 0
        BY <2>1 DEF TickBegin, MarkStale, workerVars
      <3>3. \A t \in Servers : \A w \in overdue'[t] : age'[w] > EvictAfter
        BY <2>1 DEF TickBegin, MarkStale, workerVars
      <3> QED BY <3>1, <3>2, <3>3
    <2>2. CASE EvictSelect(s)
      BY <2>2 DEF EvictSelect, workerVars
    <2>3. ASSUME NEW w \in Workers, Evict(s, w) PROVE SilentInv'
      BY <2>3 DEF Evict, MarkEvicted, workerVars
    <2>4. ASSUME NEW w \in Workers, RequeueSelect(s, w) PROVE SilentInv'
      BY <2>4 DEF RequeueSelect, workerVars
    <2>5. ASSUME NEW d \in Dispatches, Requeue(s, d) PROVE SilentInv'
      BY <2>5 DEF Requeue, workerVars
    <2>6. CASE RequeueClear(s) \/ TickEnd(s)
      BY <2>6 DEF RequeueClear, TickEnd, workerVars
    <2> QED BY <1>3, <2>1, <2>2, <2>3, <2>4, <2>5, <2>6 DEF Tick
  <1>4. ASSUME NEW s \in Servers, MarkEvictedFails(s) \/ RequeueFails(s) \/ DaemonRestarts(s)
        PROVE  SilentInv'
    BY <1>4 DEF MarkEvictedFails, RequeueFails, DaemonRestarts, ForgetTick, workerVars
  <1>5. CASE TimePasses
    BY <1>5 DEF TimePasses, Age
  <1>6. ASSUME NEW s \in Servers, Router(s)
        PROVE  UNCHANGED <<wstate, age, pc, overdue, selected>>
    BY <1>6 DEF Router, Route, RouteEnqueue, RouteFails, workerVars, watchdogVars
  <1> QED BY <1>1, <1>2, <1>3, <1>4, <1>5, <1>6
          DEF Next, EphemeralClaims, JobComplete, UpdateJobState, vars, workerVars, watchdogVars

(***************************************************************************)
(* A single daemon evicts a worker only while its last heartbeat is older  *)
(* than EvictAfter, although MarkEvicted's SELECT and UPDATEs are apart.   *)
(***************************************************************************)
THEOREM EvictedAfterSilence ==
    ASSUME \A s, t \in Servers : s = t
    PROVE  Spec => EvictedOnlyIfSilent
  <1>1. Init => SilentInv
    BY DEF Init, WorkerInit, SilentInv
  <1>2. TypeOK /\ SilentInv /\ [Next]_vars => SilentInv'
    BY SilentKept
  <1>3. TypeOK /\ LeaseInv /\ SilentInv /\ [Next]_vars =>
          [\A w \in Workers : w \in Silenced' /\ w \notin Silenced => age[w] > EvictAfter]_vars
    <2> SUFFICES ASSUME TypeOK, LeaseInv, SilentInv, [Next]_vars,
                        NEW w \in Workers, w \in Silenced', w \notin Silenced
                 PROVE  age[w] > EvictAfter
      OBVIOUS
    <2>1. PICK s \in Servers : Evict(s, w) /\ wstate[w] = "stale"
      BY SilencedStep
    <2> QED BY <2>1 DEF Evict, SilentInv
  <1> QED BY <1>1, <1>2, <1>3, TypeCorrect, LeaseInvariant, PTL DEF Spec, EvictedOnlyIfSilent
=============================================================================
