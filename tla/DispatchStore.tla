---------------------------- MODULE DispatchStore ----------------------------
(***************************************************************************)
(* The dispatch queue: table `dispatches`, the events written with it, and *)
(* the operations of store/dispatch_store.go.  Every operator is one       *)
(* committed transaction: WriteEventThenRow appends the event and changes  *)
(* the row together, or neither.                                           *)
(*                                                                         *)
(* target, holder and granted are history: the table does not keep them.  *)
(* In particular a lease does not record who holds it unless the row was   *)
(* routed to a worker in the first place.                                  *)
(***************************************************************************)
EXTENDS Handles, Sequences

VARIABLES
    dstate,      \* dispatches.state, "none" while there is no row
    handle,      \* dispatches.worker_handle
    created,     \* dispatches.created_at, an ordinal of its second
    second,      \* the ordinal of the second of the latest row
    log,         \* the kinds of the dispatch.* events of an id, in order
    target,      \* history: the worker the row was enqueued for
    holder,      \* history: who was given the current lease
    granted      \* history: everyone who was ever given a lease

dispatchVars == <<dstate, handle, created, second, log, target, holder, granted>>

DispatchStates == {"none", "pending", "leased", "completed"}
Kinds == {"queued", "leased", "expired", "completed"}

DispatchInit ==
    /\ dstate = [d \in Dispatches |-> "none"]
    /\ handle = [d \in Dispatches |-> NoWorker]
    /\ created = [d \in Dispatches |-> 0]
    /\ second = 0
    /\ log = [d \in Dispatches |-> <<>>]
    /\ target = [d \in Dispatches |-> NoWorker]
    /\ holder = [d \in Dispatches |-> NoWorker]
    /\ granted = [d \in Dispatches |-> {}]

Emit(d, kind) == log' = [log EXCEPT ![d] = Append(@, kind)]

(* EnqueueDispatch: created_at is truncated to the second.                 *)
EnqueueDispatch(d, w) ==
    /\ dstate[d] = "none"
    /\ Emit(d, "queued")
    /\ dstate' = [dstate EXCEPT ![d] = "pending"]
    /\ handle' = [handle EXCEPT ![d] = w]
    /\ target' = [target EXCEPT ![d] = w]
    /\ \E s \in {second, second + 1} :
          /\ created' = [created EXCEPT ![d] = s]
          /\ second' = s
    /\ UNCHANGED <<holder, granted>>

(* Mutant: the SELECT forgets the worker_handle filter.                    *)
ClaimableByAnyone(role, h) ==
    {d \in Dispatches : dstate[d] = "pending" /\ RoleOf[d] = role}

(* The rows a caller polling with this handle may be given: those aimed at *)
(* it and those aimed at nobody.  The empty handle is nobody.              *)
Claimable(role, h) ==
    {d \in Dispatches : dstate[d] = "pending" /\ RoleOf[d] = role /\ handle[d] \in {h, NoWorker}}

(* ORDER BY created_at ASC LIMIT 1: any row of the earliest second.        *)
NextPending(role, h) ==
    {d \in Claimable(role, h) : \A e \in Claimable(role, h) : created[d] <= created[e]}

(***************************************************************************)
(* ClaimNextDispatch: select, event and update are one transaction.  The   *)
(* row keeps the worker_handle it had, so a row aimed at nobody is leased  *)
(* without a trace of its holder.  The caller's own registry state is not  *)
(* consulted.  When nothing is claimable the call changes nothing.         *)
(***************************************************************************)
ClaimNextDispatch(a, h, role) ==
    \E d \in NextPending(role, h) :
       /\ Emit(d, "leased")
       /\ dstate' = [dstate EXCEPT ![d] = "leased"]
       /\ holder' = [holder EXCEPT ![d] = a]
       /\ granted' = [granted EXCEPT ![d] = @ \cup {a}]
       /\ UNCHANGED <<handle, created, second, target>>

(* Mutant: the UPDATE forgets AND state = 'leased'.                        *)
CompleteTwice(d) ==
    /\ dstate[d] # "none"
    /\ Emit(d, "completed")
    /\ dstate' = [dstate EXCEPT ![d] = "completed"]
    /\ holder' = [holder EXCEPT ![d] = NoWorker]
    /\ UNCHANGED <<handle, created, second, target, granted>>

(* CompleteDispatch: guarded by the row's state alone, not by the caller.  *)
CompleteDispatch(d) ==
    /\ dstate[d] = "leased"
    /\ Emit(d, "completed")
    /\ dstate' = [dstate EXCEPT ![d] = "completed"]
    /\ holder' = [holder EXCEPT ![d] = NoWorker]
    /\ UNCHANGED <<handle, created, second, target, granted>>

(* Mutant: the SELECT forgets AND worker_handle = ?.                       *)
LeasedToAnyone(w) == {d \in Dispatches : dstate[d] = "leased"}

(* RequeueByWorker, the SELECT of phase 1.                                 *)
LeasedTo(w) == {d \in Dispatches : dstate[d] = "leased" /\ handle[d] = w}

(* Mutant: the UPDATE forgets AND state = 'leased'.                        *)
RequeueCompleted(d) ==
    /\ Emit(d, "expired")
    /\ dstate' = [dstate EXCEPT ![d] = "pending"]
    /\ handle' = [handle EXCEPT ![d] = NoWorker]
    /\ holder' = [holder EXCEPT ![d] = NoWorker]
    /\ UNCHANGED <<created, second, target, granted>>

(* Mutant: the row is left in the schema's state 'expired'.                *)
RequeueAsExpired(d) ==
    /\ Emit(d, "expired")
    /\ dstate' = [dstate EXCEPT ![d] = IF @ = "leased" THEN "expired" ELSE @]
    /\ UNCHANGED <<handle, holder, created, second, target, granted>>

(***************************************************************************)
(* RequeueByWorker, phase 1, one selected row: the UPDATE is guarded by    *)
(* state = 'leased' but the event is committed whether or not it matched.  *)
(***************************************************************************)
RequeueLeased(d) ==
    /\ Emit(d, "expired")
    /\ \/ /\ dstate[d] = "leased"
          /\ dstate' = [dstate EXCEPT ![d] = "pending"]
          /\ handle' = [handle EXCEPT ![d] = NoWorker]
          /\ holder' = [holder EXCEPT ![d] = NoWorker]
       \/ dstate[d] # "leased" /\ UNCHANGED <<dstate, handle, holder>>
    /\ UNCHANGED <<created, second, target, granted>>

(* Mutant: phase 2 is missing.                                             *)
KeepPendingTargets(w) == UNCHANGED dispatchVars

(* RequeueByWorker, phase 2: pending rows lose their target, no event.     *)
ClearPendingTargets(w) ==
    /\ handle' = [d \in Dispatches |->
                     IF dstate[d] = "pending" /\ handle[d] = w THEN NoWorker ELSE handle[d]]
    /\ UNCHANGED <<dstate, created, second, log, target, holder, granted>>

DispatchTypeOK ==
    /\ dstate \in [Dispatches -> DispatchStates]
    /\ handle \in [Dispatches -> Workers \cup {NoWorker}]
    /\ created \in [Dispatches -> Nat]
    /\ second \in Nat
    /\ log \in [Dispatches -> Seq(Kinds)]
    /\ target \in [Dispatches -> Workers \cup {NoWorker}]
    /\ holder \in [Dispatches -> Agents \cup {NoWorker}]
    /\ granted \in [Dispatches -> SUBSET Agents]
=============================================================================
