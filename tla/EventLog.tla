------------------------------ MODULE EventLog ------------------------------
(***************************************************************************)
(* The event log of state.db: store/event_store.go and, for the events     *)
(* that carry a cost, store/cost_event_store.go.  A write is a transaction *)
(* that reads the last sequence number of its run, inserts the event and   *)
(* updates the tables that follow from it.  The writers are goroutines of  *)
(* several processes, each with a connection of its own.                   *)
(*                                                                         *)
(* SQLite in WAL mode lets transactions read side by side from the         *)
(* snapshot of their first read, and refuses the insert of one whose       *)
(* snapshot is no longer the newest.  The insert, what follows it and the  *)
(* commit are one step: nobody else writes in between.                     *)
(***************************************************************************)
EXTENDS Integers, Sequences, FiniteSets

CONSTANTS
    Writers,
    Runs,
    Keys,       \* idempotency keys
    NoKey,
    Prices,     \* what a sample may cost
    Calls,      \* what each writer may be called for: pairs of an operation and a run
    MaxEvents,  \* bound on events
    MaxFaults   \* bound on writes that fail, dropped connections and restarts

ASSUME WritersAssumption == IsFiniteSet(Writers)
ASSUME KeyAssumption == NoKey \notin Keys
ASSUME CallsAssumption ==
    Calls \in [Writers -> SUBSET ({"state", "keyed", "cost"} \X Runs)]
ASSUME PriceAssumption == Prices \subseteq Nat
ASSUME LogBoundsAssumption == MaxEvents \in Nat /\ MaxFaults \in Nat

VARIABLES
    log,       \* the events table, in the order of the commits
    spent,     \* runs.cost_usd
    wpc,       \* where a writer is
    draft,     \* the event it is writing
    snapshot,  \* how long the log was when its transaction first read it
    faults

logVars == <<log, spent, wpc, draft, snapshot>>

Event(kind, w, r, key, price) ==
    [kind |-> kind, by |-> w, run |-> r, key |-> key, price |-> price, seq |-> 0, total |-> 0]

NoEvent == [kind |-> "none"]

Events ==
    [kind : {"state", "cost"}, by : Writers, run : Runs, key : Keys \cup {NoKey},
     price : Prices \cup {0}, seq : Nat, total : Nat]

LogInit ==
    /\ log = <<>>
    /\ spent = [r \in Runs |-> 0]
    /\ wpc = [w \in Writers |-> "idle"]
    /\ draft = [w \in Writers |-> NoEvent]
    /\ snapshot = [w \in Writers |-> 0]
    /\ faults = 0

Room == Len(log) + Cardinality({w \in Writers : wpc[w] \in {"counted", "inserting"}}) < MaxEvents
HasKey(k) == \E i \in 1..Len(log) : log[i].key = k

WriterMoves(w, from, to) == wpc[w] = from /\ wpc' = [wpc EXCEPT ![w] = to]
-----------------------------------------------------------------------------
SequencesOf(r) == {log[i].seq : i \in {j \in 1..Len(log) : log[j].run = r}}

(* Mutant: the number is read without WHERE run_id = ?.                    *)
NextSequenceOfAll(r) == Len(log) + 1

(* COALESCE(MAX(sequence), 0) + 1                                          *)
NextSequence(r) ==
    LET taken == SequencesOf(r) \cup {0} IN 1 + CHOOSE n \in taken : \A m \in taken : m <= n

(* The transaction begins: it reads the run's cost, if the event is to     *)
(* carry it, and the run's last sequence number.                           *)
Begin(w, from, e) ==
    /\ WriterMoves(w, from, "inserting")
    /\ snapshot' = [snapshot EXCEPT ![w] = Len(log)]
    /\ draft' = [draft EXCEPT ![w] =
         [e EXCEPT !.seq = NextSequence(e.run),
                   !.total = IF e.kind = "cost" THEN spent[e.run] + e.price ELSE 0]]
    /\ UNCHANGED <<log, spent, faults>>

Called(w, operation) == {r \in Runs : <<operation, r>> \in Calls[w]}

WriteEventThenRow(w) ==
    Room /\ \E r \in Called(w, "state") : Begin(w, "idle", Event("state", w, r, NoKey, 0))

RecordCost(w) ==
    /\ Room
    /\ \E r \in Called(w, "cost"), usd \in Prices :
         Begin(w, "idle", Event("cost", w, r, NoKey, usd))

(* WriteEventIdempotent first counts the events with its key, outside the  *)
(* transaction, and returns if there is one.                               *)
CountKey(w) ==
    /\ Room
    /\ WriterMoves(w, "idle", "counted")
    /\ \E r \in Called(w, "keyed"), k \in Keys :
         ~HasKey(k) /\ draft' = [draft EXCEPT ![w] = Event("state", w, r, k, 0)]
    /\ UNCHANGED <<log, spent, snapshot, faults>>

WriteEventIdempotent(w) == Begin(w, "counted", draft[w])

Fresh(w) == snapshot[w] = Len(log)

(* Mutant: idempotency_key is not UNIQUE.                                  *)
FitsWithoutKey(w) == draft[w].seq \notin SequencesOf(draft[w].run)

(* The table's UNIQUE constraints.                                         *)
Fits(w) ==
    /\ draft[w].seq \notin SequencesOf(draft[w].run)
    /\ draft[w].key = NoKey \/ ~HasKey(draft[w].key)

Closed(w) ==
    /\ draft' = [draft EXCEPT ![w] = NoEvent]
    /\ snapshot' = [snapshot EXCEPT ![w] = 0]

Committed(w, e) ==
    /\ wpc' = [wpc EXCEPT ![w] = "committed"]
    /\ log' = Append(log, e)
    /\ spent' = [spent EXCEPT ![e.run] = @ + e.price]
    /\ Closed(w)
    /\ UNCHANGED faults

(* Mutant: the total is read before the transaction that writes it begins. *)
CommitWithEarlierTotal(w) ==
    /\ wpc[w] = "inserting"
    /\ Committed(w, [draft[w] EXCEPT !.seq = NextSequence(draft[w].run)])

Commit(w) ==
    /\ wpc[w] = "inserting" /\ Fresh(w) /\ Fits(w)
    /\ Committed(w, draft[w])

(* The insert, the projection or the commit fails and nothing is written.  *)
Fail(w) ==
    /\ WriterMoves(w, "inserting", "idle")
    /\ \/ ~(Fresh(w) /\ Fits(w)) /\ UNCHANGED faults
       \/ faults < MaxFaults /\ faults' = faults + 1
    /\ Closed(w)
    /\ UNCHANGED <<log, spent>>
-----------------------------------------------------------------------------
(* The events of a run are numbered 1, 2, 3, ... in the order in which     *)
(* they were committed, whoever wrote them.                                *)
SequenceDense ==
    \A j \in 1..Len(log) :
        SequencesOf(log[j].run) \cap (1..log[j].seq) = 1..log[j].seq
        /\ \A i \in 1..(j - 1) : log[i].run = log[j].run => log[i].seq < log[j].seq

(* Of the idempotent writes with one key a single one reached the log.     *)
KeyedOnce ==
    \A i, j \in 1..Len(log) : log[i].key = log[j].key /\ log[i].key # NoKey => i = j

(* The total a cost event carries is its price on top of the total of the  *)
(* run's cost event before it, and runs.cost_usd is the last of them.      *)
CostsBefore(r, j) == {i \in 1..(j - 1) : log[i].kind = "cost" /\ log[i].run = r}
TotalBefore(r, j) ==
    IF CostsBefore(r, j) = {} THEN 0
    ELSE log[CHOOSE i \in CostsBefore(r, j) : \A k \in CostsBefore(r, j) : k <= i].total

TotalsAddUp ==
    /\ \A j \in 1..Len(log) :
         log[j].kind = "cost" => log[j].total = TotalBefore(log[j].run, j) + log[j].price
    /\ \A r \in Runs : spent[r] = TotalBefore(r, Len(log) + 1)
=============================================================================
