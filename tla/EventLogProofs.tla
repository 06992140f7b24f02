--------------------------- MODULE EventLogProofs ---------------------------
(***************************************************************************)
(* Proofs about the event log, under the feed that publishes it: for any   *)
(* finite set of writers, any runs, keys, prices and calls, any viewers    *)
(* and connections, and any number of events and faults.                   *)
(***************************************************************************)
EXTENDS EventFeed, SequenceTheorems, FiniteSetTheorems, TLAPS

(***************************************************************************)
(* Types, and the bound on the log: a writer that has begun has a place    *)
(* in it.                                                                  *)
(***************************************************************************)
Pending == {w \in Writers : wpc[w] \in {"counted", "inserting"}}

DraftTypes ==
    \A w \in Pending :
        /\ draft[w] \in Events /\ draft[w].by = w
        /\ draft[w].kind = "state" => draft[w].price = 0

LogTypes ==
    /\ log \in Seq(Events)
    /\ spent \in [Runs -> Nat]
    /\ wpc \in [Writers -> {"idle", "counted", "inserting", "committed", "publishing"}]
    /\ draft \in [Writers -> Events \cup {NoEvent}]
    /\ snapshot \in [Writers -> 0..MaxEvents]
    /\ faults \in 0..MaxFaults
    /\ DraftTypes
    /\ Len(log) + Cardinality(Pending) <= MaxEvents

Positions == 1..Len(log)

BusTypes ==
    /\ place \in [Writers -> 0..MaxEvents]
    /\ \A w \in Writers : wpc[w] \in {"committed", "publishing"} => place[w] \in Positions
    /\ receivers \in [Writers -> SUBSET Connections]
    /\ serving \subseteq Connections
    /\ client \in [Connections -> Viewers \cup {NoViewer}]
    /\ channel \in [Connections -> Seq(Positions)]
    /\ \A c \in Connections : Len(channel[c]) <= Capacity
    /\ streams \in [Viewers -> 1..MaxStreams] /\ failed \subseteq Dashboards
    /\ taken \in [Viewers -> Seq(Positions)] /\ shown \in [Viewers -> Seq(Positions)]

Types == LogTypes /\ BusTypes

(***************************************************************************)
(* The numbers of a run's events are 1..n for some n, in the order of the  *)
(* log.  A transaction whose snapshot is the newest has read what is still *)
(* true: that is what makes its number the next one and its total right.   *)
(***************************************************************************)
Numbered == \A r \in Runs : \E n \in 0..Len(log) : SequencesOf(r) = 1..n

InOrder ==
    \A i, j \in 1..Len(log) :
        i < j /\ log[i].run = log[j].run => log[i].seq < log[j].seq

TotalOf(e) == IF e.kind = "cost" THEN spent[e.run] + e.price ELSE 0

DraftInv ==
    \A w \in Writers : wpc[w] = "inserting" =>
        /\ snapshot[w] <= Len(log)
        /\ Fresh(w) => /\ draft[w].seq = NextSequence(draft[w].run)
                       /\ draft[w].total = TotalOf(draft[w])

NumberInv == Numbered /\ InOrder /\ DraftInv

(* Where there are cost events, one of them is the last.                   *)
LastCost ==
    \A r \in Runs, j \in 1..(Len(log) + 1) :
        CostsBefore(r, j) = {} \/ \E i \in CostsBefore(r, j) : \A k \in CostsBefore(r, j) : k <= i

LogInv == NumberInv /\ KeyedOnce /\ LastCost /\ TotalsAddUp

-----------------------------------------------------------------------------
(* The writers that have something to write are finitely many,             *)
LEMMA PendingFinite == IsFiniteSet(Pending) /\ Cardinality(Pending) \in Nat
  BY WritersAssumption, FS_Subset, FS_CardinalityType DEF Pending

(* also after a step.                                                      *)
LEMMA PendingFinite2 == IsFiniteSet(Pending') /\ Cardinality(Pending') \in Nat
  BY WritersAssumption, FS_Subset, FS_CardinalityType DEF Pending

(* The number that a transaction reads is the next one of its run.         *)
LEMMA NextIs ==
  ASSUME NEW r, NEW n \in Nat, SequencesOf(r) = 1..n
  PROVE  NextSequence(r) = n + 1
  <1> DEFINE numbers == SequencesOf(r) \cup {0}
             last == CHOOSE k \in numbers : \A m \in numbers : m <= k
  <1>1. numbers = 0..n
    OBVIOUS
  <1>2. \E k \in numbers : \A m \in numbers : m <= k
    BY <1>1
  <1>3. last \in numbers /\ \A m \in numbers : m <= last
    BY <1>2
  <1>4. last = n
    BY <1>1, <1>3
  <1>5. NextSequence(r) = 1 + last
    BY DEF NextSequence
  <1> QED BY <1>4, <1>5

(* What NextSequence returns is a number, for every log that is numbered.  *)
LEMMA NextSequenceType ==
  ASSUME Numbered, log \in Seq(Events), NEW r \in Runs
  PROVE  NextSequence(r) \in Nat
  <1>1. PICK n \in 0..Len(log) : SequencesOf(r) = 1..n
    BY DEF Numbered
  <1>2. n \in Nat
    BY <1>1
  <1> QED BY <1>1, <1>2, NextIs

(* What an append does to the log and to the numbers of each run.          *)
LEMMA Appended ==
  ASSUME log \in Seq(Events), NEW e \in Events, log' = Append(log, e)
  PROVE  /\ log' \in Seq(Events) /\ Len(log) \in Nat
         /\ Len(log') = Len(log) + 1 /\ log'[Len(log) + 1] = e
         /\ \A i \in 1..Len(log) : log'[i] = log[i]
  BY AppendProperties

(* An event added to the log adds its number to those of its run.          *)
LEMMA AppendedSequences ==
  ASSUME log \in Seq(Events), NEW e \in Events, log' = Append(log, e), NEW r
  PROVE  SequencesOf(r)' =
           IF e.run = r THEN SequencesOf(r) \cup {e.seq} ELSE SequencesOf(r)
  <1> DEFINE n == Len(log) + 1
  <1>1. /\ Len(log) \in Nat /\ Len(log') = n /\ log'[n] = e
        /\ \A i \in 1..Len(log) : log'[i] = log[i]
    BY Appended
  <1>2. SequencesOf(r) = {log[i].seq : i \in {j \in 1..Len(log) : log[j].run = r}}
    BY DEF SequencesOf
  <1>3. SequencesOf(r)' = {log'[i].seq : i \in {j \in 1..Len(log') : log'[j].run = r}}
    BY DEF SequencesOf
  <1>4. ASSUME NEW s PROVE s \in SequencesOf(r)' <=>
                             s \in SequencesOf(r) \/ (e.run = r /\ s = e.seq)
    <2>1. 1..n = (1..Len(log)) \cup {n}
      BY <1>1
    <2>2. s \in SequencesOf(r)' <=> \E i \in 1..n : log'[i].run = r /\ s = log'[i].seq
      BY <1>1, <1>3
    <2>3. s \in SequencesOf(r) <=> \E i \in 1..Len(log) : log[i].run = r /\ s = log[i].seq
      BY <1>2
    <2> QED BY <1>1, <2>1, <2>2, <2>3
  <1> QED BY <1>4
-----------------------------------------------------------------------------
(***************************************************************************)
(* Types.                                                                  *)
(***************************************************************************)
LEMMA InitTypes == Init => Types
  <1> SUFFICES ASSUME Init PROVE LogTypes /\ BusTypes
    BY DEF Types
  <1>1. /\ log = <<>> /\ spent = [r \in Runs |-> 0] /\ wpc = [w \in Writers |-> "idle"]
        /\ draft = [w \in Writers |-> NoEvent] /\ snapshot = [w \in Writers |-> 0] /\ faults = 0
    BY DEF Init, LogInit
  <1>2. Pending = {}
    BY <1>1 DEF Pending
  <1>3. Len(log) = 0 /\ log \in Seq(Events) /\ Cardinality(Pending) = 0
    BY <1>1, <1>2, FS_EmptySet
  <1>4. LogTypes
    BY <1>1, <1>2, <1>3, LogBoundsAssumption DEF LogTypes, DraftTypes
  <1>5. BusTypes
    BY <1>1, LogBoundsAssumption, ConnectionAssumption, StreamsAssumption DEF Init, BusTypes,
       Positions
  <1> QED BY <1>4, <1>5

(* What Event builds is an event with the fields it was given.             *)
LEMMA EventTypes ==
  ASSUME NEW kind \in {"state", "cost"}, NEW w \in Writers, NEW r \in Runs,
         NEW key \in Keys \cup {NoKey}, NEW price \in Prices \cup {0}
  PROVE  /\ Event(kind, w, r, key, price) \in Events
         /\ Event(kind, w, r, key, price).kind = kind
         /\ Event(kind, w, r, key, price).price = price
         /\ Event(kind, w, r, key, price).run = r
         /\ Event(kind, w, r, key, price).by = w
  BY DEF Event, Events

(* Giving an event its number and total changes nothing else of it.        *)
LEMMA Numbering ==
  ASSUME NEW e \in Events, NEW n \in Nat, NEW t \in Nat
  PROVE  /\ [e EXCEPT !.seq = n, !.total = t] \in Events
         /\ [e EXCEPT !.seq = n, !.total = t].kind = e.kind
         /\ [e EXCEPT !.seq = n, !.total = t].price = e.price
         /\ [e EXCEPT !.seq = n, !.total = t].run = e.run
         /\ [e EXCEPT !.seq = n, !.total = t].by = e.by
         /\ [e EXCEPT !.seq = n, !.total = t].seq = n
         /\ [e EXCEPT !.seq = n, !.total = t].total = t
  BY DEF Events

(* Prices are naturals.                                                    *)
LEMMA PriceType == ASSUME NEW p \in Prices \cup {0} PROVE p \in Nat
  BY PriceAssumption

(* The event a transaction is about to insert.                             *)
LEMMA Begun ==
  ASSUME LogTypes, Numbered, NEW w \in Writers, NEW from, NEW e \in Events, Begin(w, from, e)
  PROVE  /\ draft'[w] \in Events
         /\ draft'[w].kind = e.kind /\ draft'[w].price = e.price
         /\ draft'[w].run = e.run /\ draft'[w].by = e.by
         /\ draft'[w].seq = NextSequence(e.run) /\ draft'[w].total = TotalOf(e)
  <1>1. NextSequence(e.run) \in Nat
    BY NextSequenceType DEF LogTypes, Events
  <1>2. TotalOf(e) \in Nat
    <2>1. e.run \in Runs /\ e.price \in Prices \cup {0}
      BY DEF Events
    <2>2. e.price \in Nat
      BY <2>1, PriceType
    <2>3. spent[e.run] \in Nat
      BY <2>1 DEF LogTypes
    <2> QED BY <2>2, <2>3 DEF TotalOf
  <1>3. draft'[w] = [e EXCEPT !.seq = NextSequence(e.run), !.total = TotalOf(e)]
    BY DEF Begin, LogTypes, TotalOf
  <1> DEFINE d == [e EXCEPT !.seq = NextSequence(e.run), !.total = TotalOf(e)]
  <1>4. /\ d \in Events /\ d.kind = e.kind /\ d.price = e.price /\ d.run = e.run /\ d.by = e.by
        /\ d.seq = NextSequence(e.run) /\ d.total = TotalOf(e)
    BY <1>1, <1>2 DEF Events
  <1> HIDE DEF d
  <1>5. draft'[w] = d
    BY <1>3 DEF d
  <1> QED BY <1>4, <1>5

(* A writer that begins takes a place in the log, if it had none.          *)
LEMMA Enters ==
  ASSUME LogTypes, NEW w \in Writers, NEW pc \in {"counted", "inserting"},
         wpc[w] = "counted" \/ Room, wpc' = [wpc EXCEPT ![w] = pc], log' = log
  PROVE  Len(log') + Cardinality(Pending') <= MaxEvents
  <1>1. Pending' = Pending \cup {w}
    BY DEF LogTypes, Pending
  <1>2. Cardinality(Pending') = IF w \in Pending THEN Cardinality(Pending) ELSE Cardinality(Pending) + 1
    BY <1>1, PendingFinite, FS_AddElement
  <1>3. Len(log) \in Nat /\ Cardinality(Pending) \in Nat /\ MaxEvents \in Nat
    BY PendingFinite, LogBoundsAssumption DEF LogTypes
  <1>4. CASE w \in Pending
    BY <1>2, <1>3, <1>4 DEF LogTypes
  <1>5. CASE w \notin Pending
    <2>1. Len(log) + Cardinality(Pending) < MaxEvents
      BY <1>5 DEF Room, Pending
    <2> QED BY <1>2, <1>3, <1>5, <2>1
  <1> QED BY <1>4, <1>5

(* What the operations of a writer leave behind has its type: the snapshot, *)
LEMMA BeginTypes ==
  ASSUME LogTypes, Numbered, NEW w \in Writers, NEW from, NEW e \in Events,
         e.kind = "state" => e.price = 0, e.by = w,
         from = "counted" \/ Room, Begin(w, from, e)
  PROVE  LogTypes'
  <1>1. /\ draft'[w] \in Events /\ draft'[w].kind = e.kind /\ draft'[w].price = e.price
        /\ draft'[w].by = w
        /\ \A u \in Writers \ {w} : draft'[u] = draft[u] /\ wpc'[u] = wpc[u]
    <2>1. /\ draft'[w] \in Events /\ draft'[w].kind = e.kind /\ draft'[w].price = e.price
          /\ draft'[w].by = w
      BY Begun
    <2>2. \A u \in Writers \ {w} : draft'[u] = draft[u] /\ wpc'[u] = wpc[u]
      BY DEF Begin, WriterMoves, LogTypes
    <2> QED BY <2>1, <2>2
  <1>2. /\ wpc[w] = from /\ wpc' = [wpc EXCEPT ![w] = "inserting"]
        /\ draft' = [draft EXCEPT ![w] = draft'[w]]
        /\ snapshot' = [snapshot EXCEPT ![w] = Len(log)] /\ UNCHANGED <<log, spent, faults>>
    BY DEF Begin, WriterMoves, LogTypes
  <1>3. Len(log') + Cardinality(Pending') <= MaxEvents
    BY <1>2, Enters
  <1>4. DraftTypes'
    BY <1>1 DEF DraftTypes, Pending, LogTypes
  <1>5. Len(log) \in 0..MaxEvents
    BY PendingFinite, LogBoundsAssumption DEF LogTypes
  <1>6. draft' \in [Writers -> Events \cup {NoEvent}]
    BY <1>1, <1>2 DEF LogTypes
  <1> QED BY <1>2, <1>3, <1>4, <1>5, <1>6 DEF LogTypes

(* the count of keys,                                                      *)
LEMMA CountTypes ==
  ASSUME LogTypes, NEW w \in Writers, CountKey(w)
  PROVE  LogTypes'
  <1>1. PICK r \in Runs, k \in Keys : draft' = [draft EXCEPT ![w] = Event("state", w, r, k, 0)]
    BY DEF CountKey, Called
  <1>2. /\ Event("state", w, r, k, 0) \in Events
        /\ Event("state", w, r, k, 0).price = 0 /\ Event("state", w, r, k, 0).by = w
    BY EventTypes
  <1>3. /\ wpc' = [wpc EXCEPT ![w] = "counted"] /\ Room
        /\ UNCHANGED <<log, spent, snapshot, faults>>
    BY DEF CountKey, WriterMoves
  <1>4. Len(log') + Cardinality(Pending') <= MaxEvents
    BY <1>3, Enters
  <1>5. DraftTypes'
    BY <1>1, <1>2, <1>3 DEF DraftTypes, Pending, LogTypes
  <1>6. draft' \in [Writers -> Events \cup {NoEvent}]
    BY <1>1, <1>2 DEF LogTypes
  <1> QED BY <1>3, <1>4, <1>5, <1>6 DEF LogTypes

(* the three ways to begin,                                                *)
LEMMA WriteTypes ==
  ASSUME LogTypes, Numbered, NEW w \in Writers,
         WriteEventThenRow(w) \/ RecordCost(w) \/ WriteEventIdempotent(w)
  PROVE  LogTypes'
  <1>1. CASE WriteEventThenRow(w)
    <2>1. PICK r \in Runs : Begin(w, "idle", Event("state", w, r, NoKey, 0))
      BY <1>1 DEF WriteEventThenRow, Called
    <2>2. Room
      BY <1>1 DEF WriteEventThenRow
    <2> QED BY <2>1, <2>2, EventTypes, BeginTypes
  <1>2. CASE RecordCost(w)
    <2>1. PICK r \in Runs, usd \in Prices : Begin(w, "idle", Event("cost", w, r, NoKey, usd))
      BY <1>2 DEF RecordCost, Called
    <2>2. Room
      BY <1>2 DEF RecordCost
    <2>3. /\ Event("cost", w, r, NoKey, usd) \in Events
          /\ Event("cost", w, r, NoKey, usd).kind # "state" /\ Event("cost", w, r, NoKey, usd).by = w
      BY <2>1, EventTypes
    <2> QED BY <2>1, <2>2, <2>3, BeginTypes
  <1>3. CASE WriteEventIdempotent(w)
    <2>1. Begin(w, "counted", draft[w])
      BY <1>3 DEF WriteEventIdempotent
    <2>2. w \in Pending
      BY <2>1 DEF Begin, WriterMoves, Pending
    <2> QED BY <2>1, <2>2, BeginTypes DEF LogTypes, DraftTypes
  <1> QED BY <1>1, <1>2, <1>3

(* A transaction that ends.                                                *)
LEMMA Leaves ==
  ASSUME LogTypes, NEW w \in Writers, NEW pc \in {"idle", "committed"},
         wpc[w] = "inserting", wpc' = [wpc EXCEPT ![w] = pc]
  PROVE  Cardinality(Pending') + 1 = Cardinality(Pending)
  <1>1. Pending' = Pending \ {w} /\ w \in Pending
    BY DEF LogTypes, Pending
  <1> QED BY <1>1, PendingFinite, PendingFinite2, FS_RemoveElement

(* the end of a transaction,                                               *)
LEMMA EndTypes ==
  ASSUME LogTypes, NEW w \in Writers, Commit(w) \/ Fail(w)
  PROVE  LogTypes' /\ (Len(log') > Len(log) => Len(log') \in 1..MaxEvents)
  <1>1. PICK pc \in {"idle", "committed"} : wpc' = [wpc EXCEPT ![w] = pc]
    BY DEF Commit, Committed, Fail, WriterMoves
  <1>2. /\ wpc[w] = "inserting"
        /\ draft' = [draft EXCEPT ![w] = NoEvent] /\ snapshot' = [snapshot EXCEPT ![w] = 0]
    BY DEF Commit, Committed, Fail, WriterMoves, Closed
  <1>3. /\ Cardinality(Pending') + 1 = Cardinality(Pending)
        /\ Cardinality(Pending) \in Nat /\ Cardinality(Pending') \in Nat
    BY <1>1, <1>2, Leaves, PendingFinite, PendingFinite2
  <1>4. DraftTypes'
    BY <1>1, <1>2 DEF DraftTypes, Pending, LogTypes
  <1>5. faults' \in 0..MaxFaults
    BY LogBoundsAssumption DEF Commit, Committed, Fail, LogTypes
  <1>6. /\ log' \in Seq(Events) /\ spent' \in [Runs -> Nat]
        /\ Len(log) \in Nat
        /\ Len(log') = Len(log) \/ Len(log') = Len(log) + 1
    <2>1. CASE Commit(w)
      <3>1. draft[w] \in Events
        BY <1>2 DEF LogTypes, DraftTypes, Pending
      <3>2. spent' = [spent EXCEPT ![draft[w].run] = @ + draft[w].price] /\ log' = Append(log, draft[w])
        BY <2>1 DEF Commit, Committed
      <3>3. draft[w].run \in Runs /\ draft[w].price \in Prices \cup {0}
        BY <3>1 DEF Events
      <3>4. draft[w].price \in Nat
        BY <3>3, PriceType
      <3> QED BY <3>1, <3>2, <3>3, <3>4, Appended DEF LogTypes
    <2>2. CASE Fail(w)
      BY <2>2 DEF Fail, LogTypes
    <2> QED BY <2>1, <2>2
  <1>7. Len(log') + Cardinality(Pending') <= MaxEvents
    BY <1>3, <1>6, LogBoundsAssumption DEF LogTypes
  <1>8. /\ wpc' \in [Writers -> {"idle", "counted", "inserting", "committed", "publishing"}]
        /\ draft' \in [Writers -> Events \cup {NoEvent}]
        /\ snapshot' \in [Writers -> 0..MaxEvents]
    BY <1>1, <1>2, LogBoundsAssumption DEF LogTypes
  <1>9. LogTypes'
    BY <1>4, <1>5, <1>6, <1>7, <1>8 DEF LogTypes
  <1> QED BY <1>3, <1>6, <1>7, <1>9, LogBoundsAssumption

(* A step that is not a writer's transaction.                              *)
LogKept ==
    /\ UNCHANGED <<log, spent>>
    /\ \A w \in Writers :
         wpc'[w] \in {"counted", "inserting"} =>
             wpc'[w] = wpc[w] /\ draft'[w] = draft[w] /\ snapshot'[w] = snapshot[w]

(* and whatever leaves the log alone.                                      *)
LEMMA KeptTypes ==
  ASSUME LogTypes, LogKept, faults' \in 0..MaxFaults,
         wpc' \in [Writers -> {"idle", "counted", "inserting", "committed", "publishing"}],
         draft' \in [Writers -> Events \cup {NoEvent}],
         snapshot' \in [Writers -> 0..MaxEvents]
  PROVE  LogTypes'
  <1>1. Pending' \in SUBSET Pending
    BY DEF LogKept, Pending
  <1>2. Cardinality(Pending') <= Cardinality(Pending)
    BY <1>1, PendingFinite, FS_Subset
  <1>3. Len(log') + Cardinality(Pending') <= MaxEvents
    BY <1>2, PendingFinite, PendingFinite2, LogBoundsAssumption DEF LogTypes, LogKept
  <1>4. DraftTypes'
    BY DEF LogTypes, DraftTypes, Pending, LogKept
  <1> QED BY <1>3, <1>4 DEF LogTypes, LogKept

(* Which steps those are.                                                  *)
BusStep ==
    \/ \E w \in Writers : Publish(w) \/ (\E c \in Connections : Send(w, c)) \/ Return(w)
    \/ \E v \in Viewers : Connect(v)
    \/ \E v \in Dashboards : Refuse(v) \/ AnswerRefused(v)
    \/ \E c \in Connections : Serve(c) \/ HangUp(c) \/ Drop(c)
    \/ Restart
    \/ UNCHANGED vars

(* The bus, the viewers and restarts leave the log alone.                  *)
LEMMA BusStepKeepsLog ==
  ASSUME LogTypes, BusStep
  PROVE  LogKept /\ LogTypes'
  <1>1. CASE \E w \in Writers : Publish(w) \/ (\E c \in Connections : Send(w, c)) \/ Return(w)
    <2>1. PICK w \in Writers : Publish(w) \/ (\E c \in Connections : Send(w, c)) \/ Return(w)
      BY <1>1
    <2>2. /\ UNCHANGED <<log, spent, draft, snapshot, faults>>
          /\ wpc' = wpc \/ wpc' = [wpc EXCEPT ![w] = "publishing"] \/ wpc' = [wpc EXCEPT ![w] = "idle"]
      BY <2>1 DEF Publish, Send, Return, WriterMoves, logVars
    <2>3. LogKept
      BY <2>2 DEF LogKept, LogTypes
    <2> QED BY <2>2, <2>3, KeptTypes DEF LogTypes
  <1>2. CASE \E v \in Viewers : Connect(v)
    <2>1. UNCHANGED <<logVars, faults>>
      BY <1>2 DEF Connect, Joins
    <2> QED BY <2>1, KeptTypes DEF LogKept, LogTypes, logVars
  <1>3. CASE \/ \E c \in Connections : Serve(c) \/ HangUp(c) \/ Drop(c)
             \/ \E v \in Dashboards : Refuse(v) \/ AnswerRefused(v)
    <2>1. UNCHANGED logVars /\ (faults' = faults \/ (faults < MaxFaults /\ faults' = faults + 1))
      BY <1>3 DEF Serve, HangUp, Drop, Refuse, AnswerRefused
    <2>2. faults' \in 0..MaxFaults
      BY <2>1, LogBoundsAssumption DEF LogTypes
    <2> QED BY <2>1, <2>2, KeptTypes DEF LogKept, LogTypes, logVars
  <1>4. CASE Restart
    <2>1. /\ UNCHANGED <<log, spent>>
          /\ wpc' = [w \in Writers |-> IF w \in Daemon THEN "idle" ELSE wpc[w]]
          /\ draft' = [w \in Writers |-> IF w \in Daemon THEN NoEvent ELSE draft[w]]
          /\ snapshot' = [w \in Writers |-> IF w \in Daemon THEN 0 ELSE snapshot[w]]
          /\ faults < MaxFaults /\ faults' = faults + 1
      BY <1>4 DEF Restart
    <2>2. LogKept
      BY <2>1 DEF LogKept
    <2>3. faults' \in 0..MaxFaults
      BY <2>1, LogBoundsAssumption DEF LogTypes
    <2> QED BY <2>1, <2>2, <2>3, KeptTypes, LogBoundsAssumption DEF LogTypes
  <1>5. CASE UNCHANGED vars
    BY <1>5, KeptTypes DEF vars, LogKept, LogTypes, logVars
  <1> QED BY <1>1, <1>2, <1>3, <1>4, <1>5 DEF BusStep

(* What the bus keeps stays well typed as the log grows.                   *)
LEMMA GrowingLog ==
  ASSUME LogTypes, BusTypes, NEW w \in Writers,
         WriteEventThenRow(w) \/ RecordCost(w) \/ CountKey(w)
           \/ WriteEventIdempotent(w) \/ Commit(w) \/ Fail(w)
  PROVE  /\ log' = log \/ (Commit(w) /\ log' = Append(log, draft[w]) /\ draft[w] \in Events)
         /\ Len(log') \in Nat /\ Len(log) <= Len(log')
         /\ \A u \in Writers \ {w} : wpc'[u] = wpc[u]
         /\ wpc'[w] \in {"committed", "publishing"} => Commit(w)
  <1>1. CASE Commit(w)
    <2>1. draft[w] \in Events
      BY <1>1 DEF Commit, LogTypes, DraftTypes, Pending
    <2> QED BY <1>1, <2>1, Appended DEF Commit, Committed, LogTypes
  <1>2. CASE Fail(w)
    BY <1>2 DEF Fail, WriterMoves, LogTypes
  <1>3. CASE CountKey(w)
    BY <1>3 DEF CountKey, WriterMoves, LogTypes
  <1>4. CASE WriteEventThenRow(w) \/ RecordCost(w) \/ WriteEventIdempotent(w)
    <2>1. PICK from, e : Begin(w, from, e)
      BY <1>4 DEF WriteEventThenRow, RecordCost, WriteEventIdempotent
    <2>2. log' = log /\ wpc' = [wpc EXCEPT ![w] = "inserting"]
      BY <2>1 DEF Begin, WriterMoves
    <2> QED BY <2>2 DEF LogTypes
  <1> QED BY <1>1, <1>2, <1>3, <1>4

LogStep(w) ==
    InLog(w, \/ WriteEventThenRow(w) \/ RecordCost(w) \/ CountKey(w)
             \/ WriteEventIdempotent(w) \/ Commit(w) \/ Fail(w))

(* A step is a writer's in the log, or one of the bus.                     *)
LEMMA Steps == [Next]_vars => (\E w \in Writers : LogStep(w)) \/ BusStep
  BY DEF Next, Start, Proceed, LogStep, InLog, BusStep

(* The steps in the log keep the bus's types.                              *)
LEMMA LogStepBusTypes ==
  ASSUME Types, Numbered, NEW w \in Writers, LogStep(w)
  PROVE  BusTypes'
  <1>1. /\ log' = log \/ (Commit(w) /\ log' = Append(log, draft[w]) /\ draft[w] \in Events)
        /\ Len(log) \in Nat /\ Len(log') \in Nat /\ Len(log) <= Len(log')
        /\ \A u \in Writers \ {w} : wpc'[u] = wpc[u]
        /\ wpc'[w] \in {"committed", "publishing"} => Commit(w)
    BY GrowingLog DEF Types, LogStep, InLog, LogTypes
  <1>2. /\ place' = IF log' = log THEN place ELSE [place EXCEPT ![w] = Len(log')]
        /\ UNCHANGED <<receivers, serving, client, channel, streams, failed, taken, shown>>
    BY DEF LogStep, InLog, connectionVars, viewVars
  <1>3. Positions \subseteq Positions'
    BY <1>1 DEF Positions
  <1>4. Seq(Positions) \subseteq Seq(Positions')
    BY <1>3, SeqMonotonic
  <1>5. Commit(w) => log' # log /\ Len(log') = Len(log) + 1
    <2>1. Commit(w) => draft[w] \in Events /\ log' = Append(log, draft[w])
      BY DEF Commit, Committed, Types, LogTypes, DraftTypes, Pending
    <2> QED BY <2>1, Appended DEF Types, LogTypes
  <1>6. Len(log') <= MaxEvents
    <2>1. CASE Commit(w)
      BY <2>1, <1>1, <1>5, EndTypes DEF Types
    <2>2. CASE ~Commit(w)
      BY <2>2, <1>1, PendingFinite, LogBoundsAssumption DEF Types, LogTypes
    <2> QED BY <2>1, <2>2
  <1>7. /\ place' \in [Writers -> 0..MaxEvents]
        /\ \A u \in Writers : wpc'[u] \in {"committed", "publishing"} => place'[u] \in Positions'
    <2>1. /\ place \in [Writers -> 0..MaxEvents]
          /\ \A u \in Writers : wpc[u] \in {"committed", "publishing"} => place[u] \in Positions
      BY DEF Types, BusTypes
    <2> QED BY <1>1, <1>2, <1>3, <1>5, <1>6, <2>1, LogBoundsAssumption DEF Positions
  <1> QED BY <1>2, <1>4, <1>7 DEF Types, BusTypes

(* What is left when the first element of a queue is taken.                *)
LEMMA TakenFrom ==
  ASSUME NEW S, NEW q \in Seq(S), q # <<>>
  PROVE  /\ Head(q) \in S /\ Tail(q) \in Seq(S) /\ Len(Tail(q)) = Len(q) - 1
         /\ Head(q) = q[1] /\ Len(q) \in Nat \ {0}
         /\ \A i \in 1..Len(Tail(q)) : Tail(q)[i] = q[i + 1]
  BY HeadTailProperties, EmptySeq

(* The steps of the bus keep them too.                                     *)
LEMMA BusStepBusTypes == Types /\ BusStep => BusTypes'
  <1> SUFFICES ASSUME Types, BusStep PROVE BusTypes'
    OBVIOUS
  <1>1. log' = log /\ Positions' = Positions
    BY BusStepKeepsLog DEF Types, LogKept, Positions
  <1> USE <1>1
  <1> USE DEF Types, BusTypes
  <1>2. ASSUME NEW w \in Writers, Publish(w) PROVE BusTypes'
    BY <1>2 DEF Publish, WriterMoves, connectionVars, viewVars, LogTypes
  <1>3. ASSUME NEW w \in Writers, NEW c \in Connections, Send(w, c) PROVE BusTypes'
    <2>1. /\ place[w] \in Positions
          /\ UNCHANGED <<wpc, place, serving, client, viewVars>>
          /\ receivers' = [receivers EXCEPT ![w] = @ \ {c}]
      BY <1>3 DEF Send, logVars
    <2>2. channel' = channel \/ (channel' = [channel EXCEPT ![c] = Append(@, place[w])]
                                  /\ Len(channel[c]) < Capacity)
      BY <1>3 DEF Send, Offer
    <2>3. /\ Append(channel[c], place[w]) \in Seq(Positions)
          /\ Len(Append(channel[c], place[w])) = Len(channel[c]) + 1
      BY <2>1, AppendProperties
    <2>4. Len(channel[c]) \in Nat
      BY LenProperties
    <2>5. /\ channel' \in [Connections -> Seq(Positions)]
          /\ \A d \in Connections : Len(channel'[d]) <= Capacity
      <3>1. CASE channel' = channel
        BY <3>1
      <3>2. CASE channel' # channel
        <4>1. /\ channel'[c] = Append(channel[c], place[w]) /\ Len(channel[c]) < Capacity
              /\ \A d \in Connections \ {c} : channel'[d] = channel[d]
              /\ channel' \in [Connections -> Seq(Positions)]
          BY <2>2, <2>3, <3>2
        <4>2. Len(channel'[c]) <= Capacity
          BY <4>1, <2>3, <2>4, ConnectionAssumption
        <4> QED BY <4>1, <4>2
      <3> QED BY <3>1, <3>2
    <2> QED BY <2>1, <2>5 DEF viewVars
  <1>4. ASSUME NEW w \in Writers, Return(w) PROVE BusTypes'
    BY <1>4, LogBoundsAssumption DEF Return, connectionVars, viewVars, LogTypes
  <1>5. ASSUME NEW v \in Viewers, Connect(v) PROVE BusTypes'
    <2>1. /\ UNCHANGED <<wpc, place, receivers, viewVars>> /\ FreeConnection \in Free
          /\ serving' = serving \cup {FreeConnection}
          /\ client' = [client EXCEPT ![FreeConnection] = v]
          /\ channel' = [channel EXCEPT ![FreeConnection] = <<>>]
      BY <1>5 DEF Connect, CanConnect, Joins, busVars, logVars, FreeConnection
    <2>2. FreeConnection \in Connections
      BY <2>1 DEF Free
    <2>3. <<>> \in Seq(Positions) /\ Len(<<>>) = 0
      BY EmptySeq
    <2> QED BY <2>1, <2>2, <2>3, ConnectionAssumption DEF viewVars
  <1>6. ASSUME NEW c \in Connections, Serve(c) PROVE BusTypes'
    <2>1. /\ Head(channel[c]) \in Positions /\ Tail(channel[c]) \in Seq(Positions)
          /\ Len(channel[c]) \in Nat /\ Len(Tail(channel[c])) = Len(channel[c]) - 1
      BY <1>6, TakenFrom DEF Serve
    <2>2. /\ UNCHANGED <<wpc, place, receivers, serving>>
          /\ channel' = [channel EXCEPT ![c] = Tail(@)]
      BY <1>6 DEF Serve, busVars, logVars
    <2>3. /\ client' = client \/ client' = [client EXCEPT ![c] = NoViewer]
          /\ UNCHANGED <<streams, failed>>
          /\ \/ UNCHANGED <<taken, shown>>
             \/ /\ client[c] \in Viewers
                /\ taken' = [taken EXCEPT ![client[c]] = Append(@, Head(channel[c]))]
                /\ \/ shown' = shown
                   \/ shown' = [shown EXCEPT ![client[c]] = Append(@, Head(channel[c]))]
      BY <1>6 DEF Serve, Receive, PrintEvent, TakeOneEvent, viewVars
    <2>4. \A s \in Seq(Positions) : Append(s, Head(channel[c])) \in Seq(Positions)
      BY <2>1, AppendProperties
    <2>5. taken' \in [Viewers -> Seq(Positions)] /\ shown' \in [Viewers -> Seq(Positions)]
      <3>1. /\ Append(taken[client[c]], Head(channel[c])) \in Seq(Positions) \/ client[c] \notin Viewers
            /\ Append(shown[client[c]], Head(channel[c])) \in Seq(Positions) \/ client[c] \notin Viewers
        BY <2>4
      <3> QED BY <2>3, <3>1
    <2>6. \A d \in Connections : Len(channel'[d]) <= Capacity
      BY <2>1, <2>2, ConnectionAssumption
    <2> QED BY <2>1, <2>2, <2>3, <2>5, <2>6
  <1>7. ASSUME NEW c \in Connections, HangUp(c) \/ Drop(c) PROVE BusTypes'
    BY <1>7 DEF HangUp, Drop, GetErrMsg, busVars, logVars, viewVars
  <1>8. CASE Restart
    <2>1. <<>> \in Seq(Positions) /\ Len(<<>>) = 0
      BY EmptySeq
    <2> QED BY <1>8, <2>1, LogBoundsAssumption, ConnectionAssumption DEF Restart, GetErrMsg,
       LogTypes
  <1>9. CASE UNCHANGED vars
    BY <1>9 DEF vars, logVars, busVars, connectionVars, viewVars
  <1>10. ASSUME NEW v \in Dashboards, Refuse(v) \/ AnswerRefused(v) PROVE BusTypes'
    <2>1. /\ UNCHANGED <<wpc, place, receivers, serving, client, channel, taken, shown>>
          /\ failed' = failed \cup ({v} \cap Dashboards)
          /\ streams' = streams \/ (streams[v] < MaxStreams /\ streams' = [streams EXCEPT ![v] = @ + 1])
      BY <1>10 DEF Refuse, AnswerRefused, GetErrMsg, logVars, busVars, connectionVars
    <2>2. v \in Viewers /\ (streams[v] < MaxStreams => streams[v] + 1 \in 1..MaxStreams)
      BY StreamsAssumption, ViewerAssumption
    <2>3. streams' \in [Viewers -> 1..MaxStreams]
      BY <2>1, <2>2
    <2> QED BY <2>1, <2>3
  <1> QED BY <1>2, <1>3, <1>4, <1>5, <1>6, <1>7, <1>8, <1>9, <1>10 DEF BusStep

LEMMA TypesKept == Types /\ Numbered /\ [Next]_vars => Types'
  <1> SUFFICES ASSUME Types, Numbered, [Next]_vars PROVE Types'
    OBVIOUS
  <1>1. CASE BusStep
    BY <1>1, BusStepKeepsLog, BusStepBusTypes DEF Types
  <1>2. CASE \E w \in Writers : LogStep(w)
    <2>1. PICK w \in Writers : LogStep(w)
      BY <1>2
    <2>2. LogTypes'
      BY <2>1, WriteTypes, CountTypes, EndTypes DEF LogStep, InLog, Types
    <2> QED BY <2>1, <2>2, LogStepBusTypes DEF Types
  <1> QED BY <1>1, <1>2, Steps
-----------------------------------------------------------------------------
(***************************************************************************)
(* Numbers, keys and totals.                                               *)
(***************************************************************************)
LEMMA LatestIs ==
  ASSUME NEW S \in SUBSET Nat, NEW i \in S, \A k \in S : k <= i
  PROVE  (CHOOSE m \in S : \A k \in S : k <= m) = i
  <1> DEFINE m == CHOOSE m \in S : \A k \in S : k <= m
  <1>1. m \in S /\ \A k \in S : k <= m
    OBVIOUS
  <1>2. m \in Nat /\ i \in Nat /\ m <= i /\ i <= m
    BY <1>1
  <1> QED BY <1>2

(* The total depends on nothing but the log and the set of cost events.    *)
LastTotal(events, S) ==
    IF S = {} THEN 0 ELSE events[CHOOSE i \in S : \A k \in S : k <= i].total

(* The total before a position is the last one of the run's costs before it. *)
LEMMA TotalIs ==
  ASSUME NEW r, NEW j
  PROVE  /\ TotalBefore(r, j) = LastTotal(log, CostsBefore(r, j))
         /\ TotalBefore(r, j)' = LastTotal(log', CostsBefore(r, j)')
  BY DEF TotalBefore, LastTotal

LEMMA InitLogInv == Init => LogInv
  <1> SUFFICES ASSUME Init PROVE NumberInv /\ KeyedOnce /\ LastCost /\ TotalsAddUp
    BY DEF LogInv
  <1>1. /\ log = <<>> /\ Len(log) = 0 /\ 1..Len(log) = {}
        /\ spent = [r \in Runs |-> 0] /\ \A w \in Writers : wpc[w] = "idle"
    BY DEF Init, LogInit
  <1>2. \A r \in Runs : SequencesOf(r) = 1..0
    BY <1>1 DEF SequencesOf
  <1>3. NumberInv
    <2>1. 0 \in 0..Len(log)
      BY <1>1
    <2>2. Numbered
      BY <1>2, <2>1 DEF Numbered
    <2>3. InOrder /\ DraftInv
      BY <1>1 DEF InOrder, DraftInv
    <2> QED BY <2>2, <2>3 DEF NumberInv
  <1>4. \A r : CostsBefore(r, 1) = {}
    BY DEF CostsBefore
  <1>5. LastCost /\ TotalsAddUp
    BY <1>1, <1>4 DEF LastCost, TotalsAddUp, TotalBefore
  <1> QED BY <1>1, <1>3, <1>5 DEF KeyedOnce

(* A transaction that reads now, reads what is true now.                   *)
ReadsNow(w) ==
    /\ snapshot'[w] = Len(log)
    /\ draft'[w].seq = NextSequence(draft'[w].run)
    /\ draft'[w].total = TotalOf(draft'[w])

(* A step that does not commit keeps the log's invariant if drafts are fresh. *)
LEMMA SameLog ==
  ASSUME LogInv, log \in Seq(Events), UNCHANGED <<log, spent>>,
         \A w \in Writers : wpc'[w] = "inserting" =>
            \/ wpc[w] = "inserting" /\ draft'[w] = draft[w] /\ snapshot'[w] = snapshot[w]
            \/ ReadsNow(w)
  PROVE  LogInv'
  <1>1. \A r : SequencesOf(r)' = SequencesOf(r)
    BY DEF SequencesOf
  <1>2. \A r : NextSequence(r)' = NextSequence(r)
    BY <1>1 DEF NextSequence
  <1>3. \A r, j : CostsBefore(r, j)' = CostsBefore(r, j)
    BY DEF CostsBefore
  <1>4. \A r, j : TotalBefore(r, j)' = TotalBefore(r, j)
    BY <1>3, TotalIs
  <1>5. Numbered' /\ InOrder'
    BY <1>1 DEF LogInv, NumberInv, Numbered, InOrder
  <1>6. DraftInv'
    <2> SUFFICES ASSUME NEW w \in Writers, wpc'[w] = "inserting"
                 PROVE  /\ snapshot'[w] <= Len(log)
                        /\ snapshot'[w] = Len(log) =>
                             /\ draft'[w].seq = NextSequence(draft'[w].run)
                             /\ draft'[w].total = TotalOf(draft'[w])
      BY <1>2 DEF DraftInv, Fresh, TotalOf
    <2>1. CASE ReadsNow(w)
      <3>1. Len(log) \in Nat
        BY LenProperties
      <3> QED BY <2>1, <3>1 DEF ReadsNow
    <2>2. CASE wpc[w] = "inserting" /\ draft'[w] = draft[w] /\ snapshot'[w] = snapshot[w]
      BY <2>2 DEF LogInv, NumberInv, DraftInv, Fresh
    <2> QED BY <2>1, <2>2
  <1>7. KeyedOnce'
    BY DEF LogInv, KeyedOnce
  <1>8. LastCost' /\ TotalsAddUp'
    BY <1>3, <1>4 DEF LogInv, LastCost, TotalsAddUp
  <1> QED BY <1>5, <1>6, <1>7, <1>8 DEF LogInv, NumberInv

(* A transaction that begins reads the log as it is.                       *)
LEMMA BeginKeepsLogInv ==
  ASSUME Types, LogInv, NEW w \in Writers, NEW from, NEW e \in Events, Begin(w, from, e)
  PROVE  LogInv'
  <1>1. ReadsNow(w)
    <2>1. /\ draft'[w].kind = e.kind /\ draft'[w].price = e.price /\ draft'[w].run = e.run
          /\ draft'[w].seq = NextSequence(e.run) /\ draft'[w].total = TotalOf(e)
      BY Begun DEF Types, LogInv, NumberInv
    <2>2. snapshot'[w] = Len(log)
      BY DEF Begin, Types, LogTypes
    <2> QED BY <2>1, <2>2 DEF ReadsNow, TotalOf
  <1>2. \A u \in Writers \ {w} : wpc'[u] = wpc[u] /\ draft'[u] = draft[u] /\ snapshot'[u] = snapshot[u]
    BY DEF Begin, WriterMoves, Types, LogTypes
  <1>3. UNCHANGED <<log, spent>> /\ log \in Seq(Events)
    BY DEF Begin, Types, LogTypes
  <1> QED BY <1>1, <1>2, <1>3, SameLog

(* The event that is committed.                                            *)
LEMMA Committing ==
  ASSUME Types, LogInv, NEW w \in Writers, Commit(w)
  PROVE  /\ draft[w] \in Events /\ log' = Append(log, draft[w])
         /\ spent' = [spent EXCEPT ![draft[w].run] = @ + draft[w].price]
         /\ draft[w].run \in Runs /\ draft[w].price \in Nat
         /\ draft[w].kind = "state" => draft[w].price = 0
         /\ draft[w].seq = NextSequence(draft[w].run) /\ draft[w].total = TotalOf(draft[w])
  <1>1. draft[w] \in Events /\ (draft[w].kind = "state" => draft[w].price = 0)
    BY DEF Commit, Types, LogTypes, DraftTypes, Pending
  <1>2. draft[w].run \in Runs /\ draft[w].price \in Prices \cup {0}
    BY <1>1 DEF Events
  <1>3. draft[w].price \in Nat
    BY <1>2, PriceType
  <1> QED BY <1>1, <1>2, <1>3 DEF Commit, Committed, LogInv, NumberInv, DraftInv

(* A commit continues the numbering of its run,                            *)
LEMMA CommitNumbers ==
  ASSUME Types, LogInv, NEW w \in Writers, Commit(w)
  PROVE  NumberInv'
  <1> DEFINE e == draft[w]
  <1>1. /\ e \in Events /\ e.run \in Runs /\ log' = Append(log, e) /\ log \in Seq(Events)
        /\ e.seq = NextSequence(e.run)
    BY Committing DEF Types, LogTypes
  <1>2. /\ Len(log) \in Nat /\ Len(log') = Len(log) + 1 /\ log'[Len(log) + 1] = e
        /\ \A i \in 1..Len(log) : log'[i] = log[i]
    BY <1>1, Appended
  <1>3. PICK n \in 0..Len(log) : SequencesOf(e.run) = 1..n
    BY <1>1 DEF LogInv, NumberInv, Numbered
  <1>4. n \in Nat /\ e.seq = n + 1
    BY <1>1, <1>2, <1>3, NextIs
  <1>5. Numbered'
    <2> SUFFICES ASSUME NEW r \in Runs PROVE \E m \in 0..Len(log') : SequencesOf(r)' = 1..m
      BY DEF Numbered
    <2>1. SequencesOf(r)' = IF e.run = r THEN SequencesOf(r) \cup {e.seq} ELSE SequencesOf(r)
      BY <1>1, AppendedSequences
    <2>2. CASE e.run = r
      <3>1. SequencesOf(r)' = 1..(n + 1)
        BY <1>3, <1>4, <2>1, <2>2
      <3> QED BY <1>2, <1>4, <3>1
    <2>3. CASE e.run # r
      <3>1. PICK m \in 0..Len(log) : SequencesOf(r) = 1..m
        BY DEF LogInv, NumberInv, Numbered
      <3> QED BY <1>2, <2>1, <2>3, <3>1
    <2> QED BY <2>2, <2>3
  <1>6. InOrder'
    <2> SUFFICES ASSUME NEW i \in 1..Len(log'), NEW j \in 1..Len(log'),
                        i < j, log'[i].run = log'[j].run
                 PROVE  log'[i].seq < log'[j].seq
      BY DEF InOrder
    <2>1. i \in 1..Len(log) /\ log'[i] = log[i]
      BY <1>2
    <2>2. CASE j \in 1..Len(log)
      BY <1>2, <2>1, <2>2 DEF LogInv, NumberInv, InOrder
    <2>3. CASE j = Len(log) + 1
      <3>1. log[i].seq \in SequencesOf(e.run)
        BY <1>2, <2>1, <2>3 DEF SequencesOf
      <3>2. log[i].seq \in 1..n
        BY <1>3, <3>1
      <3> QED BY <1>2, <1>4, <2>1, <2>3, <3>2
    <2> QED BY <1>2, <2>2, <2>3
  <1>7. DraftInv'
    <2> SUFFICES ASSUME NEW u \in Writers, wpc'[u] = "inserting"
                 PROVE  snapshot'[u] \in Nat /\ snapshot'[u] < Len(log')
      BY <1>2 DEF DraftInv, Fresh
    <2>1. wpc[u] = "inserting" /\ snapshot'[u] = snapshot[u]
      BY DEF Commit, Committed, Closed, Types, LogTypes
    <2>2. snapshot[u] \in Nat /\ snapshot[u] <= Len(log)
      BY <2>1, LogBoundsAssumption DEF LogInv, NumberInv, DraftInv, Types, LogTypes
    <2> QED BY <1>2, <2>1, <2>2
  <1> QED BY <1>5, <1>6, <1>7 DEF NumberInv

(* repeats no key, since the column is UNIQUE,                             *)
LEMMA CommitKeys ==
  ASSUME Types, LogInv, NEW w \in Writers, Commit(w)
  PROVE  KeyedOnce'
  <1> DEFINE e == draft[w]
  <1>1. e \in Events /\ log' = Append(log, e) /\ log \in Seq(Events)
    BY Committing DEF Types, LogTypes
  <1>2. /\ Len(log) \in Nat /\ Len(log') = Len(log) + 1 /\ log'[Len(log) + 1] = e
        /\ \A i \in 1..Len(log) : log'[i] = log[i]
    BY <1>1, Appended
  <1>3. e.key = NoKey \/ \A i \in 1..Len(log) : log[i].key # e.key
    BY DEF Commit, Fits, HasKey
  <1> HIDE DEF e
  <1>4. 1..Len(log') = (1..Len(log)) \cup {Len(log) + 1}
    BY <1>2
  <1> QED BY <1>2, <1>3, <1>4 DEF LogInv, KeyedOnce

(* and carries the total that is due.                                      *)
LEMMA CommitTotals ==
  ASSUME Types, LogInv, NEW w \in Writers, Commit(w)
  PROVE  LastCost' /\ TotalsAddUp'
  <1>0. PICK e, n : e = draft[w] /\ n = Len(log)
    OBVIOUS
  <1> DEFINE new(r) == IF e.kind = "cost" /\ e.run = r THEN {n + 1} ELSE {}
  <1>1. /\ e \in Events /\ e.run \in Runs /\ log' = Append(log, e) /\ log \in Seq(Events)
        /\ e.price \in Nat /\ (e.kind = "state" => e.price = 0) /\ e.kind \in {"state", "cost"}
        /\ e.total = TotalOf(e)
        /\ spent' = [spent EXCEPT ![e.run] = @ + e.price] /\ spent \in [Runs -> Nat]
    BY <1>0, Committing DEF Types, LogTypes, Events
  <1>2. /\ n \in Nat /\ Len(log') = n + 1 /\ log'[n + 1] = e
        /\ \A i \in 1..n : log'[i] = log[i]
    BY <1>0, <1>1, Appended
  <1>3. \A r, j : CostsBefore(r, j) \in SUBSET Nat /\ CostsBefore(r, j)' \in SUBSET Nat
    BY DEF CostsBefore
  <1>4. ASSUME NEW r, NEW j \in 1..(n + 1) PROVE CostsBefore(r, j)' = CostsBefore(r, j)
    BY <1>2, <1>4 DEF CostsBefore
  <1>5. ASSUME NEW r PROVE CostsBefore(r, n + 2)' = CostsBefore(r, n + 1) \cup new(r)
    <2>1. 1..(n + 2 - 1) = (1..(n + 1 - 1)) \cup {n + 1} /\ n + 1 - 1 = n
      BY <1>2
    <2> QED BY <1>2, <2>1 DEF CostsBefore
  <1>6. LastCost'
    <2> SUFFICES ASSUME NEW r \in Runs, NEW j \in 1..(n + 2)
                 PROVE  \/ CostsBefore(r, j)' = {}
                        \/ \E i \in CostsBefore(r, j)' : \A k \in CostsBefore(r, j)' : k <= i
      BY <1>2 DEF LastCost
    <2>1. CASE j \in 1..(n + 1)
      <3>1. \/ CostsBefore(r, j) = {}
            \/ \E i \in CostsBefore(r, j) : \A k \in CostsBefore(r, j) : k <= i
        BY <1>0, <2>1 DEF LogInv, LastCost
      <3> QED BY <1>4, <2>1, <3>1
    <2>2. CASE j = n + 2
      <3>1. \/ CostsBefore(r, n + 1) = {}
            \/ \E i \in CostsBefore(r, n + 1) : \A k \in CostsBefore(r, n + 1) : k <= i
        BY <1>0, <1>2 DEF LogInv, LastCost
      <3>2. \A k \in CostsBefore(r, n + 1) : k <= n + 1
        BY <1>2 DEF CostsBefore
      <3>3. CASE new(r) = {n + 1}
        BY <1>2, <1>5, <2>2, <3>2, <3>3
      <3>4. CASE new(r) = {}
        BY <1>5, <2>2, <3>1, <3>4
      <3> QED BY <3>3, <3>4
    <2> QED BY <1>2, <2>1, <2>2
  <1>7. ASSUME NEW r \in Runs, NEW j \in 1..(n + 1)
        PROVE  TotalBefore(r, j)' = TotalBefore(r, j)
    <2>1. CASE CostsBefore(r, j) = {}
      BY <1>4, <1>7, <2>1 DEF TotalBefore
    <2>2. CASE CostsBefore(r, j) # {}
      <3>1. PICK i \in CostsBefore(r, j) : \A k \in CostsBefore(r, j) : k <= i
        BY <1>0, <1>7, <2>2 DEF LogInv, LastCost
      <3>2. (CHOOSE m \in CostsBefore(r, j) : \A k \in CostsBefore(r, j) : k <= m) = i
        BY <1>3, <3>1, LatestIs
      <3>3. CostsBefore(r, j)' = CostsBefore(r, j)
        BY <1>4, <1>7
      <3>4. i \in 1..n
        BY <1>2, <1>7, <3>1 DEF CostsBefore
      <3>5. TotalBefore(r, j) = log[i].total
        BY <2>2, <3>2 DEF TotalBefore
      <3>6. TotalBefore(r, j)' = log'[i].total
        BY <2>2, <3>2, <3>3 DEF TotalBefore
      <3> QED BY <1>2, <3>4, <3>5, <3>6
    <2> QED BY <2>1, <2>2
  <1>8. ASSUME NEW r \in Runs PROVE spent[r] = TotalBefore(r, n + 1)
    BY <1>0, <1>8 DEF LogInv, TotalsAddUp
  <1>9. ASSUME NEW r \in Runs PROVE spent'[r] = TotalBefore(r, n + 2)'
    <2>1. CASE e.kind = "cost" /\ e.run = r
      <3>1. CostsBefore(r, n + 2)' = CostsBefore(r, n + 1) \cup {n + 1}
        BY <1>5, <2>1
      <3>2. \A k \in CostsBefore(r, n + 2)' : k <= n + 1
        BY <1>2, <3>1 DEF CostsBefore
      <3>3. (CHOOSE m \in CostsBefore(r, n + 2)' : \A k \in CostsBefore(r, n + 2)' : k <= m) = n + 1
        BY <1>3, <3>1, <3>2, LatestIs
      <3>4. TotalBefore(r, n + 2)' = e.total
        BY <1>2, <3>1, <3>3 DEF TotalBefore
      <3>5. e.total = spent[r] + e.price
        BY <1>1, <2>1 DEF TotalOf
      <3> QED BY <1>1, <2>1, <3>4, <3>5
    <2>2. CASE ~(e.kind = "cost" /\ e.run = r)
      <3>1. CostsBefore(r, n + 2)' = CostsBefore(r, n + 1)
        BY <1>5, <2>2
      <3>2. CostsBefore(r, n + 1)' = CostsBefore(r, n + 1)
        BY <1>2, <1>4
      <3>3. TotalBefore(r, n + 2)' = TotalBefore(r, n + 1)'
        BY <3>1, <3>2, TotalIs
      <3>4. TotalBefore(r, n + 1)' = TotalBefore(r, n + 1)
        BY <1>2, <1>7
      <3>5. spent'[r] = spent[r]
        BY <1>1, <2>2
      <3> QED BY <1>8, <3>3, <3>4, <3>5
    <2> QED BY <2>1, <2>2
  <1>10. ASSUME NEW j \in 1..(n + 1), NEW r, r = log'[j].run, log'[j].kind = "cost"
         PROVE  log'[j].total = TotalBefore(r, j)' + log'[j].price
    <2>1. CASE j \in 1..n
      <3>1. log[j] \in Events
        BY <1>0, <1>1, <2>1, ElementOfSeq
      <3>2. r \in Runs /\ r = log[j].run
        BY <1>2, <1>10, <2>1, <3>1 DEF Events
      <3>3. log[j].total = TotalBefore(r, j) + log[j].price
        BY <1>0, <1>2, <1>10, <2>1, <3>2 DEF LogInv, TotalsAddUp
      <3>4. TotalBefore(r, j)' = TotalBefore(r, j)
        BY <1>2, <1>7, <2>1, <3>2
      <3> QED BY <1>2, <2>1, <3>3, <3>4
    <2>2. CASE j = n + 1
      <3>1. r = e.run /\ r \in Runs
        BY <1>1, <1>2, <1>10, <2>2
      <3>2. TotalBefore(r, n + 1)' = spent[r]
        BY <1>2, <1>7, <1>8, <3>1
      <3> QED BY <1>1, <1>2, <1>10, <2>2, <3>1, <3>2 DEF TotalOf
    <2> QED BY <1>2, <2>1, <2>2
  <1>11. TotalsAddUp'
    <2>1. Len(log') = n + 1 /\ Len(log') + 1 = n + 2
      BY <1>2
    <2> QED BY <1>9, <1>10, <2>1 DEF TotalsAddUp
  <1> QED BY <1>6, <1>11

LEMMA LogInvKept == Types /\ LogInv /\ [Next]_vars => LogInv'
  <1> SUFFICES ASSUME Types, LogInv, [Next]_vars PROVE LogInv'
    OBVIOUS
  <1>1. log \in Seq(Events)
    BY DEF Types, LogTypes
  <1>2. CASE BusStep
    BY <1>1, <1>2, BusStepKeepsLog, SameLog DEF Types, LogKept
  <1>3. ASSUME NEW w \in Writers, LogStep(w) PROVE LogInv'
    <2>1. CASE WriteEventThenRow(w)
      <3>1. PICK r \in Runs : Begin(w, "idle", Event("state", w, r, NoKey, 0))
        BY <2>1 DEF WriteEventThenRow, Called
      <3> QED BY <3>1, EventTypes, BeginKeepsLogInv
    <2>2. CASE RecordCost(w)
      <3>1. PICK r \in Runs, usd \in Prices : Begin(w, "idle", Event("cost", w, r, NoKey, usd))
        BY <2>2 DEF RecordCost, Called
      <3> QED BY <3>1, EventTypes, BeginKeepsLogInv
    <2>3. CASE WriteEventIdempotent(w)
      <3>1. Begin(w, "counted", draft[w]) /\ draft[w] \in Events
        BY <2>3 DEF WriteEventIdempotent, Begin, WriterMoves, Types, LogTypes, DraftTypes, Pending
      <3> QED BY <3>1, BeginKeepsLogInv
    <2>4. CASE CountKey(w)
      <3>1. /\ UNCHANGED <<log, spent, snapshot>> /\ wpc'[w] = "counted"
            /\ \A u \in Writers \ {w} : wpc'[u] = wpc[u] /\ draft'[u] = draft[u]
        BY <2>4 DEF CountKey, WriterMoves, Types, LogTypes
      <3> QED BY <1>1, <3>1, SameLog
    <2>5. CASE Fail(w)
      <3>1. /\ UNCHANGED <<log, spent>> /\ wpc'[w] = "idle"
            /\ \A u \in Writers \ {w} :
                 wpc'[u] = wpc[u] /\ draft'[u] = draft[u] /\ snapshot'[u] = snapshot[u]
        BY <2>5 DEF Fail, WriterMoves, Closed, Types, LogTypes
      <3> QED BY <1>1, <3>1, SameLog
    <2>6. CASE Commit(w)
      BY <2>6, CommitNumbers, CommitKeys, CommitTotals DEF LogInv
    <2> QED BY <1>3, <2>1, <2>2, <2>3, <2>4, <2>5, <2>6 DEF LogStep, InLog
  <1> QED BY <1>2, <1>3, Steps
-----------------------------------------------------------------------------
(* The numbers of a run, in the order of its commits, have no gaps.        *)
LEMMA NumberInvImplies == Types /\ NumberInv => SequenceDense
  <1> SUFFICES ASSUME Types, NumberInv, NEW j \in 1..Len(log)
               PROVE  /\ SequencesOf(log[j].run) \cap (1..log[j].seq) = 1..log[j].seq
                      /\ \A i \in 1..(j - 1) : log[i].run = log[j].run => log[i].seq < log[j].seq
    BY DEF SequenceDense
  <1>1. Len(log) \in Nat /\ log[j] \in Events
    BY ElementOfSeq, LenProperties DEF Types, LogTypes
  <1>2. PICK n \in 0..Len(log) : SequencesOf(log[j].run) = 1..n
    BY <1>1 DEF Events, NumberInv, Numbered
  <1>3. log[j].seq \in 1..n
    BY <1>2 DEF SequencesOf
  <1>4. \A i \in 1..(j - 1) : i \in 1..Len(log) /\ i < j
    BY <1>1
  <1> QED BY <1>1, <1>2, <1>3, <1>4 DEF NumberInv, InOrder

(* Types and the log's invariant together, from the initial states on.     *)
LEMMA LogSafe == Spec => [](Types /\ LogInv)
  <1>1. Types /\ LogInv /\ [Next]_vars => Types' /\ LogInv'
    BY TypesKept, LogInvKept DEF LogInv, NumberInv
  <1> QED BY InitTypes, InitLogInv, <1>1, PTL DEF Spec

(* The values of everything stay in range; in particular no channel holds  *)
(* more than its capacity, and every position a writer, a channel or a     *)
(* viewer holds is one of the log.                                         *)
THEOREM FeedTypeCorrect == Spec => []FeedTypeOK
  <1>1. Types => FeedTypeOK
    <2> SUFFICES ASSUME Types PROVE FeedTypeOK
      OBVIOUS
    <2>1. Len(log) <= MaxEvents
      BY PendingFinite, LogBoundsAssumption, LenProperties DEF Types, LogTypes
    <2> QED BY <2>1 DEF Types, LogTypes, BusTypes, Positions, FeedTypeOK
  <1> QED BY <1>1, LogSafe, PTL

(* Whoever writes, in whatever order transactions begin, commit and fail:  *)
(* the events of a run are numbered 1, 2, 3, ... in the order of the log.  *)
THEOREM EventsNumbered == Spec => []SequenceDense
  <1>1. Types /\ LogInv => SequenceDense
    BY NumberInvImplies DEF LogInv
  <1> QED BY <1>1, LogSafe, PTL

(* However many idempotent writers counted a key before any of them wrote  *)
(* it, the log has one event with it.                                      *)
THEOREM KeysOnce == Spec => []KeyedOnce
  <1>1. LogInv => KeyedOnce
    BY DEF LogInv
  <1> QED BY <1>1, LogSafe, PTL

(* Every cost event carries the total of its run so far, and runs.cost_usd *)
(* is the last of them.                                                    *)
THEOREM CostsAddUp == Spec => []TotalsAddUp
  <1>1. LogInv => TotalsAddUp
    BY DEF LogInv
  <1> QED BY <1>1, LogSafe, PTL
=============================================================================
