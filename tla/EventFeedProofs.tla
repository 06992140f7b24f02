--------------------------- MODULE EventFeedProofs ---------------------------
(***************************************************************************)
(* Proofs about the live view of the log, for any viewers, connections and *)
(* capacity: the feed implements Feed, and a viewer takes nothing twice    *)
(* from one stream.                                                        *)
(***************************************************************************)
EXTENDS EventLogProofs

(* Of the positions in s, those of w's events in log l are before n.       *)
Before(l, s, w, n) == \A i \in 1..Len(s) : l[s[i]].by = w => s[i] < n

(* The events of each writer are in the order of the log.                  *)
Ascending(l, s) ==
    \A i, j \in 1..Len(s) : i < j /\ l[s[i]].by = l[s[j]].by => s[i] < s[j]

(* The connection of a viewer that has one stream has a handler and is the *)
(* viewer's only one.                                                      *)
Sole(c) == client[c] # NoViewer /\ streams[client[c]] = 1

Alone ==
    \A c \in Connections : Sole(c) =>
        /\ c \in serving
        /\ \A d \in Connections : client[d] = client[c] => c = d

(* Until its first error a dashboard has one stream and shows what it      *)
(* takes, and `coworker watch` always.                                     *)
InView == \A v \in Viewers : v \notin failed => streams[v] = 1 /\ shown[v] = taken[v]

(* What a writer publishes is its own event, and only who publishes has    *)
(* receivers.                                                              *)
Published ==
    \A w \in Writers :
        /\ wpc[w] \in {"committed", "publishing"} => log[place[w]].by = w
        /\ receivers[w] # {} => wpc[w] = "publishing"

(* What a channel holds is in each writer's order and newer than what its  *)
(* viewer took.                                                            *)
Newer(l, s, seen) == \A i \in 1..Len(s) : Before(l, seen, l[s[i]].by, s[i])

InChannel ==
    \A c \in Connections :
        /\ Ascending(log, channel[c])
        /\ Sole(c) => Newer(log, channel[c], taken[client[c]])

(* What a viewer took is in each writer's order.                           *)
TakenInOrder == \A v \in Viewers : streams[v] = 1 => Ascending(log, taken[v])

(* What a writer has committed was sent to nobody, and what it publishes   *)
(* not to those it still has to send it to.                                *)
Unsent(w) ==
    /\ \A c \in Connections : Before(log, channel[c], w, place[w])
    /\ \A v \in Viewers : streams[v] = 1 => Before(log, taken[v], w, place[w])

UnsentTo(w, c) ==
    /\ Before(log, channel[c], w, place[w])
    /\ Sole(c) => Before(log, taken[client[c]], w, place[w])

ToSend ==
    \A w \in Writers :
        /\ wpc[w] = "committed" => Unsent(w)
        /\ wpc[w] = "publishing" => \A c \in receivers[w] : UnsentTo(w, c)

FeedInv == Alone /\ InView /\ Published /\ InChannel /\ TakenInOrder /\ ToSend
-----------------------------------------------------------------------------
(* Adding an event older than n keeps the others' order.                   *)
LEMMA BeforeAppended ==
  ASSUME NEW S, NEW s \in Seq(S), NEW m \in S, NEW l, NEW w, NEW n,
         Before(l, s, w, n), l[m].by = w => m < n
  PROVE  Before(l, Append(s, m), w, n)
  BY AppendProperties, LenProperties DEF Before

(* So does taking the first out, which was older than n itself.            *)
LEMMA BeforeTail ==
  ASSUME NEW S, NEW s \in Seq(S), s # <<>>, NEW l, NEW w, NEW n, Before(l, s, w, n)
  PROVE  Before(l, Tail(s), w, n) /\ (l[Head(s)].by = w => Head(s) < n)
  <1>1. /\ Head(s) = s[1] /\ Len(s) \in Nat \ {0} /\ Len(Tail(s)) = Len(s) - 1
        /\ \A i \in 1..Len(Tail(s)) : Tail(s)[i] = s[i + 1]
    BY TakenFrom
  <1>2. (\A i \in 1..Len(Tail(s)) : i + 1 \in 1..Len(s)) /\ 1 \in 1..Len(s)
    BY <1>1
  <1> QED BY <1>1, <1>2 DEF Before

(* A sequence stays ascending when a newer event of a writer is added,     *)
LEMMA AscendingAppended ==
  ASSUME NEW S, NEW s \in Seq(S), NEW m \in S, NEW l, Ascending(l, s), Before(l, s, l[m].by, m)
  PROVE  Ascending(l, Append(s, m))
  <1>1. /\ Len(Append(s, m)) = Len(s) + 1 /\ Append(s, m)[Len(s) + 1] = m /\ Len(s) \in Nat
        /\ \A i \in 1..Len(s) : Append(s, m)[i] = s[i]
    BY AppendProperties, LenProperties
  <1> SUFFICES ASSUME NEW i \in 1..(Len(s) + 1), NEW j \in 1..(Len(s) + 1), i < j,
                      l[Append(s, m)[i]].by = l[Append(s, m)[j]].by
               PROVE  Append(s, m)[i] < Append(s, m)[j]
    BY <1>1 DEF Ascending
  <1>2. i \in 1..Len(s) /\ (j \in 1..Len(s) \/ j = Len(s) + 1)
    BY <1>1
  <1>3. CASE j \in 1..Len(s)
    BY <1>1, <1>2, <1>3 DEF Ascending
  <1>4. CASE j = Len(s) + 1
    BY <1>1, <1>2, <1>4 DEF Before
  <1> QED BY <1>2, <1>3, <1>4

(* or its first is taken out, which is older than the writer's others.     *)
LEMMA AscendingTail ==
  ASSUME NEW S, NEW s \in Seq(S), s # <<>>, NEW l, Ascending(l, s)
  PROVE  /\ Ascending(l, Tail(s))
         /\ \A i \in 1..Len(Tail(s)) : l[Tail(s)[i]].by = l[Head(s)].by => Head(s) < Tail(s)[i]
  <1>1. /\ Head(s) = s[1] /\ Len(s) \in Nat \ {0} /\ Len(Tail(s)) = Len(s) - 1
        /\ \A i \in 1..Len(Tail(s)) : Tail(s)[i] = s[i + 1]
    BY TakenFrom
  <1>2. \A i \in 1..Len(Tail(s)) : i + 1 \in 1..Len(s) /\ 1 < i + 1
    BY <1>1
  <1>3. 1 \in 1..Len(s) /\ \A i, j \in 1..Len(Tail(s)) : i < j => i + 1 < j + 1
    BY <1>1
  <1> QED BY <1>1, <1>2, <1>3 DEF Ascending

(* The first of a channel is newer than what was seen;                     *)
LEMMA NewerTail ==
  ASSUME NEW S, NEW s \in Seq(S), s # <<>>, NEW l, NEW seen, Newer(l, s, seen)
  PROVE  Newer(l, Tail(s), seen) /\ Before(l, seen, l[Head(s)].by, Head(s))
  <1>1. /\ Head(s) = s[1] /\ Len(s) \in Nat \ {0} /\ Len(Tail(s)) = Len(s) - 1
        /\ \A i \in 1..Len(Tail(s)) : Tail(s)[i] = s[i + 1]
    BY TakenFrom
  <1>2. (\A i \in 1..Len(Tail(s)) : i + 1 \in 1..Len(s)) /\ 1 \in 1..Len(s)
    BY <1>1
  <1> QED BY <1>1, <1>2 DEF Newer

(* what is added to it must be, too.                                       *)
LEMMA NewerAppended ==
  ASSUME NEW S, NEW s \in Seq(S), NEW m \in S, NEW l, NEW seen,
         Newer(l, s, seen), Before(l, seen, l[m].by, m)
  PROVE  Newer(l, Append(s, m), seen)
  <1>1. /\ Len(Append(s, m)) = Len(s) + 1 /\ Append(s, m)[Len(s) + 1] = m /\ Len(s) \in Nat
        /\ \A i \in 1..Len(s) : Append(s, m)[i] = s[i]
    BY AppendProperties, LenProperties
  <1>2. \A i \in 1..(Len(s) + 1) : i \in 1..Len(s) \/ i = Len(s) + 1
    BY <1>1
  <1> QED BY <1>1, <1>2 DEF Newer

(* A viewer is shown the first of its channel.                             *)
LEMMA NewerShown ==
  ASSUME NEW S, NEW s \in Seq(S), s # <<>>, NEW seen \in Seq(S), NEW l,
         Newer(l, s, seen), Ascending(l, s)
  PROVE  Newer(l, Tail(s), Append(seen, Head(s)))
  <1>1. Newer(l, Tail(s), seen) /\ Head(s) \in S
    BY NewerTail, TakenFrom
  <1>2. \A i \in 1..Len(Tail(s)) : l[Tail(s)[i]].by = l[Head(s)].by => Head(s) < Tail(s)[i]
    BY AscendingTail
  <1> SUFFICES ASSUME NEW i \in 1..Len(Tail(s))
               PROVE  Before(l, Append(seen, Head(s)), l[Tail(s)[i]].by, Tail(s)[i])
    BY DEF Newer
  <1>3. Before(l, seen, l[Tail(s)[i]].by, Tail(s)[i])
    BY <1>1 DEF Newer
  <1> QED BY <1>1, <1>2, <1>3, BeforeAppended

(* An empty channel is in any order.                                       *)
LEMMA EmptyOrder ==
  ASSUME NEW s, s = <<>>
  PROVE  /\ \A l : Ascending(l, s)
         /\ \A l, seen : Newer(l, s, seen)
         /\ \A l, w, n : Before(l, s, w, n)
  BY DEF Ascending, Newer, Before

(* In a longer log the order is the same.                                  *)
LEMMA Longer ==
  ASSUME NEW S, NEW l, NEW k, \A n \in S : k[n] = l[n], NEW s \in Seq(S)
  PROVE  /\ Ascending(l, s) => Ascending(k, s)
         /\ \A w, n : Before(l, s, w, n) => Before(k, s, w, n)
         /\ \A seen \in Seq(S) : Newer(l, s, seen) => Newer(k, s, seen)
  <1>1. \A q \in Seq(S) : \A i \in 1..Len(q) : k[q[i]] = l[q[i]]
    BY ElementOfSeq
  <1>2. Ascending(l, s) => Ascending(k, s)
    BY <1>1 DEF Ascending
  <1>3. \A q \in Seq(S) : \A w, n : Before(l, q, w, n) => Before(k, q, w, n)
    BY <1>1 DEF Before
  <1>4. \A seen \in Seq(S) : Newer(l, s, seen) => Newer(k, s, seen)
    BY <1>1, <1>3 DEF Newer
  <1> QED BY <1>2, <1>3, <1>4

(* A viewer with one stream asks for a connection when it has none.        *)
LEMMA NoneHeld ==
  ASSUME NEW v \in Viewers, Waits(v), streams[v] = 1
  PROVE  \A c \in Connections : client[c] # v
  <1>1. IsFiniteSet(Held(v))
    BY ConnectionAssumption, FS_Subset DEF Held
  <1>2. Cardinality(Held(v)) \in Nat /\ Cardinality(Held(v)) < 1
    BY <1>1, FS_CardinalityType DEF Waits
  <1>3. Held(v) = {}
    BY <1>1, <1>2, FS_EmptySet
  <1> QED BY <1>3 DEF Held

LEMMA InitFeedInv == Init => FeedInv
  <1> SUFFICES ASSUME Init PROVE FeedInv
    OBVIOUS
  <1>1. /\ client = [c \in Connections |-> NoViewer] /\ channel = [c \in Connections |-> <<>>]
        /\ receivers = [w \in Writers |-> {}] /\ \A w \in Writers : wpc[w] = "idle"
        /\ \A v \in Viewers : streams[v] = 1 /\ taken[v] = <<>> /\ shown[v] = <<>>
    BY DEF Init, LogInit
  <1>2. \A c \in Connections : ~Sole(c)
    BY <1>1 DEF Sole
  <1> QED BY <1>1, <1>2, EmptyOrder DEF FeedInv, Alone, InView, Published, InChannel,
          TakenInOrder, ToSend
-----------------------------------------------------------------------------
(* A step of the log moves nothing on its way; a commit is the newest event. *)
LEMMA LogStepKeepsFeedInv ==
  ASSUME Types, Numbered, FeedInv, NEW w \in Writers, LogStep(w)
  PROVE  FeedInv'
  <1>1. /\ UNCHANGED <<receivers, serving, client, channel, streams, failed, taken, shown>>
        /\ place' = IF log' = log THEN place ELSE [place EXCEPT ![w] = Len(log')]
    BY DEF LogStep, InLog, connectionVars, viewVars
  <1>2. /\ \A u \in Writers \ {w} : wpc'[u] = wpc[u] /\ place'[u] = place[u]
        /\ wpc'[w] \in {"committed", "publishing"} => Commit(w)
        /\ wpc[w] \notin {"committed", "publishing"}
    <2>1. wpc[w] \in {"idle", "counted", "inserting"}
      BY DEF LogStep, InLog, WriteEventThenRow, RecordCost, CountKey, WriteEventIdempotent,
             Begin, WriterMoves, Commit, Fail
    <2> QED BY <1>1, <2>1, GrowingLog DEF LogStep, InLog, Types, BusTypes
  <1>3. \A n \in Positions : log'[n] = log[n]
    BY GrowingLog, Appended DEF Types, LogTypes, LogStep, InLog, Positions
  <1>4. /\ \A c \in Connections : channel[c] \in Seq(Positions)
        /\ \A v \in Viewers : taken[v] \in Seq(Positions)
        /\ \A c \in Connections : client[c] # NoViewer => client[c] \in Viewers
    BY DEF Types, BusTypes
  <1>5. Alone' /\ InView' /\ \A c \in Connections : Sole(c)' = Sole(c)
    BY <1>1 DEF FeedInv, Alone, InView, Sole
  <1>6. InChannel' /\ TakenInOrder'
    <2>1. \A c \in Connections : Sole(c) => taken[client[c]] \in Seq(Positions)
      BY <1>4 DEF Sole
    <2> QED BY <1>1, <1>3, <1>4, <1>5, <2>1, Longer DEF FeedInv, InChannel, TakenInOrder
  <1>7. ASSUME Commit(w)
        PROVE  /\ wpc'[w] = "committed" /\ place'[w] = Len(log) + 1 /\ Len(log) \in Nat
               /\ log'[place'[w]].by = draft[w].by
    <2>1. draft[w] \in Events /\ log' = Append(log, draft[w]) /\ wpc' = [wpc EXCEPT ![w] = "committed"]
      BY <1>7 DEF Commit, Committed, Types, LogTypes, DraftTypes, Pending
    <2> QED BY <1>1, <2>1, Appended DEF Types, LogTypes, BusTypes
  <1>8. ToSend'
    <2>1. ASSUME NEW u \in Writers \ {w}, wpc'[u] = "committed" PROVE Unsent(u)'
      BY <1>1, <1>2, <1>3, <1>4, <2>1, Longer DEF FeedInv, ToSend, Unsent
    <2>2. ASSUME NEW u \in Writers \ {w}, wpc'[u] = "publishing", NEW c \in receivers[u]
          PROVE  UnsentTo(u, c)'
      <3>1. c \in Connections /\ UnsentTo(u, c) /\ (Sole(c) => taken[client[c]] \in Seq(Positions))
        BY <1>1, <1>2, <1>4, <2>2 DEF FeedInv, ToSend, Sole, Types, BusTypes
      <3> QED BY <1>1, <1>2, <1>3, <1>4, <1>5, <2>2, <3>1, Longer DEF UnsentTo
    <2>3. ASSUME Commit(w) PROVE Unsent(w)'
      <3>1. \A s \in Seq(Positions) : \A i \in 1..Len(s) : s[i] < place'[w]
        BY <1>7, <2>3, ElementOfSeq DEF Positions
      <3> QED BY <1>1, <1>4, <3>1 DEF Unsent, Before
    <2> QED BY <1>1, <1>2, <1>7, <2>1, <2>2, <2>3 DEF ToSend
  <1>9. Published'
    <2> SUFFICES ASSUME NEW u \in Writers
                 PROVE  /\ wpc'[u] \in {"committed", "publishing"} => log'[place'[u]].by = u
                        /\ receivers[u] # {} => wpc'[u] = "publishing"
      BY <1>1 DEF Published
    <2>1. CASE u # w
      BY <1>2, <1>3, <2>1 DEF FeedInv, Published, Types, BusTypes
    <2>2. CASE u = w
      <3>1. receivers[w] = {}
        BY <1>2 DEF FeedInv, Published
      <3>2. Commit(w) => draft[w].by = w
        BY DEF Commit, Types, LogTypes, DraftTypes, Pending
      <3> QED BY <1>2, <1>7, <2>2, <3>1, <3>2
    <2> QED BY <2>1, <2>2
  <1> QED BY <1>5, <1>6, <1>8, <1>9 DEF FeedInv

(* A step of the bus moves one event of one writer, or drops some.         *)
LEMMA BusStepKeepsFeedInv ==
  ASSUME Types, FeedInv, BusStep
  PROVE  FeedInv'
  <1> USE DEF FeedInv
  <1>1. log' = log
    BY BusStepKeepsLog DEF Types, LogKept
  <1>2. /\ \A c \in Connections : channel[c] \in Seq(Positions)
        /\ \A v \in Viewers : taken[v] \in Seq(Positions)
        /\ \A c \in Connections : client[c] # NoViewer => client[c] \in Viewers
        /\ \A w \in Writers : receivers[w] \subseteq Connections
        /\ \A c \in Connections : Sole(c) => taken[client[c]] \in Seq(Positions)
    BY DEF Sole, Types, BusTypes
  <1>3. ASSUME NEW w \in Writers, Publish(w) PROVE FeedInv'
    <2>1. /\ wpc[w] = "committed" /\ wpc' = [wpc EXCEPT ![w] = "publishing"]
          /\ receivers' = [receivers EXCEPT ![w] = serving]
          /\ UNCHANGED <<place, serving, client, channel, streams, failed, taken, shown>>
      BY <1>3 DEF Publish, WriterMoves, connectionVars, viewVars
    <2>2. Alone' /\ InView' /\ InChannel' /\ TakenInOrder' /\ Published'
      BY <1>1, <2>1 DEF Alone, InView, InChannel, TakenInOrder, Published, Sole,
         Types, LogTypes, BusTypes
    <2>3. ASSUME NEW u \in Writers
          PROVE  /\ wpc'[u] = "committed" => Unsent(u)'
                 /\ wpc'[u] = "publishing" => \A c \in receivers'[u] : UnsentTo(u, c)'
      <3>1. CASE u = w
        <4>1. \A c \in serving : UnsentTo(w, c)
          BY <1>2, <2>1 DEF ToSend, Unsent, UnsentTo, Sole, Types, BusTypes
        <4> QED BY <1>1, <2>1, <3>1, <4>1 DEF UnsentTo, Sole, Types, LogTypes, BusTypes
      <3>2. CASE u # w
        BY <1>1, <2>1, <3>2 DEF ToSend, Unsent, UnsentTo, Sole, Types, LogTypes, BusTypes
      <3> QED BY <3>1, <3>2
    <2> QED BY <2>2, <2>3 DEF ToSend
  <1>4. ASSUME NEW w \in Writers, NEW c \in Connections, Send(w, c) PROVE FeedInv'
    <2>1. /\ wpc[w] = "publishing" /\ c \in receivers[w] /\ place[w] \in Positions
          /\ receivers' = [receivers EXCEPT ![w] = @ \ {c}]
          /\ UNCHANGED <<wpc, place, serving, client, streams, failed, taken, shown>>
          /\ log[place[w]].by = w /\ UnsentTo(w, c)
      BY <1>4 DEF Send, logVars, viewVars, Published, ToSend, Types, BusTypes
    <2>2. \/ channel' = channel
          \/ channel' = [channel EXCEPT ![c] = Append(@, place[w])]
      BY <1>4 DEF Send, Offer
    <2>3. /\ \A d \in Connections \ {c} : channel'[d] = channel[d]
          /\ channel'[c] = channel[c] \/ channel'[c] = Append(channel[c], place[w])
      BY <2>2 DEF Types, BusTypes
    <2>4. /\ Alone' /\ InView' /\ TakenInOrder' /\ Published'
          /\ \A d \in Connections : Sole(d)' = Sole(d)
      BY <1>1, <2>1 DEF Alone, InView, TakenInOrder, Published, Sole, Types, BusTypes
    <2>5. InChannel'
      <3>1. /\ Ascending(log, channel'[c])
            /\ Sole(c) => Newer(log, channel'[c], taken[client[c]])
        <4>1. /\ Ascending(log, channel[c]) /\ Before(log, channel[c], w, place[w])
              /\ Sole(c) => /\ Newer(log, channel[c], taken[client[c]])
                            /\ Before(log, taken[client[c]], w, place[w])
          BY <2>1 DEF InChannel, UnsentTo
        <4>2. Ascending(log, Append(channel[c], place[w]))
          BY <1>2, <2>1, <4>1, AscendingAppended
        <4>3. Sole(c) => Newer(log, Append(channel[c], place[w]), taken[client[c]])
          BY <1>2, <2>1, <4>1, NewerAppended
        <4> QED BY <2>3, <4>1, <4>2, <4>3
      <3> QED BY <1>1, <2>1, <2>3, <2>4, <3>1 DEF InChannel
    <2>6. ASSUME NEW u \in Writers \ {w}, Before(log, channel[c], u, place[u])
          PROVE  Before(log, channel'[c], u, place[u])
      <3>1. log[place[w]].by = u => place[w] < place[u]
        BY <2>1
      <3>2. Before(log, Append(channel[c], place[w]), u, place[u])
        BY <1>2, <2>1, <2>6, <3>1, BeforeAppended
      <3> QED BY <2>3, <2>6, <3>2
    <2>7. ASSUME NEW u \in Writers, wpc[u] = "committed" PROVE Unsent(u)'
      <3>1. \A d \in Connections : Before(log, channel'[d], u, place[u])
        BY <2>1, <2>3, <2>6, <2>7 DEF ToSend, Unsent
      <3> QED BY <1>1, <2>1, <2>7, <3>1 DEF ToSend, Unsent
    <2>8. ASSUME NEW u \in Writers, wpc[u] = "publishing", NEW d \in receivers'[u] PROVE UnsentTo(u, d)'
      <3>1. d \in receivers[u] /\ d \in Connections /\ (u = w => d # c)
        BY <1>2, <2>1, <2>8 DEF Types, BusTypes
      <3>2. Before(log, channel'[d], u, place[u])
        BY <2>3, <2>6, <2>8, <3>1 DEF ToSend, UnsentTo
      <3> QED BY <1>1, <2>1, <2>4, <2>8, <3>1, <3>2 DEF ToSend, UnsentTo
    <2> QED BY <2>1, <2>4, <2>5, <2>7, <2>8 DEF ToSend
  <1>5. ASSUME NEW w \in Writers, Return(w) PROVE FeedInv'
    <2>1. /\ wpc' = [wpc EXCEPT ![w] = "idle"] /\ place' = [place EXCEPT ![w] = 0]
          /\ UNCHANGED <<receivers, serving, client, channel, streams, failed, taken, shown>>
          /\ receivers[w] = {}
      BY <1>5 DEF Return, connectionVars, viewVars, Published
    <2>2. /\ wpc'[w] = "idle"
          /\ \A u \in Writers \ {w} : wpc'[u] = wpc[u] /\ place'[u] = place[u]
      BY <2>1 DEF Types, LogTypes, BusTypes
    <2>3. Alone' /\ InView' /\ InChannel' /\ TakenInOrder' /\ Published'
      BY <1>1, <2>1, <2>2 DEF Alone, InView, InChannel, TakenInOrder, Published, Sole
    <2>4. ToSend'
      BY <1>1, <2>1, <2>2 DEF ToSend, Unsent, UnsentTo, Sole
    <2> QED BY <2>3, <2>4
  <1>6. ASSUME NEW v \in Viewers, Connect(v) PROVE FeedInv'
    <2>1. PICK f : f = FreeConnection
      OBVIOUS
    <2>2. /\ UNCHANGED <<wpc, place, receivers, streams, failed, taken, shown>>
          /\ f \in Free /\ Waits(v)
          /\ serving' = serving \cup {f}
          /\ client' = [client EXCEPT ![f] = v]
          /\ channel' = [channel EXCEPT ![f] = <<>>]
      BY <1>6, <2>1 DEF Connect, CanConnect, Joins, busVars, logVars, viewVars, FreeConnection
    <2>3. /\ f \in Connections /\ f \notin serving /\ \A w \in Writers : f \notin receivers[w]
          /\ streams[v] = 1 => \A c \in Connections : client[c] # v
      BY <2>2, NoneHeld DEF Free
    <2>4. /\ channel'[f] = <<>> /\ client'[f] = v
          /\ \A c \in Connections \ {f} : /\ channel'[c] = channel[c] /\ client'[c] = client[c]
                                         /\ Sole(c)' = Sole(c)
      BY <2>2, <2>3 DEF Sole, Types, BusTypes
    <2>5. Alone'
      <3> SUFFICES ASSUME NEW c \in Connections, Sole(c)', NEW d \in Connections,
                          client'[d] = client'[c]
                   PROVE  c \in serving' /\ c = d
        BY DEF Alone
      <3>1. CASE c = f
        BY <2>2, <2>3, <2>4, <3>1 DEF Sole
      <3>2. CASE c # f
        <4>1. Sole(c) /\ client'[c] = client[c] /\ c \in serving
          BY <2>4, <3>2 DEF Alone
        <4>2. d # f
          BY <2>2, <2>3, <2>4, <4>1 DEF Sole
        <4> QED BY <2>2, <2>4, <4>1, <4>2 DEF Alone
      <3> QED BY <3>1, <3>2
    <2>6. InView' /\ TakenInOrder' /\ Published'
      BY <1>1, <2>2 DEF InView, TakenInOrder, Published
    <2>7. InChannel'
      BY <1>1, <2>2, <2>4, EmptyOrder DEF InChannel
    <2>8. ToSend'
      BY <1>1, <1>2, <2>2, <2>3, <2>4, EmptyOrder DEF ToSend, Unsent, UnsentTo
    <2> QED BY <2>5, <2>6, <2>7, <2>8
  <1>7. ASSUME NEW c \in Connections, Serve(c) PROVE FeedInv'
    <2> DEFINE n == Head(channel[c])
    <2>1. /\ channel[c] # <<>> /\ channel[c] \in Seq(Positions) /\ n \in Positions
          /\ UNCHANGED <<wpc, place, receivers, serving>>
          /\ channel'[c] = Tail(channel[c])
          /\ \A d \in Connections \ {c} : channel'[d] = channel[d]
      BY <1>2, <1>7, TakenFrom DEF Serve, busVars, logVars, Types, BusTypes
    <2>2. /\ \A d \in Connections : client'[d] = client[d] \/ client'[d] = NoViewer
          /\ UNCHANGED <<streams, failed>>
          /\ \/ UNCHANGED <<taken, shown>>
             \/ /\ client[c] # NoViewer
                /\ taken' = [taken EXCEPT ![client[c]] = Append(@, n)]
                /\ \/ client[c] \in failed /\ shown' = shown
                   \/ shown' = [shown EXCEPT ![client[c]] = Append(@, n)]
      BY <1>7 DEF Serve, Receive, PrintEvent, TakeOneEvent, viewVars, Types, BusTypes
    <2>3. /\ Ascending(log, Tail(channel[c]))
          /\ \A w, k : Before(log, channel[c], w, k) =>
                Before(log, Tail(channel[c]), w, k) /\ (log[n].by = w => n < k)
      BY <2>1, AscendingTail, BeforeTail DEF InChannel
    <2>4. /\ Alone' /\ Published'
          /\ \A d \in Connections : Sole(d)' => Sole(d) /\ client'[d] = client[d]
      BY <1>1, <2>1, <2>2 DEF Alone, Published, Sole
    <2>5. \A u \in Writers : \A d \in Connections :
            Before(log, channel[d], u, place[u]) => Before(log, channel'[d], u, place[u])
      BY <2>1, <2>3
    <2>6. ASSUME taken' # taken
          PROVE  /\ \A v \in Viewers \ {client[c]} : taken'[v] = taken[v]
                 /\ client[c] \in Viewers /\ taken'[client[c]] = Append(taken[client[c]], n)
                 /\ taken[client[c]] \in Seq(Positions)
                 /\ streams[client[c]] = 1 => Sole(c)
                 /\ \A d \in Connections \ {c} : Sole(d) => client[d] # client[c]
      BY <1>2, <2>2, <2>6 DEF Alone, Sole, Types, BusTypes
    <2>7. ASSUME NEW d \in Connections, Sole(d)'
          PROVE  Newer(log, channel'[d], taken'[client'[d]])
      <3>1. /\ client'[d] = client[d] /\ client[d] \in Viewers /\ Sole(d)
            /\ Newer(log, channel[d], taken[client[d]])
        BY <1>2, <2>4, <2>7 DEF InChannel, Sole
      <3>2. Newer(log, channel'[d], taken[client[d]])
        BY <2>1, <3>1, NewerTail
      <3>3. CASE taken' = taken
        BY <3>1, <3>2, <3>3
      <3>4. CASE taken' # taken /\ d # c
        BY <2>6, <3>1, <3>2, <3>4
      <3>5. CASE taken' # taken /\ d = c
        <4>1. Newer(log, Tail(channel[c]), Append(taken[client[c]], n))
          BY <1>2, <2>1, <3>1, <3>5, NewerShown DEF InChannel
        <4> QED BY <2>1, <2>6, <3>1, <3>5, <4>1
      <3> QED BY <3>3, <3>4, <3>5
    <2>8. ASSUME NEW v \in Viewers, streams'[v] = 1 PROVE Ascending(log, taken'[v])
      <3>1. streams[v] = 1 /\ Ascending(log, taken[v])
        BY <2>2, <2>8 DEF TakenInOrder
      <3>2. CASE taken' = taken \/ v # client[c]
        BY <2>6, <3>1, <3>2
      <3>3. CASE taken' # taken /\ v = client[c]
        <4>1. Sole(c) /\ taken'[v] = Append(taken[v], n) /\ taken[v] \in Seq(Positions)
          BY <2>6, <3>1, <3>3
        <4>2. Before(log, taken[v], log[n].by, n)
          BY <2>1, <3>3, <4>1, NewerTail DEF InChannel
        <4> QED BY <2>1, <3>1, <4>1, <4>2, AscendingAppended
      <3> QED BY <3>2, <3>3
    <2>9. ASSUME NEW v \in Viewers, v \notin failed PROVE streams'[v] = 1 /\ shown'[v] = taken'[v]
      <3>1. streams'[v] = 1 /\ shown[v] = taken[v]
        BY <2>2, <2>9 DEF InView
      <3>2. CASE UNCHANGED <<taken, shown>>
        BY <3>1, <3>2
      <3>3. CASE v = client[c] /\ ~UNCHANGED <<taken, shown>>
        <4>1. taken'[v] = Append(taken[v], n) /\ shown'[v] = Append(shown[v], n)
          BY <2>2, <2>9, <3>3 DEF Types, BusTypes
        <4> QED BY <3>1, <4>1
      <3>4. CASE v # client[c]
        <4>1. taken'[v] = taken[v] /\ shown'[v] = shown[v]
          BY <2>2, <3>4 DEF Types, BusTypes
        <4> QED BY <3>1, <4>1
      <3> QED BY <3>2, <3>3, <3>4
    <2>10. InChannel' /\ TakenInOrder'
      BY <1>1, <2>1, <2>3, <2>7, <2>8 DEF InChannel, TakenInOrder
    <2>11. ASSUME NEW u \in Writers, wpc[u] = "committed" PROVE Unsent(u)'
      <3>1. ASSUME NEW v \in Viewers, streams'[v] = 1 PROVE Before(log, taken'[v], u, place[u])
        <4>1. /\ Before(log, taken[v], u, place[u]) /\ Before(log, channel[c], u, place[u])
              /\ taken[v] \in Seq(Positions)
          BY <1>2, <2>2, <2>11, <3>1 DEF ToSend, Unsent
        <4>2. Before(log, Append(taken[v], n), u, place[u])
          BY <2>1, <2>3, <4>1, BeforeAppended
        <4>3. taken'[v] = taken[v] \/ taken'[v] = Append(taken[v], n)
          BY <2>6
        <4> QED BY <4>1, <4>2, <4>3
      <3>2. \A d \in Connections : Before(log, channel[d], u, place[u])
        BY <2>11 DEF ToSend, Unsent
      <3> QED BY <1>1, <2>1, <2>5, <3>1, <3>2 DEF Unsent
    <2>12. ASSUME NEW u \in Writers, wpc[u] = "publishing", NEW d \in receivers[u] PROVE UnsentTo(u, d)'
      <3>1. d \in Connections /\ UnsentTo(u, d)
        BY <1>2, <2>12 DEF ToSend
      <3>2. Before(log, channel'[d], u, place[u])
        BY <2>5, <3>1 DEF UnsentTo
      <3>3. ASSUME Sole(d)' PROVE Before(log, taken'[client'[d]], u, place[u])
        <4>1. /\ client'[d] = client[d] /\ client[d] \in Viewers /\ Sole(d)
              /\ Before(log, taken[client[d]], u, place[u])
          BY <1>2, <2>4, <3>1, <3>3 DEF UnsentTo, Sole
        <4>2. CASE taken' = taken
          BY <4>1, <4>2
        <4>3. CASE taken' # taken /\ d # c
          <5>1. taken'[client[d]] = taken[client[d]]
            BY <2>6, <3>1, <4>1, <4>3
          <5> QED BY <4>1, <5>1
        <4>4. CASE taken' # taken /\ d = c
          <5>1. Before(log, Append(taken[client[c]], n), u, place[u])
            BY <1>2, <2>1, <2>3, <3>1, <4>1, <4>4, BeforeAppended DEF UnsentTo
          <5> QED BY <2>6, <4>1, <4>4, <5>1
        <4> QED BY <4>2, <4>3, <4>4
      <3> QED BY <1>1, <2>1, <3>2, <3>3 DEF UnsentTo
    <2> QED BY <2>1, <2>2, <2>4, <2>10, <2>11, <2>12, <2>9 DEF InView, ToSend
  <1>8. ASSUME NEW c \in Connections, HangUp(c) \/ Drop(c) PROVE FeedInv'
    <2>1. /\ UNCHANGED <<wpc, place, receivers, channel, streams, taken, shown>>
          /\ \A d \in Connections : client'[d] = client[d] \/ client'[d] = NoViewer
          /\ \A d \in Connections : d \in serving /\ client'[d] # NoViewer => d \in serving'
          /\ failed \subseteq failed'
      BY <1>8 DEF HangUp, Drop, GetErrMsg, busVars, logVars, viewVars, Types, BusTypes
    <2>2. \A d \in Connections : Sole(d)' => Sole(d) /\ client'[d] = client[d]
      BY <2>1 DEF Sole
    <2>3. Alone' /\ InView' /\ Published' /\ InChannel' /\ TakenInOrder'
      BY <1>1, <2>1, <2>2 DEF Alone, InView, Published, InChannel, TakenInOrder, Sole
    <2>4. ToSend'
      BY <1>1, <1>2, <2>1, <2>2 DEF ToSend, Unsent, UnsentTo
    <2> QED BY <2>3, <2>4
  <1>9. CASE Restart
    <2>1. /\ UNCHANGED <<streams, taken, shown>> /\ failed \subseteq failed'
          /\ \A w \in Writers :
                wpc'[w] = "idle" \/ (wpc'[w] = wpc[w] /\ place'[w] = place[w])
          /\ \A w \in Writers : receivers'[w] = {}
          /\ \A c \in Connections : client'[c] = NoViewer /\ channel'[c] = <<>> /\ ~Sole(c)'
      BY <1>9 DEF Restart, GetErrMsg, Sole
    <2>2. Alone' /\ InView' /\ Published' /\ InChannel' /\ TakenInOrder'
      BY <1>1, <2>1, EmptyOrder DEF Alone, InView, Published, InChannel, TakenInOrder
    <2>3. ToSend'
      BY <1>1, <2>1, EmptyOrder DEF ToSend, Unsent
    <2> QED BY <2>2, <2>3
  <1>10. CASE UNCHANGED vars
    BY <1>10 DEF vars, logVars, busVars, connectionVars, viewVars, Alone, InView, Published,
       InChannel, TakenInOrder, ToSend, Unsent, UnsentTo, Sole
  <1>11. ASSUME NEW v \in Dashboards, Refuse(v) \/ AnswerRefused(v) PROVE FeedInv'
    <2>1. /\ UNCHANGED <<wpc, place, receivers, serving, client, channel, taken, shown>>
          /\ failed' = failed \cup {v}
          /\ streams' = streams \/ streams' = [streams EXCEPT ![v] = @ + 1]
      BY <1>11 DEF Refuse, AnswerRefused, GetErrMsg, logVars, busVars, connectionVars
    <2>2. /\ \A u \in Viewers : streams'[u] = 1 => streams[u] = 1
          /\ \A u \in Viewers \ {v} : streams'[u] = streams[u]
      BY <2>1, StreamsAssumption DEF Types, BusTypes
    <2>3. \A c \in Connections : Sole(c)' => Sole(c)
      BY <1>2, <2>1, <2>2 DEF Sole
    <2>4. Alone' /\ InView' /\ Published' /\ InChannel' /\ TakenInOrder'
      BY <1>1, <2>1, <2>2, <2>3 DEF Alone, InView, Published, InChannel, TakenInOrder
    <2>5. ToSend'
      BY <1>1, <1>2, <2>1, <2>2, <2>3 DEF ToSend, Unsent, UnsentTo
    <2> QED BY <2>4, <2>5
  <1> QED BY <1>3, <1>4, <1>5, <1>6, <1>7, <1>8, <1>9, <1>10, <1>11 DEF BusStep

(* Types, numbers and order together, from the initial states on.          *)
LEMMA FeedSafe == Spec => [](Types /\ Numbered /\ FeedInv)
  <1>1. Types /\ Numbered /\ FeedInv /\ [Next]_vars => FeedInv'
    BY Steps, LogStepKeepsFeedInv, BusStepKeepsFeedInv
  <1>2. Types /\ LogInv => Types /\ Numbered
    BY DEF LogInv, NumberInv
  <1> QED BY InitFeedInv, <1>1, <1>2, LogSafe, PTL DEF Spec
-----------------------------------------------------------------------------
(* Every step of the feed is one of Feed or none.                          *)
LEMMA FeedStep ==
  Types /\ Numbered /\ FeedInv /\ [Next]_vars => [Promise!FeedNext]_(Promise!feedVars)
  <1> SUFFICES ASSUME Types, Numbered, FeedInv, [Next]_vars
               PROVE  Promise!FeedNext \/ UNCHANGED <<log, shown>>
    BY DEF Promise!feedVars
  <1>1. ASSUME NEW w \in Writers, LogStep(w) PROVE Promise!Write \/ UNCHANGED <<log, shown>>
    <2>1. shown' = shown
      BY <1>1 DEF LogStep, InLog, viewVars
    <2>2. CASE log' = Append(log, draft[w]) /\ draft[w] \in Events
      <3>1. /\ Len(log) \in Nat /\ Len(log') = Len(log) + 1 /\ log \in Seq(Events)
            /\ \A i \in 1..Len(log) : log'[i] = log[i]
        BY <2>2, Appended DEF Types, LogTypes
      <3>2. SubSeq(log', 1, Len(log)) = log
        <4>1. \A i \in 1..Len(log) : log'[i] \in Events
          BY <3>1, ElementOfSeq
        <4>2. /\ SubSeq(log', 1, Len(log)) \in Seq(Events)
              /\ Len(SubSeq(log', 1, Len(log))) = IF 1 <= Len(log) THEN Len(log) - 1 + 1 ELSE 0
              /\ \A i \in 1..(Len(log) - 1 + 1) : SubSeq(log', 1, Len(log))[i] = log'[1 + i - 1]
          BY <3>1, <4>1, SubSeqProperties
        <4>3. /\ Len(SubSeq(log', 1, Len(log))) = Len(log)
              /\ \A i \in 1..Len(log) : SubSeq(log', 1, Len(log))[i] = log[i]
          BY <3>1, <4>2
        <4> QED BY <3>1, <4>2, <4>3, SeqEqual
      <3> QED BY <2>1, <3>1, <3>2 DEF Promise!Write
    <2> QED BY <1>1, <2>1, <2>2, GrowingLog DEF LogStep, InLog, Types
  <1>2. ASSUME NEW c \in Connections, Serve(c)
        PROVE  Promise!FeedNext \/ UNCHANGED <<log, shown>>
    <2> DEFINE n == Head(channel[c])
               v == client[c]
    <2>1. /\ channel[c] # <<>> /\ channel[c] \in Seq(Positions) /\ n \in Positions
          /\ log' = log
      BY <1>2, TakenFrom DEF Serve, logVars, Types, BusTypes
    <2>2. \/ shown' = shown
          \/ /\ v # NoViewer /\ v \notin failed /\ Accepts(v, log[n])
             /\ shown' = [shown EXCEPT ![v] = Append(@, n)]
      BY <1>2 DEF Serve, Receive, PrintEvent, TakeOneEvent, viewVars, Types, BusTypes
    <2>3. ASSUME v # NoViewer, v \notin failed, Accepts(v, log[n]),
                 shown' = [shown EXCEPT ![v] = Append(@, n)]
          PROVE  \E u \in Viewers : \E m \in 1..Len(log) : Promise!Show(u, m)
      <3>1. v \in Viewers /\ n \in 1..Len(log)
        BY <2>1, <2>3 DEF Types, BusTypes, Positions
      <3>2. Before(log, shown[v], log[n].by, n)
        <4>1. shown[v] = taken[v] /\ Sole(c)
          BY <2>3, <3>1 DEF FeedInv, InView, Sole
        <4> QED BY <2>1, <4>1, NewerTail DEF FeedInv, InChannel
      <3>3. \A i \in 1..Len(shown[v]) : shown[v][i] \in Positions
        BY <3>1, ElementOfSeq DEF Types, BusTypes
      <3>4. Promise!Follows(v, n)
        BY <3>1, <3>2, <3>3 DEF Promise!Follows, Before, Positions
      <3> QED BY <2>1, <2>3, <3>1, <3>4 DEF Promise!Show
    <2> QED BY <2>1, <2>2, <2>3 DEF Promise!FeedNext
  <1>3. ASSUME NEW w \in Writers, Publish(w) \/ (\E c \in Connections : Send(w, c)) \/ Return(w)
        PROVE  UNCHANGED <<log, shown>>
    BY <1>3 DEF Publish, Send, Return, logVars, viewVars
  <1>4. ASSUME NEW v \in Viewers, Connect(v) PROVE UNCHANGED <<log, shown>>
    BY <1>4 DEF Connect, Joins, logVars, viewVars
  <1>5. ASSUME NEW c \in Connections, HangUp(c) \/ Drop(c) PROVE UNCHANGED <<log, shown>>
    BY <1>5 DEF HangUp, Drop, logVars, viewVars
  <1>6. CASE Restart \/ UNCHANGED vars
    BY <1>6 DEF Restart, vars, logVars, viewVars
  <1>7. ASSUME NEW v \in Dashboards, Refuse(v) \/ AnswerRefused(v) PROVE UNCHANGED <<log, shown>>
    BY <1>7 DEF Refuse, AnswerRefused, logVars
  <1> QED BY <1>1, <1>2, <1>3, <1>4, <1>5, <1>6, <1>7, Steps DEF BusStep, Promise!FeedNext

(* The feed implements Feed: with any capacity, any connections that break *)
(* or are refused, any refused answers and any restarts of the daemon, a   *)
(* viewer is shown nothing that is not committed or that it did not ask    *)
(* for, nothing twice, and each writer's events in the order of the log.   *)
(* Until its first error a dashboard has one stream; afterwards it may     *)
(* have several and take events twice, but the error page hides its panes. *)
THEOREM FeedRefinement == Spec => ImplementsFeed
  <1>1. Init => Promise!FeedInit
    BY DEF Init, LogInit, Promise!FeedInit
  <1> QED BY <1>1, FeedStep, FeedSafe, PTL DEF Spec, ImplementsFeed, Promise!FeedSpec

(* Only a second stream makes a viewer take an event twice.                *)
THEOREM NothingTakenTwice == Spec => []TakenOnce
  <1>1. Types /\ FeedInv => TakenOnce
    <2> SUFFICES ASSUME Types, FeedInv, NEW v \in Viewers, streams[v] = 1,
                        NEW i \in 1..Len(taken[v]), NEW j \in 1..Len(taken[v]),
                        taken[v][i] = taken[v][j], i < j
                 PROVE  FALSE
      <3>1. \A i, j \in Nat : i = j \/ i < j \/ j < i
        OBVIOUS
      <3>2. \A v : 1..Len(taken[v]) \subseteq Nat
        OBVIOUS
      <3> QED BY <3>1, <3>2 DEF TakenOnce
    <2>1. taken[v][i] < taken[v][j]
      BY DEF FeedInv, TakenInOrder, Ascending
    <2>2. taken[v][i] \in Nat
      BY ElementOfSeq DEF Types, BusTypes, Positions
    <2> QED BY <2>1, <2>2
  <1> QED BY <1>1, FeedSafe, PTL
-----------------------------------------------------------------------------
(* Only goroutines of a daemon whose stores have the bus are heard: the    *)
(* events of other processes are not, and without the bus none.            *)
Heard(w) == BusWired /\ w \in Daemon
OfHeard(l, s) == \A i \in 1..Len(s) : Heard(l[s[i]].by)

OnBus ==
    /\ \A w \in Writers : wpc[w] = "publishing" => Heard(w)
    /\ \A c \in Connections : OfHeard(log, channel[c])

ScreensOfHeard == \A v \in Viewers : OfHeard(log, shown[v])

(* A channel holds events of heard writers when one of them is added,      *)
LEMMA OfHeardAppended ==
  ASSUME NEW S, NEW s \in Seq(S), NEW m \in S, NEW l, OfHeard(l, s), Heard(l[m].by)
  PROVE  OfHeard(l, Append(s, m))
  <1>1. /\ Len(Append(s, m)) = Len(s) + 1 /\ Append(s, m)[Len(s) + 1] = m /\ Len(s) \in Nat
        /\ \A i \in 1..Len(s) : Append(s, m)[i] = s[i]
    BY AppendProperties, LenProperties
  <1>2. \A i \in 1..(Len(s) + 1) : i \in 1..Len(s) \/ i = Len(s) + 1
    BY <1>1
  <1> QED BY <1>1, <1>2 DEF OfHeard

(* or its first is taken out.                                              *)
LEMMA OfHeardTail ==
  ASSUME NEW S, NEW s \in Seq(S), s # <<>>, NEW l, OfHeard(l, s)
  PROVE  OfHeard(l, Tail(s)) /\ Heard(l[Head(s)].by)
  <1>1. /\ Head(s) = s[1] /\ Len(s) \in Nat \ {0} /\ Len(Tail(s)) = Len(s) - 1
        /\ \A i \in 1..Len(Tail(s)) : Tail(s)[i] = s[i + 1]
    BY TakenFrom
  <1>2. (\A i \in 1..Len(Tail(s)) : i + 1 \in 1..Len(s)) /\ 1 \in 1..Len(s)
    BY <1>1
  <1> QED BY <1>1, <1>2 DEF OfHeard

(* Only Publish makes a writer send, and only if it has the bus.           *)
LEMMA NextKeepsOnBus ==
  Types /\ Numbered /\ FeedInv /\ OnBus /\ ScreensOfHeard /\ [Next]_vars => OnBus' /\ ScreensOfHeard'
  <1> SUFFICES ASSUME Types, FeedInv, OnBus, ScreensOfHeard, [Next]_vars
               PROVE  OnBus' /\ ScreensOfHeard'
    OBVIOUS
  <1>1. /\ \A c \in Connections : channel[c] \in Seq(Positions)
        /\ \A v \in Viewers : shown[v] \in Seq(Positions)
    BY DEF Types, BusTypes
  <1>2. ASSUME NEW w \in Writers, LogStep(w) PROVE OnBus' /\ ScreensOfHeard'
    <2>1. UNCHANGED <<channel, shown>>
      BY <1>2 DEF LogStep, InLog, connectionVars, viewVars
    <2>2. \A n \in Positions : log'[n] = log[n]
      BY <1>2, GrowingLog, Appended DEF Types, LogTypes, LogStep, InLog, Positions
    <2>3. \A s \in Seq(Positions) : \A i \in 1..Len(s) : log'[s[i]] = log[s[i]]
      BY <2>2, ElementOfSeq
    <2>4. \A u \in Writers : wpc'[u] = "publishing" => wpc[u] = "publishing"
      <3>1. /\ \A u \in Writers \ {w} : wpc'[u] = wpc[u]
            /\ wpc'[w] \in {"committed", "publishing"} => Commit(w)
        BY <1>2, GrowingLog DEF LogStep, InLog, Types
      <3>2. Commit(w) => wpc'[w] = "committed"
        BY DEF Commit, Committed, Types, LogTypes
      <3> QED BY <3>1, <3>2
    <2> QED BY <1>1, <2>1, <2>3, <2>4 DEF OnBus, ScreensOfHeard, OfHeard
  <1>3. CASE BusStep
    <2>1. log' = log
      BY <1>3, BusStepKeepsLog DEF Types, LogKept
    <2>2. ASSUME NEW w \in Writers, NEW c \in Connections, Send(w, c) PROVE OnBus' /\ ScreensOfHeard'
      <3>1. /\ wpc[w] = "publishing" /\ place[w] \in Positions /\ log[place[w]].by = w
            /\ UNCHANGED <<wpc, shown>>
            /\ \A d \in Connections : channel'[d] \in {channel[d], Append(channel[d], place[w])}
        BY <2>2 DEF Send, Offer, logVars, viewVars, FeedInv, Published, Types, BusTypes
      <3>2. \A d \in Connections : OfHeard(log, Append(channel[d], place[w]))
        BY <1>1, <3>1, OfHeardAppended DEF OnBus
      <3> QED BY <2>1, <3>1, <3>2 DEF OnBus, ScreensOfHeard
    <2>3. ASSUME NEW c \in Connections, Serve(c) PROVE OnBus' /\ ScreensOfHeard'
      <3>1. /\ channel[c] # <<>> /\ Head(channel[c]) \in Positions /\ wpc' = wpc
            /\ \A d \in Connections : channel'[d] = IF d = c THEN Tail(channel[c]) ELSE channel[d]
            /\ \A v \in Viewers : shown'[v] \in {shown[v], Append(shown[v], Head(channel[c]))}
        BY <1>1, <2>3, TakenFrom DEF Serve, Receive, PrintEvent, TakeOneEvent, logVars,
           viewVars, Types, BusTypes
      <3>2. OfHeard(log, Tail(channel[c])) /\ Heard(log[Head(channel[c])].by)
        BY <1>1, <3>1, OfHeardTail DEF OnBus
      <3>3. \A v \in Viewers : OfHeard(log, Append(shown[v], Head(channel[c])))
        BY <1>1, <3>1, <3>2, OfHeardAppended DEF ScreensOfHeard
      <3> QED BY <2>1, <3>1, <3>2, <3>3 DEF OnBus, ScreensOfHeard
    <2>4. ASSUME NEW w \in Writers, Publish(w) \/ Return(w) PROVE OnBus' /\ ScreensOfHeard'
      <3>1. /\ UNCHANGED <<channel, shown>>
            /\ \A u \in Writers : wpc'[u] = "publishing" => wpc[u] = "publishing" \/ Heard(u)
        BY <2>4 DEF Publish, Return, HasBus, Heard, WriterMoves, connectionVars, viewVars,
           Types, LogTypes
      <3> QED BY <2>1, <3>1 DEF OnBus, ScreensOfHeard
    <2>5. ASSUME NEW v \in Viewers, Connect(v) PROVE OnBus' /\ ScreensOfHeard'
      <3>1. /\ UNCHANGED <<wpc, shown>>
            /\ \A c \in Connections : channel'[c] \in {channel[c], <<>>}
        BY <2>5 DEF Connect, Joins, logVars, viewVars, Types, BusTypes
      <3>2. OfHeard(log, <<>>)
        BY DEF OfHeard
      <3> QED BY <2>1, <3>1, <3>2 DEF OnBus, ScreensOfHeard
    <2>6. ASSUME NEW c \in Connections, HangUp(c) \/ Drop(c) PROVE OnBus' /\ ScreensOfHeard'
      BY <2>1, <2>6 DEF HangUp, Drop, logVars, viewVars, OnBus, ScreensOfHeard
    <2>7. CASE Restart
      <3>1. OfHeard(log, <<>>)
        BY DEF OfHeard
      <3> QED BY <2>1, <2>7, <3>1 DEF Restart, OnBus, ScreensOfHeard
    <2>8. CASE UNCHANGED vars
      BY <2>8 DEF vars, logVars, connectionVars, viewVars, OnBus, ScreensOfHeard
    <2>9. ASSUME NEW v \in Dashboards, Refuse(v) \/ AnswerRefused(v) PROVE OnBus' /\ ScreensOfHeard'
      BY <2>1, <2>9 DEF Refuse, AnswerRefused, logVars, connectionVars, OnBus, ScreensOfHeard
    <2> QED BY <1>3, <2>2, <2>3, <2>4, <2>5, <2>6, <2>7, <2>8, <2>9 DEF BusStep
  <1> QED BY <1>2, <1>3, Steps

(* However viewers connect, lose their connections and come back: they are *)
(* shown events of the daemon's own goroutines only, and nothing at all if *)
(* the daemon's stores have no bus, as cli/daemon.go builds them.          *)
THEOREM OnlyDaemonIsHeard == Spec => []ScreensOfHeard
  <1>1. Init => OnBus /\ ScreensOfHeard
    BY DEF Init, LogInit, OnBus, ScreensOfHeard, OfHeard
  <1> QED BY <1>1, NextKeepsOnBus, FeedSafe, PTL DEF Spec
=============================================================================
