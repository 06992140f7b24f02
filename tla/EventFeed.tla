------------------------------ MODULE EventFeed ------------------------------
(***************************************************************************)
(* How committed events reach the people who watch: the bus of the daemon  *)
(* (coding/eventbus/bus.go), the handlers of GET /events, one for each     *)
(* connection (coding/eventbus/sse.go), and the viewers: `coworker watch`  *)
(* (cli/watch.go), which keeps a connection, and the dashboard             *)
(* (tui/events.go, tui/model.go), which opens one for every event.         *)
(*                                                                         *)
(* The dashboard takes every errMsg for the end of its stream and starts   *)
(* one, also the errMsg of an answer that was refused: there are then two, *)
(* and each goes on by itself.  The first errMsg also puts the error page  *)
(* before the panes, and nothing takes it away: connectedMsg, which would, *)
(* is never sent.                                                          *)
(*                                                                         *)
(* Writers outside the daemon have no bus.  Whether those of the daemon    *)
(* have one is a parameter: the tests set EventStore.Bus, cli/daemon.go    *)
(* does not.                                                               *)
(***************************************************************************)
EXTENDS EventLog

CONSTANTS
    Daemon,       \* the writers that are goroutines of the daemon
    BusWired,     \* is EventStore.Bus set there?
    Viewers,
    Dashboards,   \* the viewers that are dashboards
    Wanted,       \* the runs a viewer asked for
    Connections,  \* to the daemon's HTTP server; reused in the model
    Capacity,     \* of a handler's channel, 32 in the code
    MaxStreams    \* bound on a dashboard's streams

ASSUME DaemonAssumption == Daemon \subseteq Writers /\ BusWired \in BOOLEAN
ASSUME ViewerAssumption == Dashboards \subseteq Viewers /\ Wanted \in [Viewers -> SUBSET Runs]
ASSUME ConnectionAssumption == Capacity \in Nat \ {0} /\ IsFiniteSet(Connections)
ASSUME StreamsAssumption == MaxStreams \in Nat \ {0}

VARIABLES
    place,      \* the position in the log of the event a writer publishes
    receivers,  \* the subscribers it copied and has not sent to yet
    serving,    \* the connections with a handler
    client,     \* the viewer at its other end, or NoViewer
    channel,    \* events the handler has not taken, as positions in the log
    streams,    \* how many streams a viewer follows
    failed,     \* the dashboards whose m.err is set: View shows the error page
    taken,      \* what a viewer took from its streams, as positions in the log
    shown       \* what watch printed, or View shows of it

busVars == <<place, receivers>>
connectionVars == <<serving, client, channel>>
viewVars == <<streams, failed, taken, shown>>
vars == <<logVars, faults, busVars, connectionVars, viewVars>>

NoViewer == "nobody"

FeedTypeOK ==
    /\ log \in Seq(Events) /\ Len(log) <= MaxEvents
    /\ spent \in [Runs -> Nat]
    /\ wpc \in [Writers -> {"idle", "counted", "inserting", "committed", "publishing"}]
    /\ draft \in [Writers -> Events \cup {NoEvent}]
    /\ snapshot \in [Writers -> 0..MaxEvents] /\ faults \in 0..MaxFaults
    /\ place \in [Writers -> 0..MaxEvents] /\ receivers \in [Writers -> SUBSET Connections]
    /\ serving \subseteq Connections
    /\ client \in [Connections -> Viewers \cup {NoViewer}]
    /\ \A c \in Connections : channel[c] \in Seq(1..Len(log)) /\ Len(channel[c]) <= Capacity
    /\ streams \in [Viewers -> 1..MaxStreams] /\ failed \subseteq Dashboards
    /\ taken \in [Viewers -> Seq(1..Len(log))]
    /\ shown \in [Viewers -> Seq(1..Len(log))]

Init ==
    /\ LogInit
    /\ place = [w \in Writers |-> 0]
    /\ receivers = [w \in Writers |-> {}]
    /\ serving = {}
    /\ client = [c \in Connections |-> NoViewer]
    /\ channel = [c \in Connections |-> <<>>]
    /\ streams = [v \in Viewers |-> 1]
    /\ failed = {}
    /\ taken = [v \in Viewers |-> <<>>]
    /\ shown = [v \in Viewers |-> <<>>]
-----------------------------------------------------------------------------
HasBus(w) == BusWired /\ w \in Daemon

(* Publish copies the subscribers under its lock.                          *)
Publish(w) ==
    /\ HasBus(w)
    /\ WriterMoves(w, "committed", "publishing")
    /\ receivers' = [receivers EXCEPT ![w] = serving]
    /\ UNCHANGED <<log, spent, draft, snapshot, faults, place, connectionVars, viewVars>>

Offer(w, c) ==
    channel' = IF Len(channel[c]) < Capacity
               THEN [channel EXCEPT ![c] = Append(@, place[w])] ELSE channel

(* Mutant: the channel has no limit.                                       *)
SendUnbounded(w, c) ==
    /\ wpc[w] = "publishing" /\ c \in receivers[w]
    /\ receivers' = [receivers EXCEPT ![w] = @ \ {c}]
    /\ channel' = [channel EXCEPT ![c] = Append(@, place[w])]
    /\ UNCHANGED <<logVars, faults, place, serving, client, viewVars>>

(* Mutant: the send waits for room.                                        *)
SendBlocking(w, c) ==
    /\ wpc[w] = "publishing" /\ c \in receivers[w] /\ Len(channel[c]) < Capacity
    /\ receivers' = [receivers EXCEPT ![w] = @ \ {c}]
    /\ Offer(w, c)
    /\ UNCHANGED <<logVars, faults, place, serving, client, viewVars>>

(* Send one subscriber the event; a full channel loses it.                 *)
Send(w, c) ==
    /\ wpc[w] = "publishing" /\ c \in receivers[w]
    /\ receivers' = [receivers EXCEPT ![w] = @ \ {c}]
    /\ Offer(w, c)
    /\ UNCHANGED <<logVars, faults, place, serving, client, viewVars>>

Return(w) ==
    /\ \/ ~HasBus(w) /\ wpc[w] = "committed"
       \/ wpc[w] = "publishing" /\ receivers[w] = {}
    /\ wpc' = [wpc EXCEPT ![w] = "idle"]
    /\ place' = [place EXCEPT ![w] = 0]
    /\ UNCHANGED <<log, spent, draft, snapshot, faults, receivers, connectionVars, viewVars>>

InLog(w, step) ==
    /\ step
    /\ place' = IF log' = log THEN place ELSE [place EXCEPT ![w] = Len(log')]
    /\ UNCHANGED <<receivers, connectionVars, viewVars>>

Start(w) == InLog(w, WriteEventThenRow(w) \/ RecordCost(w) \/ CountKey(w))

Proceed(w) ==
    \/ InLog(w, WriteEventIdempotent(w) \/ Commit(w) \/ Fail(w))
    \/ Publish(w) \/ (\E c \in Connections : Send(w, c)) \/ Return(w)
-----------------------------------------------------------------------------
(* The streams of a viewer that have no connection ask for one: watch when *)
(* it starts and after its backoff, the dashboard when Update subscribes,  *)
(* after every event and after the backoff.                                *)
Held(v) == {c \in Connections : client[c] = v}
Waits(v) == Cardinality(Held(v)) < streams[v]

(* The handler subscribes.                                                 *)
Joins(v, c) ==
    /\ serving' = serving \cup {c}
    /\ client' = [client EXCEPT ![c] = v]
    /\ UNCHANGED <<logVars, faults, busVars, viewVars>>

Free == {c \in Connections \ serving : \A w \in Writers : c \notin receivers[w]}
FreeConnection == CHOOSE c \in Free : TRUE

(* Mutant: a viewer starts another stream although it has one.             *)
CanConnectTwice(v) == Cardinality(Held(v)) <= streams[v] /\ Free # {}

CanConnect(v) == Waits(v) /\ Free # {}

Connect(v) ==
    /\ CanConnect(v) /\ Joins(v, FreeConnection)
    /\ channel' = [channel EXCEPT ![FreeConnection] = <<>>]

(* Update puts the error in m.err and starts a stream after a while.       *)
GetErrMsg(who) == failed' = failed \cup (who \cap Dashboards)

(* The daemon does not answer.  (For watch that is a step in which nothing *)
(* happens.)                                                               *)
Refuse(v) ==
    /\ Waits(v)
    /\ faults < MaxFaults /\ faults' = faults + 1
    /\ GetErrMsg({v})
    /\ UNCHANGED <<logVars, busVars, connectionVars, streams, taken, shown>>

(* a, r or p on an attention item, which is on the panes by an event of    *)
(* kind "state": the daemon refuses the answer, and the stream that Update *)
(* starts is one more.                                                     *)
AnswerRefused(v) ==
    /\ streams[v] < MaxStreams
    /\ \E i \in 1..Len(taken[v]) : log[taken[v][i]].kind = "state"
    /\ streams' = [streams EXCEPT ![v] = @ + 1]
    /\ GetErrMsg({v})
    /\ UNCHANGED <<logVars, faults, busVars, connectionVars, taken, shown>>

Accepts(v, e) == e.run \in Wanted[v]

(* watch prints the event and reads on.                                    *)
PrintEvent(v, n) ==
    /\ v \notin Dashboards
    /\ shown' = [shown EXCEPT ![v] = Append(@, n)]
    /\ UNCHANGED client

(* Mutant: View shows the panes again when an event has come.              *)
TakeAndShow(v, c, n) ==
    /\ v \in Dashboards
    /\ shown' = [shown EXCEPT ![v] = Append(taken[v], n)]
    /\ client' = [client EXCEPT ![c] = NoViewer]

(* The dashboard closes the connection after the first event and adds the  *)
(* event to its panes, whether it has it or not.  View shows them as long  *)
(* as there was no error.                                                  *)
TakeOneEvent(v, c, n) ==
    /\ v \in Dashboards
    /\ shown' = IF v \in failed THEN shown ELSE [shown EXCEPT ![v] = Append(@, n)]
    /\ client' = [client EXCEPT ![c] = NoViewer]

Receive(v, c, n) ==
    /\ taken' = [taken EXCEPT ![v] = Append(@, n)]
    /\ PrintEvent(v, n) \/ TakeOneEvent(v, c, n)
    /\ UNCHANGED <<streams, failed>>


(* The handler takes an event and writes it if the filter lets it through. *)
(* What is written to a connection that is closed is lost.                 *)
Serve(c) ==
    /\ c \in serving /\ channel[c] # <<>>
    /\ channel' = [channel EXCEPT ![c] = Tail(@)]
    /\ IF client[c] # NoViewer /\ Accepts(client[c], log[Head(channel[c])])
       THEN Receive(client[c], c, Head(channel[c]))
       ELSE UNCHANGED <<client, viewVars>>
    /\ UNCHANGED <<logVars, faults, busVars, serving>>

(* Mutant: the handler learns that it is alone from a write that fails.    *)
HangUpOnWrite(c) ==
    /\ c \in serving /\ client[c] = NoViewer /\ channel[c] # <<>>
    /\ serving' = serving \ {c}
    /\ UNCHANGED <<logVars, faults, busVars, client, channel, viewVars>>

(* The request's context is done, or a write failed: unsubscribe, return.  *)
(* The channel stays for those who still want to send to it.               *)
HangUp(c) ==
    /\ c \in serving /\ client[c] = NoViewer
    /\ serving' = serving \ {c}
    /\ UNCHANGED <<logVars, faults, busVars, client, channel, viewVars>>

(* A connection breaks.                                                    *)
Drop(c) ==
    /\ client[c] # NoViewer
    /\ faults < MaxFaults /\ faults' = faults + 1
    /\ client' = [client EXCEPT ![c] = NoViewer]
    /\ GetErrMsg({client[c]})
    /\ UNCHANGED <<logVars, busVars, serving, channel, streams, taken, shown>>

(* The daemon dies and is started again: its writes that did not commit    *)
(* are rolled back, what it had not published never is, and every viewer   *)
(* loses its connection.                                                   *)
Restart ==
    /\ faults < MaxFaults /\ faults' = faults + 1
    /\ wpc' = [w \in Writers |-> IF w \in Daemon THEN "idle" ELSE wpc[w]]
    /\ draft' = [w \in Writers |-> IF w \in Daemon THEN NoEvent ELSE draft[w]]
    /\ snapshot' = [w \in Writers |-> IF w \in Daemon THEN 0 ELSE snapshot[w]]
    /\ place' = [w \in Writers |-> IF w \in Daemon THEN 0 ELSE place[w]]
    /\ receivers' = [w \in Writers |-> {}]
    /\ serving' = {}
    /\ client' = [c \in Connections |-> NoViewer]
    /\ channel' = [c \in Connections |-> <<>>]
    /\ GetErrMsg({client[c] : c \in Connections})
    /\ UNCHANGED <<log, spent, streams, taken, shown>>
-----------------------------------------------------------------------------
Next ==
    \/ \E w \in Writers : Start(w) \/ Proceed(w)
    \/ \E v \in Viewers : Connect(v)
    \/ \E v \in Dashboards : Refuse(v) \/ AnswerRefused(v)
    \/ \E c \in Connections : Serve(c) \/ HangUp(c) \/ Drop(c)
    \/ Restart

Spec == Init /\ [][Next]_vars

(* A write that was begun goes on until it returns, a handler as long as   *)
(* there is something to do: they are goroutines, and neither waits for a  *)
(* viewer.                                                                 *)
FairSpec ==
    /\ Spec
    /\ \A w \in Writers : WF_vars(Proceed(w))
    /\ \A c \in Connections : WF_vars(Serve(c) \/ HangUp(c))
-----------------------------------------------------------------------------
Promise == INSTANCE Feed WITH written <- log, seen <- shown

(* What viewers see was committed, was asked for, appears once, and the    *)
(* events of a writer in the order it wrote them, through lost             *)
(* connections, full channels and restarts of the daemon.  A dashboard     *)
(* with two streams does take events twice: what keeps them from being     *)
(* seen is that the error page stays.                                      *)
ImplementsFeed == Promise!FeedSpec

(* A viewer takes an event twice only with a second stream: neither a      *)
(* connection that breaks nor one that is refused brings an old event      *)
(* again.                                                                  *)
TakenOnce ==
    \A v \in Viewers : streams[v] = 1 =>
        \A i, j \in 1..Len(taken[v]) : taken[v][i] = taken[v][j] => i = j

(* No viewer holds a writer up: every write that is called returns.        *)
WritesReturn == \A w \in Writers : wpc[w] # "idle" ~> wpc[w] = "idle"

(* A handler whose viewer has left ends and takes its subscription along.  *)
HandlersEnd ==
    \A c \in Connections : c \in serving /\ client[c] = NoViewer ~> c \notin serving


(* docs/specs/000-coworker-runtime-design.md:534: every state change in    *)
(* the runtime emits an event to a typed bus.                              *)
EveryEventOnBus ==
    \A n \in 1..MaxEvents :
        Len(log) >= n /\ log[n].by \in Daemon
            ~> \E w \in Writers : wpc[w] = "publishing" /\ place[w] = n
=============================================================================
