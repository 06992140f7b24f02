---------------------------- MODULE OpenCodeJob ----------------------------
(***************************************************************************)
(* A job given to an OpenCode server (agent/opencode_http_agent.go): a     *)
(* session, a goroutine that reads the server's events and comes back when *)
(* the connection breaks, and another that posts the prompt.  Nothing      *)
(* orders the two.  The server is outside the repository.                  *)
(***************************************************************************)
EXTENDS Attempt, SequencesExt

CONSTANTS
    Replies,     \* what servers say to a prompt, event by event
    MaxFaults    \* how often a request fails or a connection breaks

(* Of another session; a message of the assistant; texts, which are the    *)
(* assistant's if they name that message.  The prompt comes back as a text *)
(* too, and shows what a finding looks like.                               *)
ServerEvents == {"foreign", "register", "prompt", "finding", "failed", "prose", "error", "idle"}
Texts == {"prompt", "finding", "failed", "prose"}

ASSUME RepliesAssumption == Replies \subseteq Seq(ServerEvents)
ASSUME FaultsAssumption == MaxFaults \in Nat

VARIABLES
    reply,     \* what this server says
    emitted,   \* how many events of it it has sent
    session,   \* "none", "open", "deleted", or "leaked" when nobody will delete it
    post,      \* the message: "none", "pending", "accepted", "failed"
    wire,      \* events sent to the agent and not read, as positions in reply
    missed,    \* was one sent while nobody listened, or lost with a connection?
    sse,       \* the reading goroutine: "none", "connect", "read", "backoff",
               \* "delete", "sent"
    ids,       \* assistantMsgIDs: is the assistant's message known?
    parts,     \* assistantParts, as positions in reply
    complete,  \* did session.idle end the reading?
    faults

serverVars == <<reply, emitted, session, post, missed>>
readingVars == <<ids, parts, complete>>
openVars == <<serverVars, wire, sse, readingVars, faults>>

OpenInit ==
    /\ reply \in Replies
    /\ emitted = 0 /\ session = "none" /\ post = "none"
    /\ wire = <<>> /\ missed = FALSE
    /\ sse = "none" /\ ids = FALSE /\ parts = <<>> /\ complete = FALSE
    /\ faults = 0

Fault == faults < MaxFaults /\ faults' = faults + 1
-----------------------------------------------------------------------------
(* createSession, and the two goroutines are started.                      *)
CreateSession ==
    /\ answer = "none" /\ ~Done
    /\ session' = "open" /\ sse' = "connect" /\ post' = "pending" /\ answer' = "awaited"
    /\ UNCHANGED <<ctx, found, exit, reply, emitted, missed, wire, readingVars, faults>>

(* The request fails, maybe only its answer, and then the session stays.   *)
CreateFails ==
    /\ answer = "none" /\ answer' = "error"
    /\ \/ Done /\ UNCHANGED <<session, faults>>
       \/ Fault /\ session' \in {"none", "leaked"}
    /\ UNCHANGED <<ctx, found, exit, reply, emitted, post, missed, wire, sse, readingVars>>

(* sendMessage.  Whoever fails here, nobody is told.                       *)
Post ==
    /\ post = "pending"
    /\ \/ ~Done /\ session = "open" /\ post' = "accepted" /\ UNCHANGED faults
       \/ (Done \/ session # "open") /\ post' = "failed" /\ UNCHANGED faults
       \/ Fault /\ post' = "failed"
    /\ UNCHANGED <<attemptVars, reply, emitted, session, missed, wire, sse, readingVars>>

(* The server sends its next event to whoever listens.                     *)
Emit ==
    LET n == emitted + 1 IN
    /\ session = "open" /\ post = "accepted" /\ n <= Len(reply)
    /\ emitted' = n
    /\ IF sse = "read" THEN wire' = Append(wire, n) /\ UNCHANGED missed
                       ELSE missed' = TRUE /\ UNCHANGED wire
    /\ UNCHANGED <<attemptVars, reply, session, post, sse, readingVars, faults>>
-----------------------------------------------------------------------------
Connect ==
    /\ sse = "connect" /\ ~Done
    /\ \/ sse' = "read" /\ UNCHANGED faults
       \/ sse' = "backoff" /\ Fault
    /\ UNCHANGED <<attemptVars, serverVars, wire, readingVars>>

(* Mutants: what is read counts before its message is known to be the      *)
(* assistant's; a new connection starts from nothing.                      *)
CountsAnyText(n) == reply[n] \in Texts
Forget == parts' = <<>>

CountsAsAssistant(n) == reply[n] \in Texts \ {"prompt"} /\ ids

(* processSSEEvent on the next event.                                      *)
Process ==
    LET n == Head(wire) IN
    /\ sse = "read" /\ wire # <<>>
    /\ wire' = Tail(wire)
    /\ ids' = (ids \/ reply[n] = "register")
    /\ parts' = IF CountsAsAssistant(n) THEN Append(parts, n) ELSE parts
    /\ complete' = (reply[n] = "idle")
    /\ sse' = IF reply[n] = "idle" THEN "delete" ELSE sse
    /\ UNCHANGED <<attemptVars, serverVars, faults>>

Kept == UNCHANGED parts

(* The connection breaks, and what it still held is lost.                  *)
Break ==
    /\ sse = "read" /\ Fault
    /\ sse' = "backoff" /\ wire' = <<>>
    /\ missed' = (missed \/ wire # <<>>)
    /\ Kept
    /\ UNCHANGED <<attemptVars, reply, emitted, session, post, ids, complete>>

Reconnect ==
    /\ sse = "backoff" /\ ~Done /\ sse' = "connect"
    /\ UNCHANGED <<attemptVars, serverVars, wire, readingVars, faults>>

(* The context is done: the loop ends with what there is.                  *)
Quit ==
    /\ Done /\ sse \in {"connect", "read", "backoff"}
    /\ sse' = "delete"
    /\ UNCHANGED <<attemptVars, serverVars, wire, readingVars, faults>>
-----------------------------------------------------------------------------
(* parseAssistantText: up to the first text that is no JSON.               *)
Parsed == {n \in ToSet(parts) : \A m \in ToSet(parts) : m <= n => reply[m] # "prose"}

(* Mutants: the DELETE is sent under the attempt's context, or never.      *)
DeleteUnderContext == session' = IF Done THEN session ELSE "deleted"
DeleteLater == UNCHANGED session

(* deleteSession has a context of its own.                                 *)
DeleteSession == session' = "deleted"

(* The session is deleted, or that fails, and then the result is handed    *)
(* over through a channel that holds it.                                   *)
Finish ==
    /\ sse = "delete" /\ sse' = "sent"
    /\ \/ DeleteSession /\ UNCHANGED faults
       \/ Fault /\ session' = "leaked"
    /\ found' = {n \in Parsed : reply[n] \in {"finding", "prompt"}}
    /\ exit' = IF \E n \in Parsed : reply[n] = "failed" THEN 1 ELSE 0
    /\ UNCHANGED <<ctx, answer, reply, emitted, post, missed, wire, readingVars>>

(* handle.Wait, whose context has no deadline of its own.                  *)
Receive ==
    /\ answer = "awaited"
    /\ \/ sse = "sent" /\ answer' = "result"
       \/ ctx = "cancelled" /\ answer' = "error"
    /\ UNCHANGED <<ctx, found, exit, openVars>>

Reading == Connect \/ Process \/ Reconnect \/ Quit \/ Finish
OpenNext == CreateSession \/ CreateFails \/ Post \/ Emit \/ Reading \/ Break \/ Receive

OpenCodeWork ==
    IF sse = "none" THEN "none" ELSE IF session = "open" THEN "alive" ELSE "over"
=============================================================================
