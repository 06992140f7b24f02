---------------------------- MODULE AgentsProofs ----------------------------
(***************************************************************************)
(* Proofs about Agents for whatever programs print and servers reply, any  *)
(* exit codes, pipes and number of faults.                                 *)
(***************************************************************************)
EXTENDS Agents, SequenceTheorems, TLAPS

(* Sequences of positions up to m.                                         *)
Positions(q, m) == q \in Seq(Nat) /\ \A i \in 1..Len(q) : q[i] \in 1..m

(* Pipes and streams are queues of positions, as long as they are empty,   *)
LEMMA EmptyPositions ==
  ASSUME NEW q, NEW m \in Nat, q = <<>>
  PROVE  Positions(q, m)
  BY DEF Positions

(* when more has been printed,                                             *)
LEMMA LaterPositions ==
  ASSUME NEW q, NEW m \in Nat, Positions(q, m), NEW n \in Nat, m <= n
  PROVE  Positions(q, n)
  BY DEF Positions

(* when something is put in,                                               *)
LEMMA AppendedPosition ==
  ASSUME NEW q, NEW m \in Nat, Positions(q, m), NEW n \in 1..m
  PROVE  Positions(Append(q, n), m) /\ Len(Append(q, n)) = Len(q) + 1
  BY DEF Positions

(* and when it is taken out.                                               *)
LEMMA TailPositions ==
  ASSUME NEW q, NEW m \in Nat, Positions(q, m), q # <<>>
  PROVE  /\ Head(q) \in 1..m /\ Positions(Tail(q), m)
         /\ Len(Tail(q)) = Len(q) - 1
  BY DEF Positions

(***************************************************************************)
(* The types of everything, and that no line is read before it is printed. *)
(***************************************************************************)
CliTypes ==
    /\ prints \in Seq(Lines) /\ printed \in 0..Len(prints)
    /\ child \in {"none", "running", "ended"} /\ code \in Nat \cup {-1}
    /\ left \in BOOLEAN
    /\ Positions(stdout, printed) /\ Len(stdout) <= PipeSize
    /\ Positions(stderr, printed) /\ Len(stderr) <= PipeSize
    /\ reader \in {"json", "raw", "stderr", "reap", "done"}
    /\ cost \in 0..printed

OpenTypes ==
    /\ reply \in Seq(ServerEvents) /\ emitted \in 0..Len(reply)
    /\ session \in {"none", "open", "deleted", "leaked"}
    /\ post \in {"none", "pending", "accepted", "failed"}
    /\ Positions(wire, emitted) /\ missed \in BOOLEAN
    /\ sse \in {"none", "connect", "read", "backoff", "delete", "sent"}
    /\ ids \in BOOLEAN /\ complete \in BOOLEAN
    /\ Positions(parts, emitted)
    /\ faults \in 0..MaxFaults

AttemptTypes ==
    /\ kind \in {"cli", "opencode"}
    /\ ctx \in {"live", "deadline", "cancelled"}
    /\ answer \in {"none", "awaited", "result", "error"}
    /\ found \subseteq Nat /\ exit \in ExitCodes \cup {-1, 0, 1}
    /\ code \in ExitCodes \cup {-1, 0}

Types == AttemptTypes /\ CliTypes /\ OpenTypes

LEMMA InitTypes == Init => Types
  <1> SUFFICES ASSUME Init PROVE Types
    OBVIOUS
  <1>1. CliTypes
    <2>1. prints \in Seq(Lines) /\ printed = 0
      BY PrintsAssumption DEF Init, CliInit
    <2>2. printed \in 0..Len(prints) /\ cost \in 0..printed
      BY <2>1 DEF Init, CliInit
    <2>3. /\ Positions(stdout, printed) /\ Len(stdout) = 0
          /\ Positions(stderr, printed) /\ Len(stderr) = 0
      BY EmptyPositions DEF Init, CliInit
    <2>4. /\ child \in {"none", "running", "ended"} /\ code \in Nat \cup {-1}
          /\ left \in BOOLEAN /\ reader \in {"json", "raw", "stderr", "reap", "done"}
      BY DEF Init, CliInit
    <2> QED BY <2>1, <2>2, <2>3, <2>4, ExitAssumption DEF CliTypes
  <1>2. OpenTypes
    <2>1. reply \in Seq(ServerEvents) /\ emitted = 0
      BY RepliesAssumption DEF Init, OpenInit
    <2>2. emitted \in 0..Len(reply)
      BY <2>1
    <2>3. Positions(wire, emitted) /\ Positions(parts, emitted)
      BY EmptyPositions DEF Init, OpenInit
    <2>4. /\ session \in {"none", "open", "deleted", "leaked"}
          /\ post \in {"none", "pending", "accepted", "failed"}
          /\ sse \in {"none", "connect", "read", "backoff", "delete", "sent"}
          /\ missed \in BOOLEAN /\ ids \in BOOLEAN /\ complete \in BOOLEAN
      BY DEF Init, OpenInit
    <2>5. faults \in 0..MaxFaults
      BY FaultsAssumption DEF Init, OpenInit
    <2> QED BY <2>1, <2>2, <2>3, <2>4, <2>5 DEF OpenTypes
  <1>3. AttemptTypes
    BY DEF Init, AttemptInit, CliInit, AttemptTypes
  <1> QED BY <1>1, <1>2, <1>3 DEF Types

(* The steps of a CLI keep the types.                                      *)
LEMMA CliKeepsTypes == Types /\ Cli(CliNext) => Types'
  <1> SUFFICES ASSUME Types, Cli(CliNext) PROVE Types'
    OBVIOUS
  <1> USE DEF Types, AttemptTypes, CliTypes, readVars, pipeVars
  <1>1. OpenTypes' /\ kind' = kind
    BY DEF Cli, openVars, serverVars, readingVars, OpenTypes
  <1>2. CASE CliDispatch
    BY <1>1, <1>2 DEF CliDispatch
  <1>3. CASE PrintLine
    <2>1. printed' = printed + 1 /\ printed' \in 0..Len(prints) /\ cost \in 0..printed'
      BY <1>3 DEF PrintLine
    <2>2. /\ \/ stdout' = stdout
             \/ stdout' = Append(stdout, printed') /\ Len(stdout) < PipeSize
          /\ \/ stderr' = stderr
             \/ stderr' = Append(stderr, printed') /\ Len(stderr) < PipeSize
      BY <1>3 DEF PrintLine, HasRoom
    <2>3. /\ printed \in Nat /\ printed' \in Nat /\ printed' \in 1..printed' /\ printed <= printed'
          /\ Len(stdout) \in Nat /\ Len(stderr) \in Nat
      BY <2>1 DEF Positions
    <2>4. Positions(stdout, printed') /\ Positions(stderr, printed')
      BY <2>3, LaterPositions
    <2>5. /\ Positions(stdout', printed') /\ Len(stdout') <= PipeSize
          /\ Positions(stderr', printed') /\ Len(stderr') <= PipeSize
      <3> HIDE DEF Types, AttemptTypes, CliTypes
      <3>1. Len(stdout) <= PipeSize /\ Len(stderr) <= PipeSize
        BY DEF Types, CliTypes
      <3>2. Positions(Append(stdout, printed'), printed') /\ Len(Append(stdout, printed')) = Len(stdout) + 1
        BY <2>3, <2>4, AppendedPosition
      <3>3. Positions(Append(stderr, printed'), printed') /\ Len(Append(stderr, printed')) = Len(stderr) + 1
        BY <2>3, <2>4, AppendedPosition
      <3>4. Positions(stdout', printed') /\ Positions(stderr', printed')
        BY <2>2, <2>4, <3>2, <3>3
      <3>5. Len(stdout') <= PipeSize
        BY <2>2, <2>3, <3>1, <3>2, ExitAssumption
      <3>6. Len(stderr') <= PipeSize
        BY <2>2, <2>3, <3>1, <3>3, ExitAssumption
      <3> QED BY <3>4, <3>5, <3>6
    <2>6. UNCHANGED <<ctx, answer, prints, child, code, left, reader, cost, found, exit>>
      BY <1>3 DEF PrintLine
    <2> QED BY <1>1, <2>1, <2>5, <2>6
  <1>4. CASE ExitChild \/ Kill
    BY <1>1, <1>4, ExitAssumption DEF ExitChild, Kill
  <1>5. CASE LeftEnds
    <2>1. left' \in BOOLEAN
      BY <1>5 DEF LeftEnds
    <2>2. UNCHANGED <<ctx, answer, prints, printed, child, code, stdout, stderr, readVars>>
      BY <1>5 DEF LeftEnds
    <2> QED BY <1>1, <2>1, <2>2
  <1>6. CASE ReadLine
    <2>1. stdout # <<>> /\ stdout' = Tail(stdout)
      BY <1>6 DEF ReadLine
    <2>2. /\ Head(stdout) \in 1..printed /\ Positions(stdout', printed)
          /\ Len(stdout') = Len(stdout) - 1
      BY <2>1, TailPositions
    <2>3. Len(stdout') <= PipeSize
      BY <2>2, ExitAssumption DEF Positions
    <2>4. cost' \in 0..printed
      BY <1>6, <2>2 DEF ReadLine, PopulateCost
    <2>5. found' \subseteq Nat
      <3>1. found' \subseteq found \cup {Head(stdout)}
        BY <1>6 DEF ReadLine
      <3>2. Head(stdout) \in Nat
        BY <2>2
      <3> QED BY <3>1, <3>2
    <2>6. exit' \in ExitCodes \cup {-1, 0, 1}
      BY <1>6 DEF ReadLine
    <2>7. /\ UNCHANGED <<ctx, answer, prints, printed, child, code, left, stderr>>
          /\ reader' \in {"raw", reader}
      BY <1>6 DEF ReadLine
    <2> QED BY <1>1, <2>2, <2>3, <2>4, <2>5, <2>6, <2>7
  <1>7. CASE EndOfStdout
    BY <1>1, <1>7 DEF EndOfStdout
  <1>8. CASE ReadStderr
    <2>1. stderr' = <<>> \/ stderr' = stderr
      BY <1>8 DEF ReadStderr
    <2>2. Positions(stderr', printed) /\ Len(stderr') <= PipeSize
      BY <2>1, EmptyPositions, ExitAssumption
    <2>3. /\ UNCHANGED <<ctx, answer, prints, printed, child, code, left, stdout, found, cost, exit>>
          /\ reader' \in {"reap", reader}
      BY <1>8 DEF ReadStderr
    <2> QED BY <1>1, <2>2, <2>3
  <1>9. CASE Reap
    BY <1>1, <1>9 DEF Reap, ExitCode
  <1> QED BY <1>2, <1>3, <1>4, <1>5, <1>6, <1>7, <1>8, <1>9 DEF Cli, CliNext, Program, Waiting

(* Faults are bounded.                                                     *)
LEMMA FaultsBounded == ASSUME OpenTypes, Fault PROVE faults' \in 0..MaxFaults
  BY FaultsAssumption DEF Fault, OpenTypes

(* The steps of an OpenCode session keep the types.                        *)
LEMMA OpenCodeKeepsTypes == Types /\ OpenCode(OpenNext) => Types'
  <1> SUFFICES ASSUME Types, OpenCode(OpenNext) PROVE Types'
    OBVIOUS
  <1> USE DEF Types, AttemptTypes, OpenTypes, attemptVars, serverVars, readingVars
  <1>1. CliTypes' /\ kind' = kind /\ code' = code
    BY DEF OpenCode, cliVars, pipeVars, CliTypes
  <1>2. CASE CreateSession
    BY <1>1, <1>2 DEF CreateSession
  <1>3. CASE CreateFails
    <2>1. faults' \in 0..MaxFaults /\ session' \in {session, "none", "leaked"}
      BY <1>3, FaultsBounded DEF CreateFails
    <2> QED BY <1>1, <1>3, <2>1 DEF CreateFails
  <1>4. CASE Post
    <2>1. faults' \in 0..MaxFaults /\ post' \in {"accepted", "failed"}
      BY <1>4, FaultsBounded DEF Post
    <2> QED BY <1>1, <1>4, <2>1 DEF Post
  <1>5. CASE Emit
    <2>1. emitted' = emitted + 1 /\ emitted' \in 0..Len(reply)
      BY <1>5 DEF Emit
    <2>2. wire' = wire \/ wire' = Append(wire, emitted')
      BY <1>5 DEF Emit
    <2>3. Positions(wire, emitted') /\ Positions(parts, emitted')
      BY <2>1, LaterPositions
    <2>4. Positions(wire', emitted')
      <3>1. emitted' \in Nat /\ emitted' \in 1..emitted'
        BY <2>1
      <3>2. Positions(Append(wire, emitted'), emitted')
        <4> HIDE DEF Types, AttemptTypes, OpenTypes
        <4> QED BY <2>3, <3>1, AppendedPosition
      <3> QED BY <2>2, <2>3, <3>2
    <2>6. missed' \in BOOLEAN
      BY <1>5 DEF Emit
    <2>7. /\ UNCHANGED <<ctx, answer, found, exit, reply, session, post, sse, ids, parts>>
          /\ UNCHANGED <<complete, faults>>
      BY <1>5 DEF Emit
    <2> QED BY <1>1, <2>1, <2>3, <2>4, <2>6, <2>7
  <1>6. CASE Connect \/ Reconnect \/ Quit
    <2>1. faults' \in 0..MaxFaults /\ sse' \in {"read", "backoff", "connect", "delete"}
      BY <1>6, FaultsBounded DEF Connect, Reconnect, Quit
    <2>2. UNCHANGED <<attemptVars, serverVars, wire, readingVars>>
      BY <1>6 DEF Connect, Reconnect, Quit
    <2> QED BY <1>1, <2>1, <2>2
  <1>7. CASE Process
    <2>1. wire # <<>> /\ wire' = Tail(wire)
      BY <1>7 DEF Process
    <2>2. Head(wire) \in 1..emitted /\ Positions(wire', emitted)
      BY <2>1, TailPositions
    <2>3. parts' = parts \/ parts' = Append(parts, Head(wire))
      BY <1>7 DEF Process
    <2>4. Positions(parts', emitted)
      <3>1. Positions(parts, emitted) /\ emitted \in Nat
        OBVIOUS
      <3>2. Positions(Append(parts, Head(wire)), emitted)
        <4> HIDE DEF Types, AttemptTypes, OpenTypes
        <4> QED BY <2>2, <3>1, AppendedPosition
      <3> QED BY <2>3, <3>1, <3>2
    <2>7. ids' \in BOOLEAN /\ complete' \in BOOLEAN /\ sse' \in {"delete", sse}
      BY <1>7 DEF Process
    <2>8. UNCHANGED <<attemptVars, serverVars, faults>>
      BY <1>7 DEF Process
    <2> QED BY <1>1, <2>2, <2>4, <2>7, <2>8
  <1>8. CASE Finish
    <2>1. faults' \in 0..MaxFaults /\ session' \in {"deleted", "leaked"}
      BY <1>8, FaultsBounded DEF Finish, DeleteSession
    <2>2. ToSet(parts) \subseteq Nat
      BY DEF ToSet, Positions
    <2>3. found' \subseteq Nat
      BY <1>8, <2>2 DEF Finish, Parsed
    <2>4. exit' \in {0, 1} /\ sse' = "sent"
      BY <1>8 DEF Finish
    <2>5. UNCHANGED <<ctx, answer, reply, emitted, post, missed, wire, readingVars>>
      BY <1>8 DEF Finish
    <2> QED BY <1>1, <2>1, <2>3, <2>4, <2>5
  <1>9. CASE Break
    <2>1. faults' \in 0..MaxFaults /\ sse' = "backoff" /\ wire' = <<>> /\ missed' \in BOOLEAN
      BY <1>9, FaultsBounded DEF Break
    <2>3. Positions(wire', emitted)
      BY <2>1, EmptyPositions
    <2>2. UNCHANGED <<attemptVars, reply, emitted, session, post, ids, parts, complete>>
      BY <1>9 DEF Break, Kept
    <2> QED BY <1>1, <2>1, <2>2, <2>3
  <1>10. CASE Receive
    BY <1>1, <1>10 DEF Receive, openVars
  <1> QED BY <1>2, <1>3, <1>4, <1>5, <1>6, <1>7, <1>8, <1>9, <1>10 DEF OpenCode, OpenNext, Reading

LEMMA TypesKept == Types /\ [Next]_vars => Types'
  <1> SUFFICES ASSUME Types, [Next]_vars PROVE Types'
    OBVIOUS
  <1>1. ASSUME UNCHANGED <<kind, cliVars, openVars, answer, found, exit>>,
               ctx' \in {"live", "deadline", "cancelled"}
        PROVE  Types'
    <2>1. CliTypes'
      BY <1>1 DEF Types, CliTypes, cliVars, pipeVars
    <2>2. OpenTypes'
      BY <1>1 DEF Types, OpenTypes, openVars, serverVars, readingVars
    <2>3. AttemptTypes'
      BY <1>1 DEF Types, AttemptTypes, cliVars, pipeVars
    <2> QED BY <2>1, <2>2, <2>3 DEF Types
  <1>2. CASE Context
    BY <1>1, <1>2 DEF Context, Deadline, Interrupt
  <1>3. CASE UNCHANGED vars
    BY <1>1, <1>3 DEF vars, attemptVars, Types, AttemptTypes
  <1> QED BY <1>2, <1>3, CliKeepsTypes, OpenCodeKeepsTypes DEF Next

(***************************************************************************)
(* Type correctness, for roles with and without a budget.                  *)
(***************************************************************************)
THEOREM AgentsTypeCorrect == Spec => []AgentsTypeOK
  <1>1. Types => AgentsTypeOK
    BY DEF Types, AttemptTypes, CliTypes, OpenTypes, AgentsTypeOK
  <1> QED BY <1>1, InitTypes, TypesKept, PTL DEF Spec

(***************************************************************************)
(* How far the attempt is and how far the work is.                         *)
(***************************************************************************)
CliLife ==
    /\ child = "none" => answer \in {"none", "error"}
    /\ answer = "none" => child = "none"
    /\ left => child = "ended"
    /\ reader \in {"stderr", "reap"} => answer = "awaited" /\ child = "ended" /\ ~left

OpenLife ==
    /\ sse = "none" => answer \in {"none", "error"}
    /\ answer = "none" => sse = "none"
    /\ sse \in {"connect", "read", "backoff", "delete"} => session = "open"
    /\ sse = "sent" => session # "open"

Life == (kind = "cli" => CliLife) /\ (kind = "opencode" => OpenLife)

LEMMA InitLife == Init => Life
  BY DEF Init, AttemptInit, CliInit, OpenInit, Life, CliLife, OpenLife

(* The steps of a CLI keep where program, reader and Wait are;             *)
LEMMA CliKeepsLife == Types /\ Life /\ Cli(CliNext) => Life'
  <1> SUFFICES ASSUME Types, Life, Cli(CliNext) PROVE Life'
    OBVIOUS
  <1>1. kind = "cli" /\ kind' = "cli" /\ CliLife
    BY DEF Cli, Life
  <1>2. child \in {"none", "running", "ended"} /\ left \in BOOLEAN
    BY DEF Types, CliTypes
  <1> USE DEF CliLife, readVars, pipeVars
  <1>3. CASE CliDispatch
    BY <1>1, <1>3 DEF CliDispatch, Life
  <1>4. CASE PrintLine
    BY <1>1, <1>4 DEF PrintLine, Life
  <1>5. CASE ExitChild \/ Kill
    <2>1. /\ child = "running" /\ child' = "ended"
          /\ UNCHANGED <<answer, reader>>
      BY <1>5 DEF ExitChild, Kill
    <2> QED BY <1>1, <2>1 DEF Life
  <1>6. CASE LeftEnds
    BY <1>1, <1>6 DEF LeftEnds, Life
  <1>7. CASE ReadLine
    <2>1. UNCHANGED <<answer, child, left>> /\ reader' \in {"raw", reader}
      BY <1>7 DEF ReadLine
    <2> QED BY <1>1, <2>1 DEF Life
  <1>8. CASE EndOfStdout
    BY <1>1, <1>2, <1>8 DEF EndOfStdout, Closed, Life
  <1>9. CASE ReadStderr
    <2>1. /\ UNCHANGED <<answer, child, left>>
          /\ reader = "stderr" /\ reader' \in {"stderr", "reap"}
      BY <1>9 DEF ReadStderr
    <2> QED BY <1>1, <2>1 DEF Life
  <1>10. CASE Reap
    BY <1>1, <1>10 DEF Reap, Life
  <1> QED BY <1>3, <1>4, <1>5, <1>6, <1>7, <1>8, <1>9, <1>10
          DEF Cli, CliNext, Program, Waiting

(* so do those of a session for its POST and its stream.                   *)
LEMMA OpenCodeKeepsLife == Types /\ Life /\ OpenCode(OpenNext) => Life'
  <1> SUFFICES ASSUME Types, Life, OpenCode(OpenNext) PROVE Life'
    OBVIOUS
  <1>1. kind = "opencode" /\ kind' = "opencode" /\ OpenLife
    BY DEF OpenCode, Life
  <1> USE DEF OpenLife, attemptVars, serverVars
  <1>2. CASE CreateSession
    BY <1>1, <1>2 DEF CreateSession, Life
  <1>3. CASE CreateFails
    BY <1>1, <1>3 DEF CreateFails, Life
  <1>4. CASE Post \/ Emit
    <2>1. UNCHANGED <<answer, sse, session>>
      BY <1>4 DEF Post, Emit
    <2> QED BY <1>1, <2>1 DEF Life
  <1>5. CASE Connect \/ Process \/ Reconnect \/ Quit \/ Break
    <2>1. /\ UNCHANGED <<answer, session>>
          /\ sse \in {"connect", "read", "backoff"}
          /\ sse' \in {"connect", "read", "backoff", "delete"}
      BY <1>5 DEF Connect, Process, Reconnect, Quit, Break
    <2> QED BY <1>1, <2>1 DEF Life
  <1>6. CASE Finish
    <2>1. /\ UNCHANGED answer /\ sse = "delete" /\ sse' = "sent"
          /\ session' \in {"deleted", "leaked"}
      BY <1>6 DEF Finish, DeleteSession
    <2> QED BY <1>1, <2>1 DEF Life
  <1>7. CASE Receive
    BY <1>1, <1>7 DEF Receive, openVars, Life
  <1> QED BY <1>2, <1>3, <1>4, <1>5, <1>6, <1>7 DEF OpenCode, OpenNext, Reading

LEMMA LifeKept == Types /\ Life /\ [Next]_vars => Life'
  <1> SUFFICES ASSUME Types, Life, [Next]_vars PROVE Life'
    OBVIOUS
  <1>1. CASE Context
    BY <1>1 DEF Context, Deadline, Interrupt, Life, CliLife, OpenLife, cliVars, pipeVars, openVars,
       serverVars
  <1>2. CASE UNCHANGED vars
    BY <1>2 DEF vars, Life, CliLife, OpenLife, attemptVars, cliVars, pipeVars, openVars, serverVars
  <1> QED BY <1>1, <1>2, CliKeepsLife, OpenCodeKeepsLife DEF Next

(***************************************************************************)
(* Both agents keep the promise of JobHandle: Wait answers once, and with  *)
(* a result only when nothing of the program or its heirs is left, or the  *)
(* session was to be deleted.                                              *)
(***************************************************************************)
JobStep == [Handle!Begin \/ Handle!Refuse \/ Handle!End \/ Handle!Deliver \/ Handle!GiveUp]_<<Work, answer>>

(* What a step of a CLI is to JobHandle: one of its steps, or none.        *)
LEMMA CliJobStep == Types /\ Life /\ Cli(CliNext) => JobStep
  <1> SUFFICES ASSUME Types, Life, Cli(CliNext) PROVE JobStep
    OBVIOUS
  <1>1. /\ CliLife /\ Work = CliWork /\ Work' = CliWork'
        /\ child \in {"none", "running", "ended"} /\ left \in BOOLEAN
    BY DEF Cli, Life, Work, Types, CliTypes
  <1> USE DEF CliLife, CliWork, Closed, readVars, pipeVars, JobStep
  <1>2. CASE CliDispatch
    BY <1>1, <1>2 DEF CliDispatch, Handle!Begin, Handle!Refuse
  <1>3. CASE ExitChild \/ Kill \/ LeftEnds
    <2>1. /\ UNCHANGED answer /\ CliWork = "alive" /\ CliWork' \in {"alive", "over"}
      BY <1>1, <1>3 DEF ExitChild, Kill, LeftEnds
    <2> QED BY <1>1, <2>1 DEF Handle!End
  <1>4. CASE PrintLine \/ ReadLine \/ EndOfStdout \/ ReadStderr
    <2>1. UNCHANGED <<answer, child, left>>
      BY <1>4 DEF PrintLine, ReadLine, EndOfStdout, ReadStderr
    <2> QED BY <1>1, <2>1
  <1>5. CASE Reap
    BY <1>1, <1>5 DEF Reap, Handle!Deliver, Handle!GiveUp
  <1> QED BY <1>2, <1>3, <1>4, <1>5 DEF Cli, CliNext, Program, Waiting

(* And what a step of a session is.                                        *)
LEMMA OpenCodeJobStep == Types /\ Life /\ OpenCode(OpenNext) => JobStep
  <1> SUFFICES ASSUME Types, Life, OpenCode(OpenNext) PROVE JobStep
    OBVIOUS
  <1>1. OpenLife /\ Work = OpenCodeWork /\ Work' = OpenCodeWork'
    BY DEF OpenCode, Life, Work
  <1> USE DEF OpenLife, OpenCodeWork, attemptVars, serverVars, JobStep
  <1>2. CASE CreateSession \/ CreateFails
    BY <1>1, <1>2 DEF CreateSession, CreateFails, Handle!Begin, Handle!Refuse
  <1>3. CASE Post \/ Emit
    <2>1. UNCHANGED <<answer, sse, session>>
      BY <1>3 DEF Post, Emit
    <2> QED BY <1>1, <2>1
  <1>4. CASE Connect \/ Process \/ Reconnect \/ Quit \/ Break
    <2>1. UNCHANGED <<answer, session>> /\ sse # "none" /\ sse' # "none"
      BY <1>4 DEF Connect, Process, Reconnect, Quit, Break
    <2> QED BY <1>1, <2>1
  <1>5. CASE Finish
    <2>1. /\ UNCHANGED answer /\ sse = "delete" /\ sse' = "sent"
          /\ session' \in {"deleted", "leaked"}
      BY <1>5 DEF Finish, DeleteSession
    <2> QED BY <1>1, <2>1 DEF Handle!End
  <1>6. CASE Receive
    <2>1. /\ UNCHANGED <<sse, session>> /\ answer = "awaited"
          /\ (answer' = "result" /\ sse = "sent") \/ answer' = "error"
      BY <1>6 DEF Receive, openVars
    <2> QED BY <1>1, <2>1 DEF Handle!Deliver, Handle!GiveUp
  <1> QED BY <1>2, <1>3, <1>4, <1>5, <1>6 DEF OpenCode, OpenNext, Reading

(* Either agent implements JobHandle: Dispatch starts or refuses the work, *)
(* it ends once, and Wait gives one answer after that, or gives up.        *)
THEOREM JobHandleRefinement == Spec => ImplementsJobHandle
  <1>1. Init => Handle!JobInit
    BY DEF Init, AttemptInit, CliInit, OpenInit, Work, CliWork, OpenCodeWork, Handle!JobInit
  <1>2. Types /\ Life /\ [Next]_vars => JobStep
    <2> SUFFICES ASSUME Types, Life, [Next]_vars PROVE JobStep
      OBVIOUS
    <2>1. CASE Context
      <3>1. UNCHANGED <<kind, child, left, sse, session, answer>>
        BY <2>1 DEF Context, Deadline, Interrupt, cliVars, pipeVars, openVars, serverVars
      <3> QED BY <3>1 DEF JobStep, Work, CliWork, Closed, OpenCodeWork
    <2>2. CASE UNCHANGED vars
      <3>1. UNCHANGED <<kind, child, left, sse, session, answer>>
        BY <2>2 DEF vars, attemptVars, cliVars, pipeVars, openVars, serverVars
      <3> QED BY <3>1 DEF JobStep, Work, CliWork, Closed, OpenCodeWork
    <2> QED BY <2>1, <2>2, CliJobStep, OpenCodeJobStep DEF Next
  <1> QED BY <1>1, <1>2, InitTypes, TypesKept, InitLife, LifeKept, PTL
          DEF Spec, ImplementsJobHandle, Handle!JobSpec, JobStep, Handle!jobVars
=============================================================================
