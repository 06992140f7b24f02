------------------------- MODULE AgentAnswersProofs -------------------------
(***************************************************************************)
(* Proofs about what the two agents answer, for whatever programs print    *)
(* and servers reply and however that is delayed, cut off or lost.         *)
(***************************************************************************)
EXTENDS AgentsProofs

(* Of a queue of positions, those which are in front of all that wait.     *)
Passed(q, n) == \A i \in 1..Len(q) : n < q[i]
Waits(q, n) == \E i \in 1..Len(q) : q[i] = n
Rising(q) == \A i, j \in 1..Len(q) : i < j => q[i] < q[j]

(* Nothing waits in an empty pipe: every line has left it.                 *)
LEMMA EmptyQueue ==
  ASSUME NEW q, q = <<>>
  PROVE  Rising(q) /\ \A n : Passed(q, n) /\ ~Waits(q, n)
  BY DEF Rising, Passed, Waits

(* A line that is printed waits behind those that were.                    *)
LEMMA AppendedQueue ==
  ASSUME NEW q, NEW m \in Nat, Positions(q, m), Rising(q), NEW n \in Nat, m < n
  PROVE  /\ Rising(Append(q, n))
         /\ Waits(Append(q, n), n) /\ ~Passed(Append(q, n), n)
         /\ \A k \in 1..m : /\ Passed(Append(q, n), k) <=> Passed(q, k)
                            /\ Waits(q, k) => Waits(Append(q, n), k)
  <1> DEFINE Q == Append(q, n)
  <1>1. /\ Len(q) \in Nat /\ Len(Q) = Len(q) + 1 /\ Q[Len(q) + 1] = n
        /\ \A i \in 1..Len(q) : Q[i] = q[i] /\ q[i] \in Nat /\ q[i] < n
    BY DEF Positions
  <1> HIDE DEF Q
  <1>2. Rising(Q)
    <2> SUFFICES ASSUME NEW i \in 1..Len(Q), NEW j \in 1..Len(Q), i < j PROVE Q[i] < Q[j]
      BY DEF Rising
    <2>1. i \in 1..Len(q) /\ (j = Len(q) + 1 \/ j \in 1..Len(q))
      BY <1>1
    <2>2. CASE j = Len(q) + 1
      BY <1>1, <2>1, <2>2
    <2>3. CASE j \in 1..Len(q)
      BY <1>1, <2>1, <2>3 DEF Rising
    <2> QED BY <2>1, <2>2, <2>3
  <1>3. Waits(Q, n) /\ ~Passed(Q, n)
    BY <1>1 DEF Waits, Passed
  <1>4. ASSUME NEW k \in 1..m
        PROVE  (Passed(Q, k) <=> Passed(q, k)) /\ (Waits(q, k) => Waits(Q, k))
    BY <1>1 DEF Waits, Passed
  <1> QED BY <1>2, <1>3, <1>4 DEF Q

(* The lines that have left a rising pipe are those before its head.       *)
LEMMA TakenQueue ==
  ASSUME NEW q, NEW m \in Nat, Positions(q, m), Rising(q), q # <<>>
  PROVE  /\ Rising(Tail(q)) /\ Passed(Tail(q), Head(q))
         /\ \A k \in Nat : /\ Passed(q, k) <=> k < Head(q)
                           /\ k <= Head(q) => Passed(Tail(q), k)
                           /\ Waits(q, k) => k = Head(q) \/ (Waits(Tail(q), k) /\ ~Passed(Tail(q), k))
  <1> DEFINE T == Tail(q)
  <1>1. /\ Len(q) \in Nat \ {0} /\ Len(T) = Len(q) - 1 /\ Head(q) = q[1]
        /\ \A i \in 1..Len(T) : T[i] = q[i + 1]
        /\ \A i \in 1..Len(q) : q[i] \in Nat
    BY DEF Positions
  <1> HIDE DEF T
  <1>2. \A i \in 2..Len(q) : q[1] < q[i]
    BY <1>1 DEF Rising
  <1>3. Rising(T)
    BY <1>1 DEF Rising
  <1>4. Passed(T, q[1])
    BY <1>1, <1>2 DEF Passed
  <1>5. ASSUME NEW k \in Nat
        PROVE  /\ Passed(q, k) <=> k < q[1]
               /\ k <= q[1] => Passed(T, k)
               /\ Waits(q, k) => k = q[1] \/ (Waits(T, k) /\ ~Passed(T, k))
    <2>1. Passed(q, k) <=> k < q[1]
      BY <1>1, <1>2 DEF Passed
    <2>2. ASSUME k <= q[1] PROVE Passed(T, k)
      <3>1. ASSUME NEW i \in 1..Len(T) PROVE k < T[i]
        <4>1. i + 1 \in 2..Len(q) /\ T[i] = q[i + 1] /\ q[i + 1] \in Nat /\ q[1] \in Nat
          BY <1>1
        <4> QED BY <1>2, <2>2, <4>1
      <3> QED BY <3>1 DEF Passed
    <2>3. ASSUME NEW i \in 1..Len(q), q[i] = k, k # q[1] PROVE Waits(T, k) /\ ~Passed(T, k)
      <3>1. i - 1 \in 1..Len(T) /\ T[i - 1] = k
        BY <1>1, <2>3
      <3> QED BY <3>1 DEF Waits, Passed
    <2> QED BY <2>1, <2>2, <2>3 DEF Waits
  <1> QED BY <1>1, <1>3, <1>4, <1>5 DEF T

(***************************************************************************)
(* What a program said and Wait has read, up to the first line that is no  *)
(* JSON.  The answer is what follows from that.                            *)
(***************************************************************************)
Said ==
    {n \in 1..printed :
        /\ prints[n] # "stderr" /\ Passed(stdout, n)
        /\ \A k \in 1..n : prints[k] # "noise"}

OfKinds(kinds) == {n \in Said : prints[n] \in kinds}

IsNewest(n, S) == n \in S /\ \A k \in S : k <= n

PipeInv ==
    /\ Rising(stdout)
    /\ \A i \in 1..Len(stdout) : prints[stdout[i]] # "stderr"
    /\ \A n \in 1..printed : prints[n] = "stderr" \/ Waits(stdout, n) \/ Passed(stdout, n)

ReaderInv ==
    /\ reader = "json" => \A n \in 1..printed : prints[n] = "noise" => ~Passed(stdout, n)
    /\ reader = "raw" => \E n \in 1..printed : prints[n] = "noise" /\ Passed(stdout, n)
    /\ reader \in {"stderr", "reap", "done"} => child = "ended" /\ stdout = <<>>
    /\ answer = "result" => reader = "done"

AnswerInv ==
    /\ found = OfKinds({"finding"})
    /\ \/ IsNewest(cost, OfKinds({"result"}))
       \/ OfKinds({"result"}) = {} /\ IsNewest(cost, OfKinds({"turn"}))
       \/ OfKinds({"result", "turn"}) = {} /\ cost = 0
    /\ reader # "done" \/ code = 0 =>
         \/ OfKinds({"done", "failed"}) = {} /\ exit = 0
         \/ \E n \in OfKinds({"done", "failed"}) :
              /\ IsNewest(n, OfKinds({"done", "failed"}))
              /\ exit = IF prints[n] = "failed" THEN 1 ELSE 0
    /\ answer = "result" /\ code # 0 => exit = code

CliInv == kind = "cli" => PipeInv /\ ReaderInv /\ AnswerInv

(***************************************************************************)
(* What an assistant said and the agent has read.                          *)
(***************************************************************************)
WireInv ==
    /\ Rising(wire)
    /\ ids => \E k \in 1..emitted : reply[k] = "register" /\ Passed(wire, k)
    /\ \A i \in 1..Len(parts) : OfAssistant(parts[i])

NothingMissed ==
    /\ \A n \in 1..emitted : Waits(wire, n) \/ Passed(wire, n)
    /\ \A n \in 1..emitted : Passed(wire, n) =>
         /\ reply[n] = "register" => ids
         /\ OfAssistant(n) => Waits(parts, n)
    /\ \A i \in 1..Len(parts) : Passed(wire, parts[i])
    /\ ~complete => \A n \in 1..emitted : Passed(wire, n) => reply[n] # "idle"
    /\ complete => \E p \in 1..emitted :
         /\ reply[p] = "idle" /\ Passed(wire, p)
         /\ \A n \in 1..emitted : Passed(wire, n) => n <= p
         /\ \A n \in 1..(p - 1) : reply[n] # "idle"

OpenEnds ==
    /\ complete => sse \in {"delete", "sent"}
    /\ answer = "result" => sse = "sent"

OpenFound ==
    sse = "sent" =>
        /\ found \subseteq {f \in 1..Len(reply) : reply[f] = "finding" /\ OfAssistant(f)}
        /\ complete /\ ~missed => found = SaidByAssistant

OpenInv ==
    kind = "opencode" => WireInv /\ (~missed => NothingMissed) /\ OpenEnds /\ OpenFound

(* A line that is printed is in its pipe and says nothing yet.             *)
LEMMA SaidPrinted ==
  ASSUME Types, PipeInv, PrintLine
  PROVE  Said' = Said /\ PipeInv'
  <1>1. /\ printed \in Nat /\ printed' = printed + 1 /\ prints' = prints
        /\ Positions(stdout, printed)
    BY DEF PrintLine, Types, CliTypes
  <1>2. CASE prints[printed'] = "stderr"
    <2>1. stdout' = stdout
      BY <1>1, <1>2 DEF PrintLine
    <2>2. 1..printed' = (1..printed) \cup {printed'}
      BY <1>1
    <2>3. Said' = Said
      BY <1>1, <1>2, <2>1, <2>2 DEF Said
    <2>4. PipeInv'
      BY <1>1, <1>2, <2>1, <2>2 DEF PipeInv
    <2> QED BY <2>3, <2>4
  <1>3. CASE prints[printed'] # "stderr"
    <2>1. stdout' = Append(stdout, printed')
      BY <1>1, <1>3 DEF PrintLine
    <2>2. \A n : n \in 1..printed' <=> n \in 1..printed \/ n = printed'
      BY <1>1
    <2>3. /\ Rising(stdout') /\ Waits(stdout', printed') /\ ~Passed(stdout', printed')
          /\ \A k \in 1..printed : /\ Passed(stdout', k) <=> Passed(stdout, k)
                                   /\ Waits(stdout, k) => Waits(stdout', k)
      <3>1. printed' \in Nat /\ printed < printed' /\ Rising(stdout)
        BY <1>1 DEF PipeInv
      <3> QED BY <1>1, <2>1, <3>1, AppendedQueue
    <2>4. Said' = Said
      <3>1. ASSUME NEW n \in Said' PROVE n \in Said
        <4>1. n \in 1..printed' /\ Passed(stdout', n)
          BY DEF Said
        <4>2. n \in 1..printed /\ Passed(stdout, n)
          BY <2>2, <2>3, <4>1
        <4> QED BY <1>1, <4>2 DEF Said
      <3>2. ASSUME NEW n \in Said PROVE n \in Said'
        <4>1. n \in 1..printed /\ Passed(stdout, n)
          BY DEF Said
        <4>2. n \in 1..printed' /\ Passed(stdout', n)
          BY <2>2, <2>3, <4>1
        <4> QED BY <1>1, <4>2 DEF Said
      <3> QED BY <3>1, <3>2
    <2>5. \A i \in 1..Len(stdout') : prints[stdout'[i]] # "stderr"
      <3>1. Len(stdout') = Len(stdout) + 1 /\ Len(stdout) \in Nat
        BY <2>1 DEF Types, CliTypes, Positions
      <3>2. \A i \in 1..Len(stdout') : IF i = Len(stdout') THEN stdout'[i] = printed' ELSE i \in 1..Len(stdout) /\ stdout'[i] = stdout[i]
        BY <2>1, <3>1 DEF Types, CliTypes, Positions
      <3> QED BY <1>3, <3>2 DEF PipeInv
    <2>6. ASSUME NEW n \in 1..printed'
          PROVE  prints[n] = "stderr" \/ Waits(stdout', n) \/ Passed(stdout', n)
      <3>1. CASE n = printed'
        BY <2>3, <3>1
      <3>2. CASE n \in 1..printed
        <4>1. prints[n] = "stderr" \/ Waits(stdout, n) \/ Passed(stdout, n)
          BY <3>2 DEF PipeInv
        <4> QED BY <2>3, <3>2, <4>1
      <3> QED BY <2>2, <3>1, <3>2
    <2>7. PipeInv'
      BY <1>1, <2>3, <2>5, <2>6 DEF PipeInv
    <2> QED BY <2>4, <2>7
  <1> QED BY <1>2, <1>3

(* Printing lets no line leave its pipe.                                   *)
LEMMA PassedPrinted ==
  ASSUME Types, PipeInv, PrintLine
  PROVE  /\ \A n \in 1..printed : n \in 1..printed' /\ (Passed(stdout', n) <=> Passed(stdout, n))
         /\ \A n \in 1..printed' : prints[n] = "noise" =>
              ~Passed(stdout', n) \/ (n \in 1..printed /\ Passed(stdout, n))
  <1>1. /\ printed \in Nat /\ printed' = printed + 1 /\ Positions(stdout, printed)
        /\ printed' \in Nat /\ printed < printed' /\ Rising(stdout)
    BY DEF PrintLine, Types, CliTypes, PipeInv
  <1>2. \A n : n \in 1..printed' <=> n \in 1..printed \/ n = printed'
    BY <1>1
  <1>3. CASE prints[printed'] = "stderr"
    <2>1. stdout' = stdout
      BY <1>1, <1>3 DEF PrintLine
    <2> QED BY <1>2, <1>3, <2>1
  <1>4. CASE prints[printed'] # "stderr"
    <2>1. stdout' = Append(stdout, printed')
      BY <1>1, <1>4 DEF PrintLine
    <2>2. /\ ~Passed(stdout', printed')
          /\ \A k \in 1..printed : Passed(stdout', k) <=> Passed(stdout, k)
      BY <1>1, <2>1, AppendedQueue
    <2> QED BY <1>2, <2>2
  <1> QED BY <1>3, <1>4

(* A line that is read adds to what was said, unless one before it was no JSON. *)
LEMMA SaidRead ==
  ASSUME Types, PipeInv, ReaderInv, ReadLine
  PROVE  /\ PipeInv' /\ Head(stdout) \in 1..printed
         /\ IF reader = "raw" \/ prints[Head(stdout)] = "noise" THEN Said' = Said
            ELSE Said' = Said \cup {Head(stdout)} /\ \A k \in Said : k < Head(stdout)
         /\ \A n \in 1..printed : Passed(stdout, n) => Passed(stdout', n)
         /\ Passed(stdout', Head(stdout))
         /\ \A n \in 1..printed : Passed(stdout', n) /\ ~Passed(stdout, n) =>
              n = Head(stdout) \/ prints[n] = "stderr"
  <1> DEFINE h == Head(stdout)
  <1>1. /\ stdout # <<>> /\ stdout' = Tail(stdout) /\ UNCHANGED <<prints, printed>>
        /\ printed \in Nat /\ Positions(stdout, printed) /\ Rising(stdout)
        /\ reader \in {"json", "raw"}
    BY DEF ReadLine, Types, CliTypes, PipeInv
  <1>2. h \in 1..printed /\ h \in Nat /\ Len(stdout) \in Nat \ {0} /\ stdout[1] = h
    BY <1>1, TailPositions DEF Positions
  <1>3. /\ Rising(stdout') /\ Passed(stdout', h)
        /\ \A k \in Nat : /\ Passed(stdout, k) <=> k < h
                          /\ k <= h => Passed(stdout', k)
                          /\ Waits(stdout, k) => k = h \/ (Waits(stdout', k) /\ ~Passed(stdout', k))
    BY <1>1, TakenQueue
  <1> HIDE DEF h
  <1>4. \A n \in 1..printed : n \in Nat /\ (prints[n] = "stderr" \/ Waits(stdout, n) \/ Passed(stdout, n))
    BY <1>1 DEF PipeInv
  <1>5. \A n \in 1..printed : Passed(stdout, n) => Passed(stdout', n)
    BY <1>3, <1>2
  <1>6. \A n \in 1..printed : Passed(stdout', n) /\ ~Passed(stdout, n) => n = h \/ prints[n] = "stderr"
    BY <1>3, <1>4
  <1>7. PipeInv'
    <2>1. \A n \in 1..printed : prints[n] = "stderr" \/ Waits(stdout', n) \/ Passed(stdout', n)
      BY <1>3, <1>4, <1>5
    <2>2. \A i \in 1..Len(stdout') : prints[stdout'[i]] # "stderr"
      <3>1. \A i \in 1..Len(stdout') : i + 1 \in 1..Len(stdout) /\ stdout'[i] = stdout[i + 1]
        BY <1>1 DEF Positions
      <3> QED BY <3>1 DEF PipeInv
    <2> QED BY <1>1, <1>3, <2>1, <2>2 DEF PipeInv
  <1>8. Said \subseteq Said'
    BY <1>1, <1>5 DEF Said
  <1>9. Said' \subseteq Said \cup {h}
    BY <1>1, <1>6 DEF Said
  <1>10. \A k \in Said : k < h
    BY <1>3, <1>4 DEF Said
  <1>11. CASE reader = "raw" \/ prints[h] = "noise"
    <2>1. PICK m \in 1..printed : prints[m] = "noise" /\ m <= h
      BY <1>2, <1>3, <1>4, <1>11 DEF ReaderInv
    <2>2. h \notin Said'
      BY <1>1, <1>2, <2>1 DEF Said
    <2>3. Said' = Said
      BY <1>8, <1>9, <2>2
    <2> QED BY <1>2, <1>3, <1>5, <1>6, <1>7, <1>11, <2>3 DEF h
  <1>12. CASE ~(reader = "raw" \/ prints[h] = "noise")
    <2>1. reader = "json" /\ prints[h] # "noise"
      BY <1>1, <1>12
    <2>2. \A k \in 1..h : prints[k] # "noise"
      <3>1. \A k \in 1..h : k \in 1..printed /\ k \in Nat /\ (k = h \/ k < h)
        BY <1>1, <1>2
      <3> QED BY <1>3, <1>4, <2>1, <3>1 DEF ReaderInv
    <2>3. prints[h] # "stderr"
      BY <1>2, <1>1 DEF PipeInv
    <2>4. h \in Said'
      BY <1>1, <1>2, <1>3, <2>2, <2>3 DEF Said
    <2>5. Said' = Said \cup {h}
      BY <1>8, <1>9, <2>4
    <2> QED BY <1>2, <1>3, <1>5, <1>6, <1>7, <1>10, <1>12, <2>5 DEF h
  <1> QED BY <1>11, <1>12

(* What moves neither what was said nor what was found keeps the answer.   *)
LEMMA AnswerKept ==
  ASSUME AnswerInv, Said' = Said, UNCHANGED <<prints, found, cost, exit>>,
         reader' # "done" \/ code' = 0 => reader # "done" \/ code = 0,
         answer' = "result" /\ code' # 0 => exit = code'
  PROVE  AnswerInv'
  <1>1. \A K : OfKinds(K)' = OfKinds(K)
    BY DEF OfKinds
  <1>2. found' = OfKinds({"finding"})'
    BY <1>1 DEF AnswerInv
  <1>3. (\/ IsNewest(cost, OfKinds({"result"}))
         \/ OfKinds({"result"}) = {} /\ IsNewest(cost, OfKinds({"turn"}))
         \/ OfKinds({"result", "turn"}) = {} /\ cost = 0)'
    BY <1>1 DEF AnswerInv, IsNewest
  <1>4. (reader # "done" \/ code = 0 =>
           \/ OfKinds({"done", "failed"}) = {} /\ exit = 0
           \/ \E n \in OfKinds({"done", "failed"}) :
                /\ IsNewest(n, OfKinds({"done", "failed"}))
                /\ exit = IF prints[n] = "failed" THEN 1 ELSE 0)'
    BY <1>1 DEF AnswerInv, IsNewest
  <1> QED BY <1>2, <1>3, <1>4 DEF AnswerInv

LEMMA InitCliInv == Init => CliInv
  <1> SUFFICES ASSUME Init PROVE PipeInv /\ ReaderInv /\ AnswerInv
    BY DEF CliInv
  <1>1. /\ printed = 0 /\ stdout = <<>> /\ reader = "json" /\ cost = 0 /\ code = 0
        /\ answer = "none" /\ found = {} /\ exit = 0
    BY DEF Init, CliInit, AttemptInit
  <1>2. Rising(stdout) /\ Len(stdout) = 0
    BY <1>1, EmptyQueue
  <1>3. PipeInv /\ ReaderInv
    BY <1>1, <1>2 DEF PipeInv, ReaderInv
  <1>4. Said = {}
    BY <1>1 DEF Said
  <1>5. \A K : OfKinds(K) = {}
    BY <1>4 DEF OfKinds
  <1>6. AnswerInv
    BY <1>1, <1>5 DEF AnswerInv
  <1> QED BY <1>3, <1>6

(* One more line is read that is JSON.                                     *)
LEMMA LineTaken ==
  ASSUME Types, PipeInv, ReaderInv, AnswerInv, ReadLine,
         reader = "json", prints[Head(stdout)] # "noise"
  PROVE  AnswerInv'
  <1> DEFINE h == Head(stdout)
  <1>1. /\ h \in Nat \ {0} /\ Said' = Said \cup {h} /\ \A k \in Said : k < h
    BY SaidRead
  <1>2. Said \subseteq Nat
    BY DEF Said
  <1>3. /\ prints' = prints /\ reader' = reader /\ answer' = answer /\ answer = "awaited"
        /\ found' = IF prints[h] = "finding" THEN found \cup {h} ELSE found
        /\ exit' = IF prints[h] = "done" THEN 0 ELSE IF prints[h] = "failed" THEN 1 ELSE exit
        /\ cost' = PopulateCost(h)
    BY DEF ReadLine
  <1> HIDE DEF h
  <1>4. \A K : OfKinds(K)' = OfKinds(K) \cup (IF prints[h] \in K THEN {h} ELSE {})
    BY <1>1, <1>3 DEF OfKinds
  <1>5. \A K : prints[h] \in K => IsNewest(h, OfKinds(K)')
    BY <1>1, <1>2, <1>4 DEF IsNewest, OfKinds
  <1>6. found' = OfKinds({"finding"})'
    BY <1>3, <1>4 DEF AnswerInv
  <1>7. (\/ IsNewest(cost, OfKinds({"result"}))
         \/ OfKinds({"result"}) = {} /\ IsNewest(cost, OfKinds({"turn"}))
         \/ OfKinds({"result", "turn"}) = {} /\ cost = 0)'
    <2>1. CASE prints[h] = "result"
      BY <1>3, <1>5, <2>1 DEF PopulateCost
    <2>2. CASE prints[h] = "turn"
      <3>1. OfKinds({"result"})' = OfKinds({"result"})
        BY <1>4, <2>2
      <3>2. CASE IsNewest(cost, OfKinds({"result"}))
        <4>1. prints[cost] = "result" /\ cost \in Said
          BY <3>2 DEF IsNewest, OfKinds
        <4>2. cost # 0
          BY <4>1 DEF Said
        <4> QED BY <1>3, <2>2, <3>1, <3>2, <4>1, <4>2 DEF PopulateCost
      <3>3. CASE OfKinds({"result"}) = {}
        <4>1. cost = 0 \/ prints[cost] # "result"
          BY <3>3 DEF AnswerInv, IsNewest, OfKinds
        <4>2. cost' = h
          BY <1>3, <2>2, <4>1 DEF PopulateCost
        <4> QED BY <1>5, <2>2, <3>1, <3>3, <4>2
      <3>4. OfKinds({"result", "turn"}) = {} => OfKinds({"result"}) = {}
        BY DEF OfKinds
      <3> QED BY <3>2, <3>3, <3>4 DEF AnswerInv
    <2>3. CASE prints[h] \notin {"result", "turn"}
      <3>1. cost' = cost
        BY <1>3, <2>3 DEF PopulateCost
      <3>2. /\ OfKinds({"result"})' = OfKinds({"result"}) /\ OfKinds({"turn"})' = OfKinds({"turn"})
            /\ OfKinds({"result", "turn"})' = OfKinds({"result", "turn"})
        BY <1>4, <2>3
      <3> QED BY <3>1, <3>2 DEF AnswerInv, IsNewest
    <2> QED BY <2>1, <2>2, <2>3
  <1>8. (\/ OfKinds({"done", "failed"}) = {} /\ exit = 0
         \/ \E n \in OfKinds({"done", "failed"}) :
              /\ IsNewest(n, OfKinds({"done", "failed"}))
              /\ exit = IF prints[n] = "failed" THEN 1 ELSE 0)'
    <2>1. CASE prints[h] \in {"done", "failed"}
      <3>1. IsNewest(h, OfKinds({"done", "failed"})') /\ h \in OfKinds({"done", "failed"})'
        BY <1>4, <1>5, <2>1
      <3>2. exit' = IF prints'[h] = "failed" THEN 1 ELSE 0
        BY <1>3, <2>1
      <3> QED BY <3>1, <3>2 DEF IsNewest
    <2>2. CASE prints[h] \notin {"done", "failed"}
      <3>1. OfKinds({"done", "failed"})' = OfKinds({"done", "failed"}) /\ exit' = exit
        BY <1>3, <1>4, <2>2
      <3>2. \/ OfKinds({"done", "failed"}) = {} /\ exit = 0
            \/ \E n \in OfKinds({"done", "failed"}) :
                 /\ IsNewest(n, OfKinds({"done", "failed"}))
                 /\ exit = IF prints[n] = "failed" THEN 1 ELSE 0
        BY DEF AnswerInv
      <3> QED BY <1>3, <3>1, <3>2 DEF IsNewest
    <2> QED BY <2>1, <2>2
  <1> QED BY <1>3, <1>6, <1>7, <1>8 DEF AnswerInv

(* The program, its reader and Wait keep the invariant, step by step.      *)
LEMMA CliKeepsCliInv == Types /\ Life /\ CliInv /\ Cli(CliNext) => CliInv'
  <1> SUFFICES ASSUME Types, Life, CliInv, Cli(CliNext) PROVE PipeInv' /\ ReaderInv' /\ AnswerInv'
    BY DEF CliInv
  <1>1. CliLife /\ PipeInv /\ ReaderInv /\ AnswerInv
    BY DEF Cli, CliInv, Life
  <1>2. CASE CliDispatch \/ LeftEnds
    <2>1. /\ UNCHANGED <<prints, printed, stdout, reader, found, cost, exit, code>>
          /\ child' = child \/ child = "none"
          /\ answer' = "result" => answer = "result"
      BY <1>1, <1>2 DEF CliDispatch, LeftEnds, readVars, CliLife
    <2>2. Said' = Said /\ PipeInv'
      BY <1>1, <2>1 DEF Said, PipeInv
    <2>3. ReaderInv'
      BY <1>1, <2>1 DEF ReaderInv
    <2>4. AnswerInv'
      BY <1>1, <2>1, <2>2, AnswerKept DEF AnswerInv
    <2> QED BY <2>2, <2>3, <2>4
  <1>3. CASE PrintLine
    <2>1. /\ UNCHANGED <<prints, reader, found, cost, exit, code, answer>>
          /\ child = "running"
      BY <1>3 DEF PrintLine, readVars
    <2>2. Said' = Said /\ PipeInv'
      BY <1>1, <1>3, SaidPrinted
    <2>3. reader \in {"json", "raw"} /\ answer # "result"
      BY <1>1, <2>1 DEF ReaderInv, Types, CliTypes
    <2>4. AnswerInv'
      BY <1>1, <2>1, <2>2, <2>3, AnswerKept
    <2>5. ReaderInv'
      <3>1. /\ \A n \in 1..printed : n \in 1..printed' /\ (Passed(stdout', n) <=> Passed(stdout, n))
            /\ \A n \in 1..printed' : prints[n] = "noise" =>
                 ~Passed(stdout', n) \/ (n \in 1..printed /\ Passed(stdout, n))
        BY <1>1, <1>3, PassedPrinted
      <3> QED BY <1>1, <2>1, <2>3, <3>1 DEF ReaderInv
    <2> QED BY <2>2, <2>4, <2>5
  <1>4. CASE ExitChild \/ Kill
    <2>1. /\ UNCHANGED <<prints, printed, stdout, reader, found, cost, exit, answer>>
          /\ child = "running"
      BY <1>4 DEF ExitChild, Kill, readVars
    <2>2. Said' = Said /\ PipeInv'
      BY <1>1, <2>1 DEF Said, PipeInv
    <2>3. reader \in {"json", "raw"} /\ answer # "result"
      BY <1>1, <2>1 DEF ReaderInv, Types, CliTypes
    <2>4. ReaderInv'
      BY <1>1, <2>1, <2>3 DEF ReaderInv
    <2>5. AnswerInv'
      BY <1>1, <2>1, <2>2, <2>3, AnswerKept
    <2> QED BY <2>2, <2>4, <2>5
  <1>5. CASE ReadLine
    <2>1. /\ UNCHANGED <<prints, printed, child, code, answer>> /\ answer = "awaited"
          /\ reader \in {"json", "raw"}
          /\ IF reader = "raw" \/ prints[Head(stdout)] = "noise"
             THEN reader' = "raw" /\ UNCHANGED <<found, cost, exit>> ELSE reader' = reader
      BY <1>5 DEF ReadLine
    <2>2. CASE reader = "raw" \/ prints[Head(stdout)] = "noise"
      <3>1. Said' = Said
        BY <1>1, <1>5, <2>2, SaidRead
      <3>2. AnswerInv'
        BY <1>1, <2>1, <2>2, <3>1, AnswerKept
      <3>3. \E n \in 1..printed : prints[n] = "noise" /\ Passed(stdout', n)
        BY <1>1, <1>5, <2>1, <2>2, SaidRead DEF ReaderInv
      <3>4. ReaderInv'
        BY <2>1, <2>2, <3>3 DEF ReaderInv
      <3> QED BY <1>1, <1>5, <3>2, <3>4, SaidRead
    <2>3. CASE ~(reader = "raw" \/ prints[Head(stdout)] = "noise")
      <3>1. AnswerInv'
        BY <1>1, <1>5, <2>1, <2>3, LineTaken
      <3>2. \A n \in 1..printed : prints[n] = "noise" => ~Passed(stdout', n)
        BY <1>1, <1>5, <2>1, <2>3, SaidRead DEF ReaderInv
      <3>3. ReaderInv'
        BY <2>1, <2>3, <3>2 DEF ReaderInv
      <3> QED BY <1>1, <1>5, <3>1, <3>3, SaidRead
    <2> QED BY <2>2, <2>3
  <1>6. CASE EndOfStdout \/ ReadStderr
    <2>1. /\ UNCHANGED <<prints, printed, stdout, child, code, answer, found, cost, exit>>
          /\ reader # "done" /\ reader' \in {"stderr", "reap"}
          /\ stdout = <<>> /\ child = "ended"
      BY <1>1, <1>6 DEF EndOfStdout, ReadStderr, Closed, CliLife, ReaderInv, pipeVars, Types,
         CliTypes
    <2>2. Said' = Said /\ PipeInv'
      BY <1>1, <2>1 DEF Said, PipeInv
    <2>3. answer # "result"
      BY <1>1, <2>1 DEF ReaderInv
    <2>4. ReaderInv'
      BY <2>1, <2>3 DEF ReaderInv
    <2>5. AnswerInv'
      BY <1>1, <2>1, <2>2, <2>3, AnswerKept
    <2> QED BY <2>2, <2>4, <2>5
  <1>7. CASE Reap
    <2>1. /\ UNCHANGED <<prints, printed, stdout, child, code, found, cost>>
          /\ reader = "reap" /\ reader' = "done"
          /\ \/ exit' = ExitCode(exit)
             \/ code = 0 /\ answer' = "error" /\ exit' = exit
      BY <1>7 DEF Reap, pipeVars
    <2>2. Said' = Said /\ PipeInv'
      BY <1>1, <2>1 DEF Said, PipeInv
    <2>3. ReaderInv'
      BY <1>1, <2>1 DEF ReaderInv
    <2>4. CASE code = 0
      <3>1. exit' = exit /\ prints' = prints /\ found' = found /\ cost' = cost /\ code' = 0
        BY <2>1, <2>4 DEF ExitCode
      <3>2. AnswerInv'
        BY <1>1, <2>2, <2>4, <3>1, AnswerKept
      <3> QED BY <2>2, <2>3, <3>2
    <2>5. CASE code # 0
      <3>1. exit' = code'
        BY <2>1, <2>5 DEF ExitCode
      <3>2. \A K : OfKinds(K)' = OfKinds(K)
        BY <2>1, <2>2 DEF OfKinds
      <3> QED BY <1>1, <2>1, <2>2, <2>3, <2>5, <3>1, <3>2 DEF AnswerInv, IsNewest
    <2> QED BY <2>2, <2>3, <2>4, <2>5
  <1> QED BY <1>2, <1>3, <1>4, <1>5, <1>6, <1>7 DEF Cli, CliNext, Program, Waiting

LEMMA CliInvKept == Types /\ Life /\ CliInv /\ [Next]_vars => CliInv'
  <1> SUFFICES ASSUME Types, Life, CliInv, [Next]_vars PROVE CliInv'
    OBVIOUS
  <1>1. ASSUME UNCHANGED <<kind, cliVars, answer, found, exit>> PROVE CliInv'
    <2>1. /\ UNCHANGED <<prints, printed, stdout, child, code, reader, cost>>
          /\ UNCHANGED <<kind, answer, found, exit>>
      BY <1>1 DEF cliVars, pipeVars
    <2>2. CASE kind = "cli"
      <3>1. PipeInv /\ ReaderInv /\ AnswerInv
        BY <2>2 DEF CliInv
      <3>2. Said' = Said /\ PipeInv' /\ ReaderInv'
        BY <2>1, <3>1 DEF Said, PipeInv, ReaderInv
      <3>3. answer' = "result" /\ code' # 0 => exit = code'
        BY <2>1, <3>1 DEF AnswerInv
      <3>4. AnswerInv'
        BY <2>1, <3>1, <3>2, <3>3, AnswerKept
      <3> QED BY <3>2, <3>4 DEF CliInv
    <2> QED BY <2>1, <2>2 DEF CliInv
  <1>2. CASE Context
    BY <1>1, <1>2 DEF Context, Deadline, Interrupt
  <1>3. CASE UNCHANGED vars
    BY <1>1, <1>3 DEF vars, attemptVars
  <1>4. CASE OpenCode(OpenNext)
    BY <1>4 DEF OpenCode, CliInv, Types, AttemptTypes
  <1> QED BY <1>2, <1>3, <1>4, CliKeepsCliInv DEF Next

(* The newest of a set of positions is its greatest.                       *)
LEMMA NewestIs ==
  ASSUME NEW S \in SUBSET Nat, NEW n, IsNewest(n, S)
  PROVE  Newest(S) = n
  <1>1. n \in S /\ \A k \in S : k <= n
    BY DEF IsNewest
  <1>2. Newest(S) \in S /\ \A k \in S : k <= Newest(S)
    BY <1>1 DEF Newest
  <1>3. n \in Nat /\ Newest(S) \in Nat /\ n <= Newest(S) /\ Newest(S) <= n
    BY <1>1, <1>2
  <1> QED BY <1>3

(* When Wait is done everything was printed and read.                      *)
LEMMA AllRead ==
  ASSUME Types, CliInv, Answered("cli")
  PROVE  /\ AnswerInv /\ reader = "done"
         /\ Said \subseteq 1..printed /\ Said \subseteq Nat
         /\ \A line : line # "stderr" => Readable(line) = OfKinds({line})
  <1>1. kind = "cli" /\ AnswerInv /\ reader = "done" /\ stdout = <<>>
    BY DEF Answered, CliInv, ReaderInv
  <1>2. \A n : Passed(stdout, n)
    BY <1>1, EmptyQueue
  <1>3. Said \subseteq 1..printed /\ Said \subseteq Nat
    BY DEF Said
  <1>4. ASSUME NEW line, line # "stderr" PROVE Readable(line) = OfKinds({line})
    BY <1>2, <1>4 DEF Readable, OfKinds, Said
  <1> QED BY <1>1, <1>3, <1>4

(***************************************************************************)
(* The findings and the cost of a CLI's answer are those the program       *)
(* printed before a line that is no JSON.                                  *)
(***************************************************************************)
THEOREM CliAnswersWhole == Spec => []CliAnswerWhole
  <1>1. Types /\ CliInv => CliAnswerWhole
    <2> SUFFICES ASSUME Types, CliInv, Answered("cli") PROVE CliAnswerWhole
      BY DEF CliAnswerWhole
    <2>1. /\ Readable("finding") = OfKinds({"finding"})
          /\ Readable("result") = OfKinds({"result"})
          /\ Readable("turn") = OfKinds({"turn"})
      BY AllRead
    <2>2. AnswerInv /\ \A K : OfKinds(K) \in SUBSET Nat
      BY AllRead DEF OfKinds
    <2>3. CASE IsNewest(cost, OfKinds({"result"}))
      <3>1. cost = Newest(Readable("result")) /\ Readable("result") # {}
        BY <2>1, <2>2, <2>3, NewestIs DEF IsNewest
      <3>2. found = Readable("finding")
        BY <2>1, <2>2 DEF AnswerInv
      <3> QED BY <3>1, <3>2 DEF CliAnswerWhole
    <2>4. CASE OfKinds({"result"}) = {} /\ IsNewest(cost, OfKinds({"turn"}))
      <3>1. cost = Newest(Readable("turn")) /\ Readable("turn") # {}
        BY <2>1, <2>2, <2>4, NewestIs DEF IsNewest
      <3> QED BY <2>1, <2>2, <2>4, <3>1 DEF CliAnswerWhole, AnswerInv
    <2>5. CASE OfKinds({"result", "turn"}) = {} /\ cost = 0
      <3>1. Readable("result") = {} /\ Readable("turn") = {}
        BY <2>1, <2>5 DEF OfKinds
      <3> QED BY <2>1, <2>2, <2>5, <3>1 DEF CliAnswerWhole, AnswerInv
    <2> QED BY <2>2, <2>3, <2>4, <2>5 DEF AnswerInv
  <1> QED BY <1>1, InitTypes, TypesKept, InitLife, LifeKept, InitCliInv, CliInvKept, PTL DEF Spec

(***************************************************************************)
(* A CLI that was killed or ended with a code of its own is not reported   *)
(* as successful, and one that ended with 0 is by its last done line.      *)
(***************************************************************************)
THEOREM FailuresReported == Spec => []FailureIsReported
  <1>1. Types /\ CliInv => FailureIsReported
    <2> SUFFICES ASSUME Types, CliInv, Answered("cli") PROVE FailureIsReported
      BY DEF FailureIsReported
    <2> DEFINE S == Readable("done") \cup Readable("failed")
    <2>1. S = OfKinds({"done", "failed"})
      <3>1. Readable("done") = OfKinds({"done"}) /\ Readable("failed") = OfKinds({"failed"})
        BY AllRead
      <3> QED BY <3>1 DEF OfKinds
    <2>2. AnswerInv /\ reader = "done" /\ answer = "result" /\ OfKinds({"done", "failed"}) \in SUBSET Nat
      BY AllRead DEF OfKinds, Answered
    <2> HIDE DEF S
    <2>3. code # 0 => exit = code
      BY <2>2 DEF AnswerInv
    <2>4. ASSUME code = 0 PROVE exit = IF S # {} /\ prints[Newest(S)] = "failed" THEN 1 ELSE 0
      <3>1. CASE OfKinds({"done", "failed"}) = {} /\ exit = 0
        BY <2>1, <3>1
      <3>2. CASE \E n \in OfKinds({"done", "failed"}) :
                   /\ IsNewest(n, OfKinds({"done", "failed"}))
                   /\ exit = IF prints[n] = "failed" THEN 1 ELSE 0
        <4>1. PICK n \in S : IsNewest(n, S) /\ exit = IF prints[n] = "failed" THEN 1 ELSE 0
          BY <2>1, <3>2
        <4>2. Newest(S) = n
          BY <2>1, <2>2, <4>1, NewestIs
        <4> QED BY <4>1, <4>2
      <3> QED BY <2>2, <2>4, <3>1, <3>2 DEF AnswerInv
    <2> QED BY <2>3, <2>4 DEF FailureIsReported, S
  <1> QED BY <1>1, InitTypes, TypesKept, InitLife, LifeKept, InitCliInv, CliInvKept, PTL DEF Spec

-----------------------------------------------------------------------------
LEMMA InitOpenInv == Init => OpenInv
  <1> SUFFICES ASSUME Init PROVE WireInv /\ NothingMissed /\ OpenEnds /\ OpenFound
    BY DEF OpenInv
  <1>1. /\ emitted = 0 /\ wire = <<>> /\ parts = <<>> /\ ids = FALSE /\ complete = FALSE
        /\ sse = "none" /\ answer = "none"
    BY DEF Init, OpenInit, AttemptInit
  <1>2. Rising(wire) /\ Len(parts) = 0
    BY <1>1, EmptyQueue
  <1> QED BY <1>1, <1>2 DEF WireInv, NothingMissed, OpenEnds, OpenFound

(* One more event is sent to the agent.                                    *)
LEMMA EventSent ==
  ASSUME Types, WireInv, ~complete, Emit, sse = "read"
  PROVE  WireInv' /\ (NothingMissed => NothingMissed')
  <1>1. /\ emitted \in Nat /\ emitted' = emitted + 1 /\ emitted' \in Nat /\ emitted < emitted'
        /\ wire' = Append(wire, emitted') /\ Positions(wire, emitted) /\ Rising(wire)
        /\ UNCHANGED <<reply, ids, parts, complete>>
    BY DEF Emit, readingVars, Types, OpenTypes, WireInv
  <1>2. \A n : n \in 1..emitted' <=> n \in 1..emitted \/ n = emitted'
    BY <1>1
  <1>3. /\ Rising(wire') /\ Waits(wire', emitted') /\ ~Passed(wire', emitted')
        /\ \A k \in 1..emitted : Passed(wire', k) <=> Passed(wire, k)
        /\ \A k \in 1..emitted : Waits(wire, k) => Waits(wire', k)
    BY <1>1, AppendedQueue
  <1>4. /\ \A i \in 1..Len(parts) : parts[i] \in 1..emitted
        /\ \A n : OfAssistant(n)' = OfAssistant(n)
    BY <1>1 DEF Types, OpenTypes, Positions, OfAssistant
  <1>5. WireInv'
    <2>1. ids' => \E k \in 1..emitted' : reply'[k] = "register" /\ Passed(wire', k)
      BY <1>1, <1>2, <1>3 DEF WireInv
    <2> QED BY <1>1, <1>3, <1>4, <2>1 DEF WireInv
  <1>6. ASSUME NothingMissed PROVE NothingMissed'
    <2>1. \A n \in 1..emitted' : Waits(wire', n) \/ Passed(wire', n)
      BY <1>2, <1>3, <1>6 DEF NothingMissed
    <2>2. \A n \in 1..emitted' : Passed(wire', n) => n \in 1..emitted /\ Passed(wire, n)
      BY <1>2, <1>3
    <2>3. \A n \in 1..emitted' : Passed(wire', n) =>
             /\ reply[n] = "register" => ids
             /\ OfAssistant(n) => Waits(parts, n)
             /\ reply[n] # "idle"
      BY <2>2, <1>6 DEF NothingMissed
    <2>4. \A i \in 1..Len(parts) : Passed(wire', parts[i])
      BY <1>3, <1>4, <1>6 DEF NothingMissed
    <2> QED BY <1>1, <1>4, <2>1, <2>3, <2>4 DEF NothingMissed
  <1> QED BY <1>5, <1>6

(* One more event is read.                                                 *)
LEMMA EventRead ==
  ASSUME Types, WireInv, ~complete, Process
  PROVE  WireInv' /\ (NothingMissed => NothingMissed')
  <1> DEFINE h == Head(wire)
  <1>1. /\ wire # <<>> /\ wire' = Tail(wire) /\ Positions(wire, emitted) /\ Rising(wire)
        /\ emitted \in Nat /\ UNCHANGED <<reply, emitted>>
        /\ ids' = (ids \/ reply[h] = "register")
        /\ parts' = IF CountsAsAssistant(h) THEN Append(parts, h) ELSE parts
        /\ complete' = (reply[h] = "idle")
    BY DEF Process, serverVars, Types, OpenTypes, WireInv
  <1>2. h \in 1..emitted /\ h \in Nat
    BY <1>1, TailPositions
  <1>3. /\ Rising(wire') /\ Passed(wire', h)
        /\ \A k \in Nat : Passed(wire, k) <=> k < h
        /\ \A k \in Nat : k <= h => Passed(wire', k)
        /\ \A k \in Nat : Waits(wire, k) => k = h \/ (Waits(wire', k) /\ ~Passed(wire', k))
    BY <1>1, TakenQueue
  <1> HIDE DEF h
  <1>4. \A n \in 1..emitted : n \in Nat
    OBVIOUS
  <1>5. \A n \in 1..emitted : Passed(wire, n) => Passed(wire', n)
    BY <1>2, <1>3, <1>4
  <1>6. /\ Len(parts) \in Nat
        /\ \/ parts' = parts
           \/ /\ Len(parts') = Len(parts) + 1 /\ parts'[Len(parts) + 1] = h
              /\ \A i \in 1..Len(parts) : parts'[i] = parts[i]
    BY <1>1 DEF Types, OpenTypes, Positions
  <1>7. ids => \E k \in 1..emitted : k < h /\ reply[k] = "register"
    BY <1>3, <1>4 DEF WireInv
  <1>8. CountsAsAssistant(h) => OfAssistant(h)
    <2>1. \A k \in 1..emitted : k < h => k \in 1..h
      BY <1>2
    <2> QED BY <1>7, <2>1 DEF CountsAsAssistant, OfAssistant
  <1>9. \A n : OfAssistant(n)' = OfAssistant(n)
    BY <1>1 DEF OfAssistant
  <1>10. WireInv'
    <2>1. ids' => \E k \in 1..emitted : reply[k] = "register" /\ Passed(wire', k)
      BY <1>1, <1>2, <1>3, <1>5 DEF WireInv
    <2>2. \A i \in 1..Len(parts') : OfAssistant(parts'[i])
      <3>1. CASE parts' = parts
        BY <3>1 DEF WireInv
      <3>2. CASE parts' # parts
        <4>1. CountsAsAssistant(h)
          BY <1>1, <3>2
        <4>2. \A i \in 1..Len(parts') : parts'[i] = h \/ (i \in 1..Len(parts) /\ parts'[i] = parts[i])
          BY <1>6, <3>2
        <4> QED BY <1>8, <4>1, <4>2 DEF WireInv
      <3> QED BY <3>1, <3>2
    <2> QED BY <1>1, <1>3, <1>9, <2>1, <2>2 DEF WireInv
  <1>11. ASSUME NothingMissed PROVE NothingMissed'
    <2>1. \A n \in 1..emitted : Waits(wire', n) \/ Passed(wire', n)
      BY <1>3, <1>4, <1>5, <1>11 DEF NothingMissed
    <2>2. \A n \in 1..emitted : Passed(wire', n) => n = h \/ (n < h /\ Passed(wire, n))
      BY <1>3, <1>4, <1>11 DEF NothingMissed
    <2>3. \A n : Waits(parts, n) => Waits(parts', n)
      <3>1. \A i \in 1..Len(parts) : i \in 1..Len(parts') /\ parts'[i] = parts[i]
        BY <1>6
      <3> QED BY <3>1 DEF Waits
    <2>4. OfAssistant(h) => Waits(parts', h)
      <3> SUFFICES ASSUME OfAssistant(h) PROVE Waits(parts', h)
        OBVIOUS
      <3>1. PICK k \in 1..h : reply[k] = "register"
        BY DEF OfAssistant
      <3>2. k # h /\ reply[h] \in Texts \ {"prompt"}
        BY <3>1 DEF OfAssistant, Texts
      <3>3. k \in 1..emitted /\ k < h
        BY <1>1, <1>2, <3>1, <3>2
      <3>4. ids
        BY <1>3, <1>4, <1>11, <3>1, <3>3 DEF NothingMissed
      <3>5. parts' = Append(parts, h)
        BY <1>1, <3>2, <3>4 DEF CountsAsAssistant
      <3>6. Len(parts') = Len(parts) + 1 /\ parts'[Len(parts) + 1] = h
        BY <3>5 DEF Types, OpenTypes, Positions
      <3> QED BY <1>6, <3>6 DEF Waits
    <2>5. \A n \in 1..emitted : Passed(wire', n) =>
             /\ reply[n] = "register" => ids'
             /\ OfAssistant(n) => Waits(parts', n)
      BY <1>1, <1>11, <2>2, <2>3, <2>4 DEF NothingMissed
    <2>6. \A i \in 1..Len(parts') : Passed(wire', parts'[i])
      <3>1. \A i \in 1..Len(parts') : parts'[i] = h \/ (i \in 1..Len(parts) /\ parts'[i] = parts[i])
        BY <1>6
      <3>2. \A i \in 1..Len(parts) : parts[i] \in 1..emitted /\ Passed(wire, parts[i])
        BY <1>11 DEF NothingMissed, Types, OpenTypes, Positions
      <3> QED BY <1>3, <1>5, <3>1, <3>2
    <2>7. \A n \in 1..emitted : n < h => reply[n] # "idle"
      BY <1>3, <1>4, <1>11 DEF NothingMissed
    <2>8. ~complete' => \A n \in 1..emitted : Passed(wire', n) => reply[n] # "idle"
      BY <1>1, <2>2, <2>7
    <2>9. complete' => \E p \in 1..emitted :
            /\ reply[p] = "idle" /\ Passed(wire', p)
            /\ \A n \in 1..emitted : Passed(wire', n) => n <= p
            /\ \A n \in 1..(p - 1) : reply[n] # "idle"
      <3>1. \A n \in 1..(h - 1) : n \in 1..emitted /\ n < h
        BY <1>1, <1>2
      <3>2. \A n \in 1..emitted : Passed(wire', n) => n <= h
        BY <1>2, <1>4, <2>2
      <3> QED BY <1>1, <1>2, <1>3, <2>7, <3>1, <3>2
    <2> QED BY <1>1, <1>9, <2>1, <2>5, <2>6, <2>8, <2>9 DEF NothingMissed
  <1> QED BY <1>10, <1>11

(* What is parsed in the end.                                              *)
LEMMA AnswerParsed ==
  ASSUME Types, WireInv, Finish
  PROVE  /\ found' \subseteq {f \in 1..Len(reply) : reply[f] = "finding" /\ OfAssistant(f)}
         /\ complete /\ NothingMissed => found' = SaidByAssistant
  <1>1. /\ emitted \in Nat /\ emitted \in 0..Len(reply) /\ Len(reply) \in Nat
        /\ found' = {n \in Parsed : reply[n] \in {"finding", "prompt"}}
        /\ \A i \in 1..Len(wire) : wire[i] \in Nat
    BY DEF Finish, Types, OpenTypes, Positions
  <1>2. \A n : n \in ToSet(parts) <=> Waits(parts, n)
    BY DEF ToSet, Waits, Types, OpenTypes, Positions
  <1>3. \A n : Waits(parts, n) => n \in 1..emitted /\ n \in 1..Len(reply) /\ OfAssistant(n)
    BY <1>1 DEF Waits, WireInv, Types, OpenTypes, Positions
  <1>4. \A n : OfAssistant(n) => reply[n] # "prompt"
    BY DEF OfAssistant
  <1>5. \A n : n \in found' <=>
           /\ Waits(parts, n) /\ reply[n] \in {"finding", "prompt"}
           /\ \A m : Waits(parts, m) /\ m <= n => reply[m] # "prose"
    BY <1>1, <1>2 DEF Parsed
  <1>6. \A n : n \in found' => n \in 1..emitted /\ n \in 1..Len(reply) /\ reply[n] = "finding" /\ OfAssistant(n)
    BY <1>3, <1>4, <1>5
  <1>7. ASSUME complete, NothingMissed PROVE found' = SaidByAssistant
    <2>1. PICK p \in 1..emitted :
             /\ reply[p] = "idle" /\ Passed(wire, p)
             /\ \A n \in 1..emitted : Passed(wire, n) => n <= p
             /\ \A n \in 1..(p - 1) : reply[n] # "idle"
      BY <1>7 DEF NothingMissed
    <2>2. \A n \in 1..p : n \in 1..emitted /\ Passed(wire, n)
      BY <1>1, <2>1 DEF Passed
    <2>3. \A n \in 1..p : OfAssistant(n) => Waits(parts, n)
      BY <1>7, <2>2 DEF NothingMissed
    <2>4. \A n : Waits(parts, n) => Passed(wire, n)
      BY <1>7 DEF NothingMissed, Waits
    <2>5. ASSUME NEW f \in found' PROVE f \in SaidByAssistant
      <3>1. f \in 1..Len(reply) /\ reply[f] = "finding" /\ OfAssistant(f) /\ f \in 1..emitted
        BY <1>6
      <3>2. f <= p /\ f # p
        BY <1>5, <2>1, <2>4, <3>1
      <3>3. \A k \in 1..f : k \in 1..p /\ k \in 1..(p - 1) /\ k <= f
        BY <2>1, <3>1, <3>2
      <3>4. \A k \in 1..f : reply[k] # "idle" /\ ~(reply[k] = "prose" /\ OfAssistant(k))
        BY <1>5, <2>1, <2>3, <3>3
      <3> QED BY <3>1, <3>4 DEF SaidByAssistant
    <2>6. ASSUME NEW f \in SaidByAssistant PROVE f \in found'
      <3>1. /\ f \in 1..Len(reply) /\ reply[f] = "finding" /\ OfAssistant(f)
            /\ \A k \in 1..f : reply[k] # "idle" /\ ~(reply[k] = "prose" /\ OfAssistant(k))
        BY DEF SaidByAssistant
      <3>2. f \in 1..p
        BY <2>1, <3>1
      <3>3. Waits(parts, f)
        BY <2>3, <3>1, <3>2
      <3>4. \A m : Waits(parts, m) /\ m <= f => m \in 1..f /\ OfAssistant(m)
        BY <1>3, <3>1
      <3> QED BY <1>5, <3>1, <3>3, <3>4
    <2> QED BY <2>5, <2>6
  <1> QED BY <1>6, <1>7

(* The server, the stream and Wait keep the invariant, step by step.       *)
LEMMA OpenCodeKeepsOpenInv == Types /\ Life /\ OpenInv /\ OpenCode(OpenNext) => OpenInv'
  <1> SUFFICES ASSUME Types, Life, OpenInv, OpenCode(OpenNext)
               PROVE  WireInv' /\ (~missed' => NothingMissed') /\ OpenEnds' /\ OpenFound'
    BY DEF OpenInv
  <1>1. WireInv /\ (~missed => NothingMissed) /\ OpenEnds /\ OpenFound /\ OpenLife
    BY DEF OpenCode, OpenInv, Life
  <1>2. ASSUME UNCHANGED <<reply, emitted, wire, ids, parts, complete>>
        PROVE  /\ WireInv' /\ NothingMissed' = NothingMissed
               /\ SaidByAssistant' = SaidByAssistant /\ \A n : OfAssistant(n)' = OfAssistant(n)
    <2>1. WireInv'
      BY <1>1, <1>2 DEF WireInv, OfAssistant
    <2>2. NothingMissed' = NothingMissed
      BY <1>2 DEF NothingMissed, OfAssistant
    <2>3. SaidByAssistant' = SaidByAssistant /\ \A n : OfAssistant(n)' = OfAssistant(n)
      BY <1>2 DEF SaidByAssistant, OfAssistant
    <2> QED BY <2>1, <2>2, <2>3
  <1>3. CASE CreateSession \/ CreateFails \/ Post \/ Connect \/ Reconnect \/ Quit
    <2>1. /\ UNCHANGED <<reply, emitted, wire, ids, parts, complete>> /\ UNCHANGED <<missed, found>>
          /\ sse' = sse \/ (sse' # "sent" /\ sse \in {"none", "connect", "read", "backoff"})
          /\ answer' = answer \/ answer' # "result"
      BY <1>1, <1>3 DEF CreateSession, CreateFails, Post, Connect, Reconnect, Quit,
         attemptVars, serverVars, readingVars, OpenLife
    <2>2. WireInv' /\ (~missed' => NothingMissed')
      BY <1>1, <1>2, <2>1
    <2>3. OpenEnds'
      BY <1>1, <2>1 DEF OpenEnds
    <2>4. OpenFound'
      BY <1>1, <1>2, <2>1 DEF OpenFound
    <2> QED BY <2>2, <2>3, <2>4
  <1>4. CASE Emit
    <2>1. UNCHANGED <<answer, found, reply, sse, ids, parts, complete>>
      BY <1>4 DEF Emit, attemptVars, readingVars
    <2>2. OpenEnds'
      BY <1>1, <2>1 DEF OpenEnds
    <2>3. CASE sse = "read"
      <3>1. ~complete /\ missed' = missed
        BY <1>1, <1>4, <2>3 DEF Emit, OpenEnds
      <3>2. WireInv' /\ (~missed' => NothingMissed')
        BY <1>1, <1>4, <2>3, <3>1, EventSent
      <3>3. OpenFound'
        BY <2>1, <2>3 DEF OpenFound
      <3> QED BY <2>2, <3>2, <3>3
    <2>4. CASE sse # "read"
      <3>1. missed' = TRUE /\ wire' = wire /\ \A n \in 1..emitted : n \in 1..emitted'
        BY <1>4, <2>4 DEF Emit, Types, OpenTypes
      <3>2. WireInv'
        BY <1>1, <2>1, <3>1 DEF WireInv, OfAssistant
      <3>3. OpenFound'
        BY <1>1, <2>1, <3>1 DEF OpenFound, OfAssistant
      <3> QED BY <2>2, <3>1, <3>2, <3>3
    <2> QED BY <2>3, <2>4
  <1>5. CASE Process
    <2>1. /\ UNCHANGED <<answer, missed>> /\ sse = "read"
          /\ sse' = IF complete' THEN "delete" ELSE "read"
      BY <1>5 DEF Process, attemptVars, serverVars
    <2>2. ~complete
      BY <1>1, <2>1 DEF OpenEnds
    <2>3. WireInv' /\ (~missed' => NothingMissed')
      BY <1>1, <1>5, <2>1, <2>2, EventRead
    <2> QED BY <1>1, <2>1, <2>3 DEF OpenEnds, OpenFound
  <1>6. CASE Break
    <2>1. /\ UNCHANGED <<answer, reply, emitted, ids, parts, complete>>
          /\ sse = "read" /\ sse' = "backoff" /\ wire' = <<>>
          /\ missed' = (missed \/ wire # <<>>)
      BY <1>6 DEF Break, Kept, attemptVars
    <2>2. Rising(wire') /\ \A n : Passed(wire', n)
      BY <2>1, EmptyQueue
    <2>3. WireInv'
      BY <1>1, <2>1, <2>2 DEF WireInv, OfAssistant
    <2>4. ~missed' => NothingMissed'
      BY <1>1, <1>2, <2>1
    <2> QED BY <1>1, <2>1, <2>3, <2>4 DEF OpenEnds, OpenFound
  <1>7. CASE Finish
    <2>1. /\ UNCHANGED <<reply, emitted, wire, ids, parts, complete>> /\ UNCHANGED <<missed, answer>>
          /\ sse = "delete" /\ sse' = "sent"
      BY <1>7 DEF Finish, readingVars
    <2>2. WireInv' /\ (~missed' => NothingMissed')
      BY <1>1, <1>2, <2>1
    <2>3. OpenFound'
      BY <1>1, <1>2, <1>7, <2>1, AnswerParsed DEF OpenFound
    <2> QED BY <2>1, <2>2, <2>3 DEF OpenEnds
  <1>8. CASE Receive
    <2>1. /\ UNCHANGED <<reply, emitted, wire, ids, parts, complete>> /\ UNCHANGED <<missed, found, sse>>
          /\ answer' = "result" => sse = "sent"
      BY <1>8 DEF Receive, openVars, serverVars, readingVars
    <2>2. WireInv' /\ (~missed' => NothingMissed') /\ OpenFound'
      BY <1>1, <1>2, <2>1 DEF OpenFound
    <2> QED BY <1>1, <2>1, <2>2 DEF OpenEnds
  <1> QED BY <1>3, <1>4, <1>5, <1>6, <1>7, <1>8 DEF OpenCode, OpenNext, Reading

LEMMA OpenInvKept == Types /\ Life /\ OpenInv /\ [Next]_vars => OpenInv'
  <1> SUFFICES ASSUME Types, Life, OpenInv, [Next]_vars PROVE OpenInv'
    OBVIOUS
  <1>1. ASSUME UNCHANGED <<kind, openVars, answer, found>> PROVE OpenInv'
    BY <1>1 DEF OpenInv, WireInv, NothingMissed, OpenEnds, OpenFound, SaidByAssistant, OfAssistant,
       openVars, serverVars, readingVars
  <1>2. CASE Context
    BY <1>1, <1>2 DEF Context, Deadline, Interrupt
  <1>3. CASE UNCHANGED vars
    BY <1>1, <1>3 DEF vars, attemptVars
  <1>4. CASE Cli(CliNext)
    BY <1>4 DEF Cli, OpenInv
  <1> QED BY <1>2, <1>3, <1>4, OpenCodeKeepsOpenInv DEF Next

(***************************************************************************)
(* If no event was missed and the server said it was idle, an OpenCode     *)
(* answer has all of the assistant's findings.                             *)
(***************************************************************************)
THEOREM OpenCodeAnswersWhole == Spec => []OpenCodeAnswerWhole
  <1>1. OpenInv => OpenCodeAnswerWhole
    BY DEF OpenInv, OpenEnds, OpenFound, OpenCodeAnswerWhole, Answered
  <1> QED BY <1>1, InitTypes, TypesKept, InitLife, LifeKept, InitOpenInv, OpenInvKept, PTL DEF Spec

(***************************************************************************)
(* And whatever was missed, it has nothing that is not the assistant's.    *)
(***************************************************************************)
THEOREM AnswersInOwnWords == Spec => []OwnWordsOnly
  <1>1. OpenInv => OwnWordsOnly
    BY DEF OpenInv, OpenEnds, OpenFound, OwnWordsOnly, Answered
  <1> QED BY <1>1, InitTypes, TypesKept, InitLife, LifeKept, InitOpenInv, OpenInvKept, PTL DEF Spec
=============================================================================
