----------------------------- MODULE Checkpoints -----------------------------
(***************************************************************************)
(* The questions a run puts to a person.  Each is two rows written one     *)
(* after the other: an attention item, which shows the question and takes  *)
(* the answer (store/attention_store.go), and a checkpoint with the same   *)
(* id, which is the durable record of the decision                         *)
(* (store/checkpoint_store.go).  People answer through tools, HTTP and     *)
(* commands (mcp/handlers_attention.go, mcp/handlers_checkpoint.go,        *)
(* cli/daemon_http.go, cli/advance.go, cli/rollback.go), several of them   *)
(* at once.                                                                *)
(*                                                                         *)
(* One action is one committed statement or transaction.  resolved_at is   *)
(* written by every answer and read by nothing, and is left out.           *)
(***************************************************************************)
EXTENDS Naturals, Sequences

CONSTANTS
    Items,      \* ids of attention items, numbered in the order they are used
    Sources,    \* what an item is about: a plan, or NoSource
    NoSource,
    Answers,    \* the answers people give
    Answerers,  \* answering handlers, of one or several processes
    NoItem,
    MaxReanswers  \* bound on answers to items that have one

ASSUME AnswersAssumption == Answers \subseteq {"approve", "reject", "other"}
ASSUME ItemAssumption == Items \subseteq Nat /\ NoItem \notin Items
ASSUME SourceAssumption == NoSource \in Sources
ASSUME ReanswersAssumption == MaxReanswers \in Nat

VARIABLES
    question,     \* attention.question, "none" while there is no item
    about,        \* attention.source, the plan the question is about
    answer,       \* attention.answer
    checkpoint,   \* checkpoints.state and decision, "absent" without a row
    resolutions,  \* the decisions of the item's checkpoint.resolved events
    approved,     \* history: the items that were ever answered "approve"
    apc,          \* where an answering handler is
    aitem,        \* the item it was called with
    adecision,    \* the answer it was called with
    reanswers     \* answers given to items that had one

itemVars == <<question, about, answer, checkpoint, resolutions, approved>>
answererVars == <<apc, aitem, adecision, reanswers>>
checkpointVars == <<itemVars, answererVars>>

Questions == {"spec-approved", "plan-approved", "phase-clean", "ready-to-ship"}
Decisions == {"approve", "reject", "other"}

CheckpointInit ==
    /\ question = [i \in Items |-> "none"]
    /\ about = [i \in Items |-> NoSource]
    /\ answer = [i \in Items |-> "none"]
    /\ checkpoint = [i \in Items |-> "absent"]
    /\ resolutions = [i \in Items |-> <<>>]
    /\ approved = {}
    /\ apc = [h \in Answerers |-> "idle"]
    /\ aitem = [h \in Answerers |-> NoItem]
    /\ adecision = [h \in Answerers |-> "none"]
    /\ reanswers = 0

InsertAttention(i, q, source) ==
    /\ question[i] = "none"
    /\ \A j \in Items : j < i => question[j] # "none"
    /\ question' = [question EXCEPT ![i] = q]
    /\ about' = [about EXCEPT ![i] = source]
    /\ UNCHANGED <<answer, checkpoint, resolutions, approved, answererVars>>

CreateCheckpoint(i) ==
    /\ checkpoint[i] = "absent"
    /\ checkpoint' = [checkpoint EXCEPT ![i] = "open"]
    /\ UNCHANGED <<question, about, answer, resolutions, approved, answererVars>>

-----------------------------------------------------------------------------
(* An answering handler: AnswerAttention overwrites any earlier answer.    *)
Answer(h, i, a) ==
    /\ apc[h] = "idle"
    /\ question[i] # "none"
    /\ IF answer[i] = "none"
       THEN UNCHANGED reanswers
       ELSE reanswers < MaxReanswers /\ reanswers' = reanswers + 1
    /\ answer' = [answer EXCEPT ![i] = a]
    /\ approved' = IF a = "approve" THEN approved \cup {i} ELSE approved
    /\ apc' = [apc EXCEPT ![h] = "lookup"]
    /\ aitem' = [aitem EXCEPT ![h] = i]
    /\ adecision' = [adecision EXCEPT ![h] = a]
    /\ UNCHANGED <<question, about, checkpoint, resolutions>>

AnswererReturns(h) ==
    /\ apc' = [apc EXCEPT ![h] = "idle"]
    /\ aitem' = [aitem EXCEPT ![h] = NoItem]
    /\ adecision' = [adecision EXCEPT ![h] = "none"]
    /\ UNCHANGED reanswers

(* ResolveCheckpoint reads the state outside its transaction: it returns   *)
(* when there is no row (an error most callers tolerate) or it is resolved.*)
LookupCheckpoint(h) ==
    /\ apc[h] = "lookup"
    /\ \/ /\ checkpoint[aitem[h]] = "open"
          /\ apc' = [apc EXCEPT ![h] = "resolve"]
          /\ UNCHANGED <<aitem, adecision, reanswers>>
       \/ checkpoint[aitem[h]] # "open" /\ AnswererReturns(h)
    /\ UNCHANGED itemVars

(* ResolveCheckpoint's transaction: event and UPDATE, whatever the state.  *)
ResolveCheckpoint(h) ==
    /\ apc[h] = "resolve"
    /\ checkpoint' = [checkpoint EXCEPT ![aitem[h]] = adecision[h]]
    /\ resolutions' = [resolutions EXCEPT ![aitem[h]] = Append(@, adecision[h])]
    /\ AnswererReturns(h)
    /\ UNCHANGED <<question, about, answer, approved>>

Answering(h) ==
    \/ \E i \in Items, a \in Answers : Answer(h, i, a)
    \/ LookupCheckpoint(h)
    \/ ResolveCheckpoint(h)

-----------------------------------------------------------------------------
CheckpointTypeOK ==
    /\ question \in [Items -> Questions \cup {"none"}]
    /\ about \in [Items -> Sources]
    /\ answer \in [Items -> Decisions \cup {"none"}]
    /\ checkpoint \in [Items -> Decisions \cup {"absent", "open"}]
    /\ resolutions \in [Items -> Seq(Decisions)]
    /\ approved \subseteq Items
    /\ apc \in [Answerers -> {"idle", "lookup", "resolve"}]
    /\ aitem \in [Answerers -> Items \cup {NoItem}]
    /\ adecision \in [Answerers -> Decisions \cup {"none"}]
    /\ \A h \in Answerers : apc[h] # "idle" => aitem[h] \in Items /\ adecision[h] \in Decisions
    /\ reanswers \in Nat
=============================================================================
