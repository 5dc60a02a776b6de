---------------------------- MODULE MemoryStore ----------------------------
(***************************************************************************)
(* The SQLite tables that the Python TaskMemory and the Go engine share:   *)
(* tasks, dependencies, aliases, messages, facts, runtime_state, and the   *)
(* scope clocks (cmp_scope_epochs) that the journal's triggers keep.       *)
(* Every operation is one BEGIN IMMEDIATE transaction, so it is one        *)
(* action; an operation that returns an error rolls back and changes       *)
(* nothing, so it is not an action at all.                                 *)
(*                                                                         *)
(* Abstracted: text, titles and JSON are members of small sets; aliases    *)
(* are counted; the events table and the FTS index, which no operation     *)
(* modelled here reads back, are left out.                                 *)
(***************************************************************************)
EXTENDS Integers, Sequences, FiniteSets

CONSTANTS
  Snapshots,      \* planner snapshots a task row can hold
  EmptySnapshot,  \* the {} a task is created with
  Requests,       \* logical request IDs
  NoRequest,      \* source of a message that no turn wrote
  Calls,          \* tool call IDs
  NoCall,
  Keys,           \* fact keys
  MaxTasks,       \* bound: task IDs handed out by AUTOINCREMENT
  AppendRoles,    \* roles of the messages that callers append
  FactUpdates,    \* the fact revisions that callers record
  MaxMessages,    \* bound: message IDs handed out by AUTOINCREMENT
  MaxAliases,     \* bound: aliases of one task
  MaxBatch,       \* bound: messages in one AppendBatch
  MaxRevision,    \* bound: revisions of a task row or a fact
  MaxVersion      \* bound: activations counted by runtime_state.version

ASSUME StoreAssumption ==
  /\ EmptySnapshot \in Snapshots
  /\ NoRequest \notin Requests
  /\ AppendRoles \subseteq {"user", "assistant", "tool", "document"}
  /\ NoCall \notin Calls
  /\ FactUpdates \subseteq [key: Keys, evidence: 1..MaxMessages, retracted: BOOLEAN]
  /\ MaxTasks \in Nat /\ MaxMessages \in Nat /\ MaxAliases \in Nat
  /\ MaxBatch \in Nat /\ MaxRevision \in Nat /\ MaxVersion \in Nat

TaskIds == 1..MaxTasks
MessageIds == 1..MaxMessages
Roles == {"user", "assistant", "tool", "document"}

\* Key zero of cmp_scope_epochs is the whole-database clock.
Clocks == 0..MaxTasks

NoTask ==
  [status |-> "none", revision |-> 0, snapshot |-> EmptySnapshot,
   parents |-> {}, aliases |-> 0]

TaskRow ==
  [status: {"none", "open", "archived"}, revision: Nat, snapshot: Snapshots,
   parents: SUBSET TaskIds, aliases: Nat]

Message ==
  [id: MessageIds, task: TaskIds, role: Roles,
   request: Requests \cup {NoRequest}, call: Calls \cup {NoCall}]

Fact ==
  [task: TaskIds, key: Keys, revision: 1..MaxRevision, evidence: MessageIds,
   retracted: BOOLEAN]

FactUpdate == [key: Keys, evidence: MessageIds, retracted: BOOLEAN]

VARIABLES
  task,         \* tasks, dependencies and aliases, by task ID
  nextTask,     \* the AUTOINCREMENT sequence of tasks
  message,      \* the rows of messages
  nextMessage,  \* the AUTOINCREMENT sequence of messages
  fact,         \* the rows of facts
  epoch,        \* cmp_scope_epochs
  active,       \* runtime_state.active_task, 0 for NULL
  version       \* runtime_state.version

storeVars ==
  <<task, nextTask, message, nextMessage, fact, epoch, active, version>>

StoreTypeOK ==
  /\ task \in [TaskIds -> TaskRow]
  /\ nextTask \in 1..(MaxTasks + 1)
  /\ message \subseteq Message
  /\ IsFiniteSet(message)
  /\ nextMessage \in 1..(MaxMessages + 1)
  /\ fact \subseteq Fact
  /\ IsFiniteSet(fact)
  /\ epoch \in [Clocks -> Nat]
  /\ active \in Clocks
  /\ version \in Nat

StoreInit ==
  /\ task = [t \in TaskIds |-> NoTask]
  /\ nextTask = 1
  /\ message = {}
  /\ nextMessage = 1
  /\ fact = {}
  /\ epoch = [c \in Clocks |-> 0]
  /\ active = 0
  /\ version = 0

-----------------------------------------------------------------------------
(* Reading the tables.                                                     *)

TaskExists(t) == t \in TaskIds /\ task[t].status # "none"

MessagesOf(t) == {m \in message : m.task = t}
FactsOf(t) == {f \in fact : f.task = t}
FactRevisions(t, k) == {f.revision : f \in {g \in FactsOf(t) : g.key = k}}

\* coalesce(max(revision),0) over the rows of one fact.
LastRevision(t, k) ==
  CHOOSE n \in {0} \cup FactRevisions(t, k) :
    \A i \in FactRevisions(t, k) : i <= n

\* The tasks whose memory a turn on t may use: itself, its ancestors up to
\* three hops, or everything.
WithParents(S) == S \cup UNION {task[t].parents : t \in S}
Lineage(t) == WithParents(WithParents(WithParents({t})))
Scope(t, kind) ==
  CASE kind = "task" -> {t}
    [] kind = "lineage" -> Lineage(t)
    [] OTHER -> TaskIds

-----------------------------------------------------------------------------
(* Writing them. Each inserted, updated or deleted row of a task advances  *)
(* the clock of the task and clock zero by one: that is what the           *)
(* cmp_epoch_* triggers do.                                                *)

Ticked(t, n) == [epoch EXCEPT ![t] = @ + n, ![0] = @ + n]

NewMessage(id, t, role, r, c) ==
  [id |-> id, task |-> t, role |-> role, request |-> r, call |-> c]

\* Faulty variant: a reply that revises a key twice reads its revision once.
NewFactsReadOnce(t, updates) ==
  { [task |-> t, key |-> updates[i].key,
     revision |-> LastRevision(t, updates[i].key) + 1,
     evidence |-> updates[i].evidence,
     retracted |-> updates[i].retracted] : i \in DOMAIN updates }

\* The fact rows that a list of updates adds to task t, in order: each one is
\* the revision after the last one of its key, earlier updates included.
NewFacts(t, updates) ==
  { [task |-> t, key |-> updates[i].key,
     revision |-> LastRevision(t, updates[i].key)
                    + Cardinality({j \in 1..i : updates[j].key = updates[i].key}),
     evidence |-> updates[i].evidence,
     retracted |-> updates[i].retracted] : i \in DOMAIN updates }

\* Fact evidence must exist and belong to the task of the fact.
CitesOwnEvidence(t, updates, rows) ==
  \A i \in DOMAIN updates :
    \E m \in rows : m.id = updates[i].evidence /\ m.task = t

WithinRevisions(t, updates) ==
  \A f \in NewFacts(t, updates) : f.revision <= MaxRevision

\* CreateTask: the task, its dependency and alias rows, one clock tick each.
CreateTask(snapshot, parents, aliases) ==
  /\ nextTask <= MaxTasks
  /\ \A p \in parents : TaskExists(p)
  /\ task' = [task EXCEPT ![nextTask] =
                [status |-> "open", revision |-> 1, snapshot |-> snapshot,
                 parents |-> parents, aliases |-> aliases]]
  /\ epoch' = Ticked(nextTask, 1 + Cardinality(parents) + aliases)
  /\ nextTask' = nextTask + 1
  /\ UNCHANGED <<message, nextMessage, fact, active, version>>

\* AppendBatch: all the messages or none of them.
AppendBatch(batch) ==
  /\ nextMessage + Len(batch) <= MaxMessages + 1
  /\ \A i \in DOMAIN batch : TaskExists(batch[i].task)
  /\ message' = message \cup
       { NewMessage(nextMessage + i - 1, batch[i].task, batch[i].role,
                    NoRequest, NoCall) : i \in DOMAIN batch }
  /\ epoch' = [c \in Clocks |->
                 epoch[c] + Cardinality({i \in DOMAIN batch :
                                           c = 0 \/ c = batch[i].task})]
  /\ nextMessage' = nextMessage + Len(batch)
  /\ UNCHANGED <<task, nextTask, fact, active, version>>

SetFact(t, update) ==
  /\ CitesOwnEvidence(t, <<update>>, message)
  /\ WithinRevisions(t, <<update>>)
  /\ fact' = fact \cup NewFacts(t, <<update>>)
  /\ epoch' = Ticked(t, 1)
  /\ UNCHANGED <<task, nextTask, message, nextMessage, active, version>>

\* TaskMemory.set_snapshot: compare-and-set on the revision the caller read.
SetSnapshot(t, snapshot, expectedRevision) ==
  /\ TaskExists(t)
  /\ task[t].revision = expectedRevision
  /\ expectedRevision < MaxRevision
  /\ task' = [task EXCEPT ![t].snapshot = snapshot, ![t].revision = @ + 1]
  /\ epoch' = Ticked(t, 1)
  /\ UNCHANGED <<nextTask, message, nextMessage, fact, active, version>>

\* TaskMemory.resume, with the state version the caller read or without one
\* (the check passes exactly when they agree, so it is not a parameter).
Resume(t) ==
  /\ TaskExists(t)
  /\ version < MaxVersion
  /\ active' = t
  /\ version' = version + 1
  /\ IF task[t].status = "archived"
       THEN /\ task[t].revision < MaxRevision
            /\ task' = [task EXCEPT ![t].status = "open", ![t].revision = @ + 1]
            /\ epoch' = Ticked(t, 1)
       ELSE UNCHANGED <<task, epoch>>
  /\ UNCHANGED <<nextTask, message, nextMessage, fact>>

\* TaskMemory.archive refuses the active task only.
Archive(t) ==
  /\ TaskExists(t)
  /\ active # t
  /\ task[t].revision < MaxRevision
  /\ task' = [task EXCEPT ![t].status = "archived", ![t].revision = @ + 1]
  /\ epoch' = Ticked(t, 1)
  /\ UNCHANGED <<nextTask, message, nextMessage, fact, active, version>>

\* TaskMemory.delete_task: a leaf task goes with its dependency, alias,
\* message and fact rows (ON DELETE CASCADE), each deletion a clock tick.
\* Its clock row stays: IDs and clocks are never reused.
DeleteTask(t) ==
  /\ TaskExists(t)
  /\ \A u \in TaskIds : t \notin task[u].parents
  /\ IF active = t
       THEN version < MaxVersion /\ active' = 0 /\ version' = version + 1
       ELSE UNCHANGED <<active, version>>
  /\ task' = [task EXCEPT ![t] = NoTask]
  /\ message' = message \ MessagesOf(t)
  /\ fact' = fact \ FactsOf(t)
  /\ epoch' = Ticked(t, 1 + Cardinality(task[t].parents) + task[t].aliases
                          + Cardinality(MessagesOf(t)) + Cardinality(FactsOf(t)))
  /\ UNCHANGED <<nextTask, nextMessage>>

\* A caller's choice of arguments.
Batches ==
  UNION {[1..n -> [task: TaskIds, role: AppendRoles]] : n \in 1..MaxBatch}

=============================================================================
