----------------------------- MODULE TurnJournal -----------------------------
(***************************************************************************)
(* The durable turn journal of the Go engine over the shared tables of     *)
(* MemoryStore: turns, tool intents and results, model requests and        *)
(* responses, scope bases, provenance, action leases and retention.        *)
(*                                                                         *)
(* Every handler is one BEGIN IMMEDIATE transaction and so one action. A   *)
(* call that returns an error, or that replays a recorded answer, changes  *)
(* no row and is a stuttering step. Hosts, workers and operators are not   *)
(* modelled here: any of them may make any call at any time, with any      *)
(* argument, while the Python TaskMemory writes the same tables.           *)
(*                                                                         *)
(* A definition set right before another one with the same parameters and  *)
(* no comment of its own is a faulty variant, used only to show that a     *)
(* property notices the fault.                                             *)
(***************************************************************************)
EXTENDS MemoryStore

CONSTANTS
  Inputs,         \* normalized requests: [task, scope, consistency, allowance]
  Replies,        \* [snapshot, facts, provenance]
  NoReply,        \* reply_json IS NULL
  NoSnapshot,     \* a reply that leaves the snapshot alone
  Args,           \* name and arguments of a tool call
  Results,        \* results of a tool call
  NoResult,       \* result_json IS NULL
  Payloads,       \* model request payloads: [body, units]
  Responses,      \* model responses
  Ttls,           \* lease durations hosts ask for
  Operators,      \* retention operators
  NoPlan,
  MaxGeneration,  \* bound: recoveries of one turn
  MaxTime         \* bound: clock readings

ASSUME JournalAssumption ==
  /\ Inputs \subseteq [task: TaskIds, scope: {"task", "lineage", "all"},
                       consistency: {"snapshot", "scope"}, allowance: Nat]
  /\ Replies \subseteq [snapshot: Snapshots \cup {NoSnapshot},
                        facts: Seq(FactUpdate),
                        provenance: SUBSET [evidence: MessageIds,
                                            kind: {"supports", "contradicts"}]]
  /\ NoReply \notin Replies /\ NoSnapshot \notin Snapshots
  /\ NoResult \notin Results
  /\ \A p \in Payloads : p.units \in Nat
  /\ Ttls \subseteq Nat \ {0}
  /\ MaxGeneration \in Nat \ {0} /\ MaxTime \in Nat

Times == 0..MaxTime
Generations == 1..MaxGeneration

VARIABLES
  turn,           \* cmp_turns: rows by request ID
  tool,           \* cmp_tool_calls: rows by request and call ID
  modelCall,      \* cmp_model_calls: payloads by request and call ID
  modelResponse,  \* cmp_model_responses: responses by request and call ID
  basis,          \* cmp_turn_basis: epochs by request ID and clock
  provenance,     \* cmp_turn_provenance
  lease,          \* cmp_action_leases
  tombstone,      \* cmp_retired_turns
  plan,           \* the dry run each operator holds
  now             \* the wall clock

journalVars ==
  <<turn, tool, modelCall, modelResponse, basis, provenance, lease, tombstone>>
vars == <<storeVars, journalVars, plan, now>>

-----------------------------------------------------------------------------
(* Tables: a partial function from a key to a row, or a set of rows.       *)

Put(table, key, row) ==
  [x \in DOMAIN table \cup {key} |-> IF x = key THEN row ELSE table[x]]

\* Tables keyed by request ID and a second column.
RowsOf(table, r) == [x \in {y \in DOMAIN table : y[1] = r} |-> table[x]]
Without(table, ids) == [x \in {y \in DOMAIN table : y[1] \notin ids} |-> table[x]]

Begun == DOMAIN turn
NoneRetired == {}
Retired == {d.request : d \in tombstone}
NeverBusy(t) == FALSE
Busy(t) == \E q \in Begun : turn[q].status = "pending" /\ turn[q].input.task = t
OfGeneration(r, g) == r \in Begun /\ turn[r].generation = g
Pending(r, g) ==
  r \in Begun /\ turn[r].status = "pending" /\ turn[r].generation = g
NoIntentOpen(r) == FALSE
HasStartedTool(r) ==
  \E c \in Calls : <<r, c>> \in DOMAIN tool /\ tool[<<r, c>>].status = "started"

\* The compare-and-set of Recover and Commit on the task row.
AnyRevision(r) == TRUE
SameRevision(r) == task[turn[r].input.task].revision = turn[r].revision

\* What a package is packed from: the rows of the tasks in scope.
View(t, scope) ==
  LET S == Scope(t, scope)
  IN  [tasks    |-> [u \in S |-> task[u]],
       messages |-> {m \in message : m.task \in S},
       facts    |-> {f \in fact : f.task \in S}]

\* validateBasis: every clock still reads what the basis expects.
ValidBasis(r) ==
  turn[r].input.consistency = "scope" =>
    /\ \E c \in Clocks : <<r, c>> \in DOMAIN basis
    /\ \A c \in Clocks : <<r, c>> \in DOMAIN basis => basis[<<r, c>>] = epoch[c]

OwnTaskClock(input) ==
  IF input.consistency = "snapshot" THEN {}
  ELSE IF input.scope = "all" THEN {0} ELSE {input.task}
BasisClocks(input) ==
  IF input.consistency = "snapshot" THEN {}
  ELSE IF input.scope = "all" THEN {0} ELSE Scope(input.task, input.scope)

RefreshedBasis(r, t, delta) ==
  [x \in DOMAIN basis |->
     IF x[1] = r /\ x[2] \in {t, 0} THEN epoch[x[2]] + delta ELSE basis[x]]
\* advanceBasis: the turn's own delta on its task and on clock zero.
AdvancedBasis(r, t, delta) ==
  [x \in DOMAIN basis |->
     IF x[1] = r /\ x[2] \in {t, 0} THEN basis[x] + delta ELSE basis[x]]

AnyKindProvenance(input, refs) ==
  \A ref \in refs :
    /\ \E m \in message : /\ m.id = ref.evidence
                          /\ m.task \in Scope(input.task, input.scope)
    /\ \A f \in fact : f.evidence = ref.evidence => ~f.retracted
\* validateProvenance: sources exist, in scope, support the new state and are
\* the evidence of no retracted fact.
ValidProvenance(input, refs) ==
  \A ref \in refs :
    /\ ref.kind = "supports"
    /\ \E m \in message : /\ m.id = ref.evidence
                          /\ m.task \in Scope(input.task, input.scope)
    /\ \A f \in fact : f.evidence = ref.evidence => ~f.retracted

ChangesSnapshot(r, reply) ==
  reply.snapshot \notin {NoSnapshot, turn[r].package.tasks[turn[r].input.task].snapshot}

DeclaresProvenance(r, reply) ==
  turn[r].input.consistency = "scope" /\ ChangesSnapshot(r, reply)
    => reply.provenance # {}

-----------------------------------------------------------------------------
(* Turns.                                                                  *)

AsStored(row) == row
\* The task row once Begin has opened it: an archived task is reopened.
Opened(row) ==
  IF row.status = "archived"
    THEN [row EXCEPT !.status = "open", !.revision = @ + 1]
    ELSE row

Begin(r, input) ==
  LET t == input.task
      opened == Opened(task[t])
      reopened == IF opened = task[t] THEN 0 ELSE 1
  IN
  /\ r \notin Retired
  /\ r \notin Begun
  /\ ~Busy(t)
  /\ TaskExists(t)
  /\ opened.revision <= MaxRevision
  /\ nextMessage <= MaxMessages
  /\ version < MaxVersion
  /\ task' = [task EXCEPT ![t] = opened]
  /\ message' = message \cup {NewMessage(nextMessage, t, "user", r, NoCall)}
  /\ nextMessage' = nextMessage + 1
  /\ epoch' = Ticked(t, reopened + 1)
  /\ active' = t
  /\ version' = version + 1
  /\ turn' = Put(turn, r,
       [status |-> "pending", input |-> input, generation |-> 1,
        revision |-> opened.revision, reply |-> NoReply, updated |-> now,
        package |-> [View(t, input.scope) EXCEPT !.tasks[t] = opened]])
  /\ basis' = [x \in DOMAIN basis \cup ({r} \X BasisClocks(input)) |->
                 IF x[1] = r THEN epoch'[x[2]] ELSE basis[x]]
  /\ UNCHANGED <<nextTask, fact, tool, modelCall, modelResponse, provenance,
                 lease, tombstone, plan, now>>

Recover(r, g) ==
  /\ Pending(r, g)
  /\ SameRevision(r)
  /\ g < MaxGeneration
  /\ turn' = [turn EXCEPT ![r].generation = @ + 1, ![r].updated = now]
  /\ UNCHANGED <<storeVars, tool, modelCall, modelResponse, basis, provenance,
                 lease, tombstone, plan, now>>

Commit(r, g, reply) ==
  LET t == turn[r].input.task
      answered == message \cup {NewMessage(nextMessage, t, "assistant", r, NoCall)}
  IN
  /\ Pending(r, g)
  /\ ValidBasis(r)
  /\ DeclaresProvenance(r, reply)
  /\ ValidProvenance(turn[r].input, reply.provenance)
  /\ SameRevision(r)
  /\ ~HasStartedTool(r)
  /\ nextMessage <= MaxMessages
  /\ CitesOwnEvidence(t, reply.facts, answered)
  /\ WithinRevisions(t, reply.facts)
  /\ task[t].revision < MaxRevision
  /\ message' = answered
  /\ nextMessage' = nextMessage + 1
  /\ fact' = fact \cup NewFacts(t, reply.facts)
  /\ task' = [task EXCEPT ![t].revision = @ + 1,
                          ![t].snapshot = IF reply.snapshot = NoSnapshot
                                            THEN @ ELSE reply.snapshot]
  /\ epoch' = Ticked(t, 1 + Len(reply.facts) + 1)
  /\ provenance' = provenance \cup
       {[request |-> r, evidence |-> ref.evidence, kind |-> ref.kind] :
          ref \in reply.provenance}
  /\ turn' = [turn EXCEPT ![r].status = "committed", ![r].reply = reply,
                          ![r].updated = now]
  /\ UNCHANGED <<nextTask, active, version, tool, modelCall, modelResponse,
                 basis, lease, tombstone, plan, now>>

Abort(r, g) ==
  /\ Pending(r, g)
  /\ turn' = [turn EXCEPT ![r].status = "aborted", ![r].updated = now]
  /\ UNCHANGED <<storeVars, tool, modelCall, modelResponse, basis, provenance,
                 lease, tombstone, plan, now>>

-----------------------------------------------------------------------------
(* Tools. An intent is journaled before the effect and its result after.   *)

StartTool(r, g, c, args) ==
  /\ Pending(r, g)
  /\ <<r, c>> \notin DOMAIN tool
  /\ ValidBasis(r)
  /\ tool' = Put(tool, <<r, c>>, [status |-> "started", args |-> args,
                                  result |-> NoResult, evidence |-> 0])
  /\ UNCHANGED <<storeVars, turn, modelCall, modelResponse, basis, provenance,
                 lease, tombstone, plan, now>>

\* The token is a hash of these fields and the primary key: the same lease
\* cannot be issued twice.
NewLease(r, g, c, ttl) ==
  [request |-> r, generation |-> g, call |-> c, args |-> tool[<<r, c>>].args,
   expires |-> now + ttl]

ActionEligible(r, g, c, ttl) ==
  /\ Pending(r, g)
  /\ <<r, c>> \in DOMAIN tool
  /\ tool[<<r, c>>].status = "started"
  /\ ValidBasis(r)
  /\ NewLease(r, g, c, ttl) \notin lease
  /\ lease' = lease \cup {NewLease(r, g, c, ttl)}
  /\ UNCHANGED <<storeVars, turn, tool, modelCall, modelResponse, basis,
                 provenance, tombstone, plan, now>>

\* validateActionLease, for a caller that presents the token of lease l.
ValidLease(r, g, c, l) ==
  /\ l \in lease
  /\ l.request = r /\ l.generation = g /\ l.call = c
  /\ l.expires > now
  /\ l.args = tool[<<r, c>>].args

\* FinishTool, once the token, if one is presented, has been accepted.
RecordResult(r, g, c, result) ==
  LET t == turn[r].input.task IN
  /\ Pending(r, g)
  /\ <<r, c>> \in DOMAIN tool
  /\ tool[<<r, c>>].status = "started"
  /\ nextMessage <= MaxMessages
  /\ message' = message \cup {NewMessage(nextMessage, t, "tool", r, c)}
  /\ nextMessage' = nextMessage + 1
  /\ epoch' = Ticked(t, 1)
  /\ basis' = AdvancedBasis(r, t, 1)
  /\ tool' = [tool EXCEPT ![<<r, c>>] = [@ EXCEPT !.status = "completed",
                                     !.result = result, !.evidence = nextMessage]]
  /\ UNCHANGED <<task, nextTask, fact, active, version, turn, modelCall,
                 modelResponse, provenance, lease, tombstone, plan, now>>

FinishTool(r, g, c, result) == RecordResult(r, g, c, result)

FinishToolUnderLease(r, g, c, result, l) ==
  ValidLease(r, g, c, l) /\ RecordResult(r, g, c, result)

-----------------------------------------------------------------------------
(* Model requests and responses.                                           *)

RecordModelRequest(r, g, c, payload) ==
  /\ Pending(r, g)
  /\ payload.units <= turn[r].input.allowance
  /\ <<r, c>> \notin DOMAIN modelCall
  /\ ValidBasis(r)
  /\ modelCall' = Put(modelCall, <<r, c>>, payload)
  /\ UNCHANGED <<storeVars, turn, tool, modelResponse, basis, provenance, lease,
                 tombstone, plan, now>>

RecordModelResponse(r, g, c, response) ==
  /\ Pending(r, g)
  /\ <<r, c>> \in DOMAIN modelCall
  /\ <<r, c>> \notin DOMAIN modelResponse
  /\ modelResponse' = Put(modelResponse, <<r, c>>, response)
  /\ UNCHANGED <<storeVars, turn, tool, modelCall, basis, provenance, lease,
                 tombstone, plan, now>>

-----------------------------------------------------------------------------
(* Retention: a reviewed dry run, then the same plan applied.              *)

EligibleByAge(cutoff) ==
  {r \in Begun : /\ turn[r].status \in {"committed", "aborted"}
                 /\ turn[r].updated < cutoff}
Eligible(cutoff) ==
  {r \in Begun : /\ turn[r].status \in {"committed", "aborted"}
                 /\ ~HasStartedTool(r)
                 /\ turn[r].updated < cutoff}

\* retentionCorpus: every row the plan hash covers for a candidate.
JournalRows(r) ==
  [turn          |-> turn[r],
   tool          |-> RowsOf(tool, r),
   modelCall     |-> RowsOf(modelCall, r),
   modelResponse |-> RowsOf(modelResponse, r),
   basis         |-> RowsOf(basis, r),
   provenance    |-> {p \in provenance : p.request = r},
   lease         |-> {l \in lease : l.request = r},
   tombstone     |-> {d \in tombstone : d.request = r}]

Reviewed(cutoff) ==
  [cutoff |-> cutoff, corpus |-> [r \in Eligible(cutoff) |-> JournalRows(r)]]

RetentionPlan(o, cutoff) ==
  /\ plan' = [plan EXCEPT ![o] = Reviewed(cutoff)]
  /\ UNCHANGED <<storeVars, journalVars, now>>

AsManyAsReviewed(o) ==
  Cardinality(DOMAIN plan[o].corpus) = Cardinality(Eligible(plan[o].cutoff))
\* The hash of the dry run against the hash of the same dry run now.
StillAsReviewed(o) == plan[o] = Reviewed(plan[o].cutoff)

\* A plan is not used up: applying it again finds no candidate left.
ApplyRetention(o) ==
  LET ids == Eligible(plan[o].cutoff) IN
  /\ plan[o] # NoPlan
  /\ StillAsReviewed(o)
  /\ tombstone' = tombstone \cup
       {[request |-> r, input |-> turn[r].input, status |-> turn[r].status] :
          r \in ids \ Retired}
  /\ modelResponse' = Without(modelResponse, ids)
  /\ modelCall' = Without(modelCall, ids)
  /\ tool' = Without(tool, ids)
  /\ basis' = Without(basis, ids)
  /\ provenance' = {p \in provenance : p.request \notin ids}
  /\ lease' = {l \in lease : l.request \notin ids}
  /\ turn' = [r \in Begun \ ids |-> turn[r]]
  /\ UNCHANGED <<storeVars, plan, now>>

-----------------------------------------------------------------------------
(* The other writers of the shared tables.                                 *)

UnfinishedRefersTo(t) == Busy(t)
\* A turn, or the evidence of a tool call, keeps its task from being deleted.
JournalRefersTo(t) ==
  \/ \E r \in Begun : turn[r].input.task = t
  \/ \E x \in DOMAIN tool : \E m \in MessagesOf(t) : tool[x].evidence = m.id

StoreWrite ==
  /\ \/ \E s \in Snapshots, P \in SUBSET TaskIds, a \in 0..MaxAliases :
          CreateTask(s, P, a)
     \/ \E b \in Batches : AppendBatch(b)
     \/ \E t \in TaskIds, u \in FactUpdates : SetFact(t, u)
     \/ \E t \in TaskIds, s \in Snapshots, v \in 1..MaxRevision :
          SetSnapshot(t, s, v)
     \/ \E t \in TaskIds : Resume(t)
     \/ \E t \in TaskIds : Archive(t)
     \/ \E t \in TaskIds : ~JournalRefersTo(t) /\ DeleteTask(t)
  /\ UNCHANGED <<journalVars, plan, now>>

Tick ==
  /\ now < MaxTime
  /\ now' = now + 1
  /\ UNCHANGED <<storeVars, journalVars, plan>>

Init ==
  /\ StoreInit
  /\ turn = << >> /\ tool = << >> /\ modelCall = << >> /\ modelResponse = << >>
  /\ basis = << >> /\ provenance = {} /\ lease = {} /\ tombstone = {}
  /\ plan = [o \in Operators |-> NoPlan]
  /\ now = 0

Next ==
  \/ StoreWrite
  \/ \E r \in Requests, i \in Inputs : Begin(r, i)
  \/ \E r \in Requests, g \in Generations : Recover(r, g)
  \/ \E r \in Requests, g \in Generations, y \in Replies : Commit(r, g, y)
  \/ \E r \in Requests, g \in Generations : Abort(r, g)
  \/ \E r \in Requests, g \in Generations, c \in Calls, a \in Args :
       StartTool(r, g, c, a)
  \/ \E r \in Requests, g \in Generations, c \in Calls, l \in Ttls :
       ActionEligible(r, g, c, l)
  \/ \E r \in Requests, g \in Generations, c \in Calls, x \in Results :
       FinishTool(r, g, c, x)
  \/ \E r \in Requests, g \in Generations, c \in Calls, x \in Results, l \in lease :
       FinishToolUnderLease(r, g, c, x, l)
  \/ \E r \in Requests, g \in Generations, c \in Calls, p \in Payloads :
       RecordModelRequest(r, g, c, p)
  \/ \E r \in Requests, g \in Generations, c \in Calls, x \in Responses :
       RecordModelResponse(r, g, c, x)
  \/ \E o \in Operators, n \in Times : RetentionPlan(o, n)
  \/ \E o \in Operators : ApplyRetention(o)
  \/ Tick

Spec == Init /\ [][Next]_vars

-----------------------------------------------------------------------------
(* Types.                                                                  *)

Package(S) ==
  [tasks: [S -> TaskRow], messages: SUBSET Message, facts: SUBSET Fact]

TurnRow(S) ==
  [status: {"pending", "committed", "aborted"}, input: Inputs,
   generation: Generations, revision: Nat, reply: Replies \cup {NoReply},
   updated: Times, package: Package(S)]

ToolRow ==
  [status: {"started", "completed"}, args: Args, result: Results \cup {NoResult},
   evidence: 0..MaxMessages]

Lease ==
  [request: Requests, generation: Generations, call: Calls, args: Args,
   expires: Nat]

\* A turn was packed from its task and others.
IsTurn(row) ==
  LET S == DOMAIN row.package.tasks
  IN  S \subseteq TaskIds /\ row.input.task \in S /\ row \in TurnRow(S)

IsTable(table, keys) ==
  table = [x \in DOMAIN table |-> table[x]] /\ DOMAIN table \subseteq keys

JournalTypeOK ==
  /\ IsTable(turn, Requests)
  /\ \A r \in Begun : IsTurn(turn[r])
  /\ IsTable(tool, Requests \X Calls)
  /\ \A x \in DOMAIN tool : tool[x] \in ToolRow
  /\ IsTable(modelCall, Requests \X Calls)
  /\ \A x \in DOMAIN modelCall : modelCall[x] \in Payloads
  /\ IsTable(modelResponse, Requests \X Calls)
  /\ \A x \in DOMAIN modelResponse : modelResponse[x] \in Responses
  /\ IsTable(basis, Requests \X Clocks)
  /\ \A x \in DOMAIN basis : basis[x] \in Nat
  /\ provenance \subseteq [request: Requests, evidence: MessageIds,
                            kind: {"supports"}]
  /\ lease \subseteq Lease
  /\ tombstone \subseteq [request: Requests, input: Inputs,
                           status: {"committed", "aborted"}]
  /\ DOMAIN plan = Operators
  /\ now \in Times

\* Every table holds rows of its type. Contradictory provenance in particular
\* is refused and never stored.
TypeOK == StoreTypeOK /\ JournalTypeOK

-----------------------------------------------------------------------------
(* Turns.                                                                  *)

Ended(r) == r \in Begun /\ turn[r].status # "pending"
Commits(r) == turn[r].status = "pending" /\ turn'[r].status = "committed"

\* Begin refuses a task whose last turn is unfinished, whoever recovers,
\* commits or aborts it in between (busy check, cmp_one_pending_turn).
OnePendingPerTask ==
  \A q, r \in Begun :
    /\ turn[q].status = "pending" /\ turn[r].status = "pending"
    /\ turn[q].input.task = turn[r].input.task
    => q = r

\* A commit replaces the very task row its package was built from: no write of
\* another turn, of TaskMemory.set_snapshot, archive or resume is lost under it,
\* even in a turn that asked for no scope consistency.
CommitReplacesWhatItSaw ==
  [][\A r \in Begun \cap Begun' :
       Commits(r) => task[turn[r].input.task]
                       = turn[r].package.tasks[turn[r].input.task]]_vars

\* The memory that the package of r was packed from, as it is now. What the turn
\* itself wrote since, its query and the results of its tools, is set aside.
Remembered(r) ==
  LET view == View(turn[r].input.task, turn[r].input.scope)
  IN  [view EXCEPT !.messages = {m \in @ : m.request # r}]

\* The turn starts a tool, certifies an effect, sends a model request or commits.
Acts(r) ==
  \/ Commits(r)
  \/ \E x \in DOMAIN tool' \ DOMAIN tool : x[1] = r
  \/ \E x \in DOMAIN modelCall' \ DOMAIN modelCall : x[1] = r
  \/ \E l \in lease' \ lease : l.request = r

\* A scoped turn acts only while every row its package could have drawn from is
\* as Begin saw it, whatever the other turns and the Python writers did and
\* however its own tool results advanced its basis (validateBasis, advanceBasis).
ActsOnlyOnSeenMemory ==
  [][\A r \in Begun \cap Begun' :
       Acts(r) /\ turn[r].input.consistency = "scope"
         => Remembered(r) = turn[r].package]_vars

\* A turn whose scope changed never becomes current again: finishing its tools,
\* recovering it or undoing the change does not hide the change (the comment on
\* advanceBasis). Abort is the only way on.
StaleForever ==
  [][\A r \in Begun \cap Begun' : ~ValidBasis(r) => ~ValidBasis(r)']_vars

\* A source whose fact has since been withdrawn supports no new snapshot ("a
\* source implicated in a retracted fact is treated as invalid", freshness.go:75;
\* "retracted sources fail closed", docs/HARNESS.md:18).
RetractedSourcesAreRefused ==
  [][\A r \in Begun \cap Begun' : Commits(r) =>
       \A ref \in turn'[r].reply.provenance, f, g \in fact :
         /\ f.evidence = ref.evidence
         /\ g.task = f.task /\ g.key = f.key
         /\ g.revision = LastRevision(f.task, f.key)
         => ~g.retracted]_vars

\* The active task is open: archive refuses it, delete_task clears it, resume and
\* Begin open the task they activate.
ActiveTaskIsOpen == active # 0 => task[active].status = "open"

\* The revisions of a fact count from one without gap or duplicate, also when one
\* reply revises a key twice, and each cites a message of its own task.
FactsAreHistories ==
  \A f \in fact :
    /\ {g.revision : g \in {h \in FactsOf(f.task) : h.key = f.key}}
         = 1..Cardinality({h \in FactsOf(f.task) : h.key = f.key})
    /\ \E m \in message : m.id = f.evidence /\ m.task = f.task

-----------------------------------------------------------------------------
(* Evidence and effects.                                                   *)

Spoken(r, role) == Cardinality({m \in message : m.request = r /\ m.role = role})

\* A request leaves its query once, its answer once and only when committed, and
\* each tool result once, whatever was retried, recovered or retired since.
EvidenceRecordedOnce ==
  /\ \A r \in Requests :
       /\ Spoken(r, "user") <= 1 /\ Spoken(r, "assistant") <= 1
       /\ r \in Begun => /\ Spoken(r, "user") = 1
                         /\ (Spoken(r, "assistant") = 1)
                              <=> (turn[r].status = "committed")
       /\ r \notin Begun \cup Retired => \A m \in message : m.request # r
  /\ \A x \in DOMAIN tool :
       {m.id : m \in {n \in message : n.request = x[1] /\ n.call = x[2]}}
         = IF tool[x].status = "completed" THEN {tool[x].evidence} ELSE {}

\* A committed turn has a recorded result for every tool it started, and no tool
\* starts once it is committed (indeterminate_tool).
CommittedToolsAreResolved ==
  \A x \in DOMAIN tool : tool[x].status = "started"
    => x[1] \in Begun /\ turn[x[1]].status # "committed"

\* An intent without a result may have had its effect: no step forgets it or
\* changes what was asked, retention included (ProtectedUnresolved).
UnresolvedToolSurvives ==
  [][\A x \in DOMAIN tool : tool[x].status = "started"
       => x \in DOMAIN tool' /\ tool'[x].args = tool[x].args]_vars

\* Once a turn has ended, nothing is added to its journal by a late worker, a
\* late model response or a late tool result.
EndedJournalIsFrozen ==
  [][\A r \in Begun \cap Begun' :
       Ended(r) => JournalRows(r)' = JournalRows(r)]_vars

-----------------------------------------------------------------------------
(* Retention.                                                              *)

\* No child row outlives its turn, no response its request, no lease its intent,
\* and no turn its task, through retention and task deletion in any order.
NoOrphanRows ==
  /\ \A x \in DOMAIN tool \cup DOMAIN modelCall \cup DOMAIN basis : x[1] \in Begun
  /\ DOMAIN modelResponse \subseteq DOMAIN modelCall
  /\ \A p \in provenance : p.request \in Begun
  /\ \A l \in lease : <<l.request, l.call>> \in DOMAIN tool
  /\ \A r \in Begun : TaskExists(turn[r].input.task)

\* What an apply erases is, row for row, what an operator's dry run covered.
RetiresOnlyReviewed ==
  [][\A r \in Begun \ Begun' :
       \E o \in Operators : /\ plan[o] # NoPlan
                            /\ r \in DOMAIN plan[o].corpus
                            /\ plan[o].corpus[r] = JournalRows(r)]_vars

\* The ledger a host sees: the turns, and the tombstones of retired ones.
LedgerView ==
  [r \in Begun \cup Retired |->
     IF r \in Begun
       THEN [phase |-> turn[r].status, input |-> turn[r].input, reply |-> turn[r].reply]
       ELSE LET d == CHOOSE e \in tombstone : e.request = r
            IN  [phase |-> d.status, input |-> d.input, reply |-> NoReply]]

Ledger == INSTANCE RequestLedger WITH ledger <- LedgerView

\* The journal keeps the RequestLedger promise: retries, recoveries, retention
\* and tombstones never let an ID mean two things or be worked twice.
ImplementsLedger == Ledger!Spec

=============================================================================
