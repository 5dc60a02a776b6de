------------------------------ MODULE RowsProofs ------------------------------
(***************************************************************************)
(* What the rows of the journal and of the store refer to and record: a    *)
(* turn its task, a child row its turn, a commit the row it read, an apply *)
(* the corpus an operator reviewed, messages the request that left them,   *)
(* facts the message they cite and the revision before.                    *)
(***************************************************************************)
EXTENDS TurnJournalProofs

\* IDs that AUTOINCREMENT has not handed out name no task.
FreshTaskIds == \A u \in TaskIds : u >= nextTask => task[u].status = "none"

\* The row of a task that a turn refers to is not deleted or replaced by another:
\* where it changes, its revision grows.
LEMMA TaskStep ==
  ASSUME TypeOK, FreshTaskIds, [Next]_vars, NEW u \in TaskIds, TaskExists(u),
         JournalRefersTo(u)
  PROVE  /\ TaskExists(u)'
         /\ task'[u] = task[u] \/ task'[u].revision > task[u].revision
<1> DEFINE Goal == /\ TaskExists(u)'
                   /\ task'[u] = task[u] \/ task'[u].revision > task[u].revision
<1>1. StoreTypeOK /\ task \in [TaskIds -> TaskRow] /\ task[u] \in TaskRow
  BY DEF TypeOK, StoreTypeOK
<1>2. task' = task => Goal
  BY DEF TaskExists
<1>3. CASE StoreWrite
  <2>1. ASSUME NEW s \in Snapshots, NEW P \in SUBSET TaskIds, NEW a \in 0..MaxAliases,
               CreateTask(s, P, a)
        PROVE  Goal
    <3>1. u # nextTask
      BY <1>1, <2>1 DEF FreshTaskIds, CreateTask, TaskExists, StoreTypeOK, TaskIds
    <3>2. task'[u] = task[u]
      BY <1>1, <2>1, <3>1 DEF CreateTask
    <3> QED  BY <3>2 DEF TaskExists
  <2>2. ASSUME NEW b \in Batches, AppendBatch(b)
        PROVE  Goal
    BY <1>2, <2>2 DEF AppendBatch
  <2>3. ASSUME NEW t \in TaskIds, NEW f \in FactUpdates, SetFact(t, f)
        PROVE  Goal
    BY <1>2, <2>3 DEF SetFact
  <2>4. ASSUME NEW t \in TaskIds, NEW s \in Snapshots, NEW v \in 1..MaxRevision,
               SetSnapshot(t, s, v)
        PROVE  Goal
    BY <1>1, <2>4 DEF SetSnapshot, TaskExists, TaskRow
  <2>5. ASSUME NEW t \in TaskIds, Resume(t)
        PROVE  Goal
    <3>1. CASE task' = task
      BY <1>2, <3>1
    <3>2. CASE task' = [task EXCEPT ![t].status = "open", ![t].revision = @ + 1]
      BY <1>1, <3>2 DEF TaskExists, TaskRow
    <3> QED  BY <2>5, <3>1, <3>2 DEF Resume
  <2>6. ASSUME NEW t \in TaskIds, Archive(t)
        PROVE  Goal
    BY <1>1, <2>6 DEF Archive, TaskExists, TaskRow
  <2>7. ASSUME NEW t \in TaskIds, ~JournalRefersTo(t), DeleteTask(t)
        PROVE  Goal
    <3>1. task'[u] = task[u]
      BY <1>1, <2>7 DEF DeleteTask
    <3> QED  BY <3>1 DEF TaskExists
  <2> QED
    BY <1>3, <2>1, <2>2, <2>3, <2>4, <2>5, <2>6, <2>7, Zenon DEF StoreWrite
<1>4. ASSUME NEW r \in Requests, NEW i \in Inputs, Begin(r, i)
      PROVE  Goal
  <2>1. task' = [task EXCEPT ![i.task] = Opened(task[i.task])]
    BY <1>4 DEF Begin
  <2>2. Opened(task[u]) = task[u] \/ /\ Opened(task[u]).status = "open"
                                     /\ Opened(task[u]).revision > task[u].revision
    BY <1>1 DEF Opened, TaskRow
  <2>3. task'[u] = task[u] \/ task'[u] = Opened(task[u])
    BY <1>1, <2>1
  <2> QED  BY <2>2, <2>3 DEF TaskExists
<1>5. ASSUME NEW r \in Requests, NEW g \in Generations, NEW y \in Replies, Commit(r, g, y)
      PROVE  Goal
  <2> DEFINE t == turn[r].input.task
  <2>1. CASE u # t
    BY <1>1, <1>5, <2>1 DEF Commit, TaskExists
  <2>2. CASE u = t
    <3>1. task'[u].status = task[u].status /\ task'[u].revision = task[u].revision + 1
      BY <1>1, <1>5, <2>2 DEF Commit, TaskRow
    <3> QED  BY <1>1, <3>1 DEF TaskExists, TaskRow
  <2> QED  BY <2>1, <2>2
<1>6. ASSUME NEW r \in Requests, NEW g \in Generations,
             \/ Recover(r, g) \/ Abort(r, g)
             \/ \E c \in Calls :
                  \/ \E a \in Args : StartTool(r, g, c, a)
                  \/ \E l \in Ttls : ActionEligible(r, g, c, l)
                  \/ \E x \in Results : RecordResult(r, g, c, x)
                  \/ \E p \in Payloads : RecordModelRequest(r, g, c, p)
                  \/ \E x \in Responses : RecordModelResponse(r, g, c, x)
      PROVE  Goal
  <2>1. task' = task
    BY <1>6 DEF Recover, Abort, StartTool, ActionEligible, RecordResult, RecordModelRequest,
                RecordModelResponse, storeVars
  <2> QED  BY <1>2, <2>1
<1>7. CASE \/ \E o \in Operators, n \in Times : RetentionPlan(o, n)
           \/ \E o \in Operators : ApplyRetention(o)
           \/ Tick \/ UNCHANGED vars
  <2>1. task' = task
    BY <1>7 DEF RetentionPlan, ApplyRetention, Tick, vars, storeVars
  <2> QED  BY <1>2, <2>1
<1> QED
  BY <1>3, <1>4, <1>5, <1>6, <1>7, Zenon DEF Next, FinishTool, FinishToolUnderLease

LEMMA FreshTaskIdsStep ==
  ASSUME TypeOK, FreshTaskIds, NoOrphanRows, [Next]_vars
  PROVE  FreshTaskIds'
<1>1. task \in [TaskIds -> TaskRow] /\ nextTask \in 1..(MaxTasks + 1) /\ MaxTasks \in Nat
  BY StoreAssumption DEF TypeOK, StoreTypeOK
<1>2. ASSUME nextTask' = nextTask, NEW t \in TaskIds, TaskExists(t),
             \A u \in TaskIds \ {t} : task'[u] = task[u]
      PROVE  FreshTaskIds'
  BY <1>1, <1>2 DEF FreshTaskIds, TaskExists, TaskIds
<1>3. task' = task /\ nextTask' = nextTask => FreshTaskIds'
  BY DEF FreshTaskIds
<1>4. CASE StoreWrite
  <2>1. ASSUME NEW s \in Snapshots, NEW P \in SUBSET TaskIds, NEW a \in 0..MaxAliases,
               CreateTask(s, P, a)
        PROVE  FreshTaskIds'
    <3>1. \A u \in TaskIds : u # nextTask => task'[u] = task[u]
      BY <1>1, <2>1 DEF CreateTask
    <3> QED  BY <1>1, <2>1, <3>1 DEF CreateTask, FreshTaskIds, TaskIds
  <2>2. ASSUME NEW b \in Batches, AppendBatch(b)
        PROVE  FreshTaskIds'
    BY <1>3, <2>2 DEF AppendBatch
  <2>3. ASSUME NEW t \in TaskIds, NEW f \in FactUpdates, SetFact(t, f)
        PROVE  FreshTaskIds'
    BY <1>3, <2>3 DEF SetFact
  <2>4. ASSUME NEW t \in TaskIds,
               \/ \E s \in Snapshots, v \in 1..MaxRevision : SetSnapshot(t, s, v)
               \/ Resume(t) \/ Archive(t) \/ DeleteTask(t)
        PROVE  FreshTaskIds'
    <3>1. TaskExists(t) /\ nextTask' = nextTask
      BY <2>4 DEF SetSnapshot, Resume, Archive, DeleteTask
    <3>2. \A u \in TaskIds \ {t} : task'[u] = task[u]
      BY <1>1, <2>4 DEF SetSnapshot, Resume, Archive, DeleteTask
    <3> QED  BY <1>2, <3>1, <3>2
  <2> QED
    BY <1>4, <2>1, <2>2, <2>3, <2>4, Zenon DEF StoreWrite
<1>5. ASSUME NEW r \in Requests, NEW i \in Inputs, Begin(r, i)
      PROVE  FreshTaskIds'
  <2>1. i.task \in TaskIds /\ TaskExists(i.task) /\ nextTask' = nextTask
    BY <1>5, InputIsTyped DEF Begin
  <2>2. \A u \in TaskIds \ {i.task} : task'[u] = task[u]
    BY <1>1, <1>5 DEF Begin
  <2> QED  BY <1>2, <2>1, <2>2
<1>6. ASSUME NEW r \in Requests, NEW g \in Generations, NEW y \in Replies, Commit(r, g, y)
      PROVE  FreshTaskIds'
  <2> DEFINE t == turn[r].input.task
  <2>1. t \in TaskIds /\ TaskExists(t) /\ nextTask' = nextTask
    BY <1>6 DEF Commit, Pending, NoOrphanRows, TaskExists
  <2>2. \A u \in TaskIds \ {t} : task'[u] = task[u]
    BY <1>1, <1>6 DEF Commit
  <2> QED  BY <1>2, <2>1, <2>2
<1>7. ASSUME NEW r \in Requests, NEW g \in Generations,
             \/ Recover(r, g) \/ Abort(r, g)
             \/ \E c \in Calls :
                  \/ \E a \in Args : StartTool(r, g, c, a)
                  \/ \E l \in Ttls : ActionEligible(r, g, c, l)
                  \/ \E x \in Results : RecordResult(r, g, c, x)
                  \/ \E p \in Payloads : RecordModelRequest(r, g, c, p)
                  \/ \E x \in Responses : RecordModelResponse(r, g, c, x)
      PROVE  FreshTaskIds'
  <2>1. task' = task /\ nextTask' = nextTask
    BY <1>7 DEF Recover, Abort, StartTool, ActionEligible, RecordResult, RecordModelRequest,
                RecordModelResponse, storeVars
  <2> QED  BY <1>3, <2>1
<1>8. CASE \/ \E o \in Operators, n \in Times : RetentionPlan(o, n)
           \/ \E o \in Operators : ApplyRetention(o)
           \/ Tick \/ UNCHANGED vars
  <2>1. task' = task /\ nextTask' = nextTask
    BY <1>8 DEF RetentionPlan, ApplyRetention, Tick, vars, storeVars
  <2> QED  BY <1>3, <2>1
<1> QED
  BY <1>4, <1>5, <1>6, <1>7, <1>8, Zenon DEF Next, FinishTool, FinishToolUnderLease

-----------------------------------------------------------------------------
(* No row outlives what it refers to.                                      *)

\* The rows that belong to turns, calls and intents.
ChildRows ==
  /\ \A x \in DOMAIN tool \cup DOMAIN modelCall \cup DOMAIN basis : x[1] \in Begun
  /\ DOMAIN modelResponse \subseteq DOMAIN modelCall
  /\ \A p \in provenance : p.request \in Begun
  /\ \A l \in lease : <<l.request, l.call>> \in DOMAIN tool

LEMMA ChildRowsStep ==
  ASSUME TypeOK, ChildRows, [Next]_vars
  PROVE  ChildRows'
<1>1. CASE \/ StoreWrite \/ Tick \/ UNCHANGED vars
           \/ \E o \in Operators, n \in Times : RetentionPlan(o, n)
  BY <1>1 DEF StoreWrite, Tick, vars, journalVars, RetentionPlan, ChildRows, Begun
<1>2. ASSUME NEW r \in Requests, NEW i \in Inputs, Begin(r, i)
      PROVE  ChildRows'
  BY <1>2 DEF Begin, Put, ChildRows, Begun
<1>3. ASSUME NEW r \in Requests, NEW g \in Generations, Recover(r, g) \/ Abort(r, g)
      PROVE  ChildRows'
  BY <1>3 DEF Recover, Abort, ChildRows, Begun
<1>4. ASSUME NEW r \in Requests, NEW g \in Generations, NEW y \in Replies, Commit(r, g, y)
      PROVE  ChildRows'
  <2>1. /\ Begun' = Begun /\ r \in Begun /\ \A p \in provenance' : p \in provenance \/ p.request = r
        /\ UNCHANGED <<tool, modelCall, modelResponse, basis, lease>>
    BY <1>4 DEF Commit, Pending, Begun
  <2> QED  BY <2>1 DEF ChildRows
<1>5. ASSUME NEW r \in Requests, NEW g \in Generations, NEW c \in Calls, NEW a \in Args,
             StartTool(r, g, c, a)
      PROVE  ChildRows'
  <2>1. /\ DOMAIN tool' = DOMAIN tool \cup {<<r, c>>} /\ r \in Begun /\ Begun' = Begun
        /\ UNCHANGED <<modelCall, modelResponse, basis, provenance, lease>>
    BY <1>5 DEF StartTool, Put, Pending, Begun
  <2> QED  BY <2>1 DEF ChildRows
<1>6. ASSUME NEW r \in Requests, NEW g \in Generations, NEW c \in Calls, NEW l \in Ttls,
             ActionEligible(r, g, c, l)
      PROVE  ChildRows'
  <2>1. /\ <<r, c>> \in DOMAIN tool /\ Begun' = Begun
        /\ \A x \in lease' : x \in lease \/ (x.request = r /\ x.call = c)
        /\ UNCHANGED <<tool, modelCall, modelResponse, basis, provenance>>
    BY <1>6 DEF ActionEligible, NewLease, Begun
  <2> QED  BY <2>1 DEF ChildRows
<1>7. ASSUME NEW r \in Requests, NEW g \in Generations, NEW c \in Calls, NEW x \in Results,
             RecordResult(r, g, c, x)
      PROVE  ChildRows'
  <2>1. /\ DOMAIN tool' = DOMAIN tool /\ DOMAIN basis' = DOMAIN basis /\ Begun' = Begun
        /\ UNCHANGED <<modelCall, modelResponse, provenance, lease>>
    BY <1>7 DEF RecordResult, AdvancedBasis, Begun
  <2> QED  BY <2>1 DEF ChildRows
<1>8. ASSUME NEW r \in Requests, NEW g \in Generations, NEW c \in Calls, NEW p \in Payloads,
             RecordModelRequest(r, g, c, p)
      PROVE  ChildRows'
  <2>1. /\ DOMAIN modelCall' = DOMAIN modelCall \cup {<<r, c>>} /\ r \in Begun /\ Begun' = Begun
        /\ UNCHANGED <<tool, modelResponse, basis, provenance, lease>>
    BY <1>8 DEF RecordModelRequest, Put, Pending, Begun
  <2> QED  BY <2>1 DEF ChildRows
<1>9. ASSUME NEW r \in Requests, NEW g \in Generations, NEW c \in Calls, NEW x \in Responses,
             RecordModelResponse(r, g, c, x)
      PROVE  ChildRows'
  <2>1. /\ DOMAIN modelResponse' = DOMAIN modelResponse \cup {<<r, c>>}
        /\ <<r, c>> \in DOMAIN modelCall /\ Begun' = Begun
        /\ UNCHANGED <<tool, modelCall, basis, provenance, lease>>
    BY <1>9 DEF RecordModelResponse, Put, Begun
  <2> QED  BY <2>1 DEF ChildRows
<1>10. ASSUME NEW o \in Operators, ApplyRetention(o)
       PROVE  ChildRows'
  <2> DEFINE ids == Eligible(plan[o].cutoff)
             Left(table) == {x \in DOMAIN table : x[1] \notin ids}
  <2>1. /\ Begun' = Begun \ ids
        /\ DOMAIN tool' = Left(tool) /\ DOMAIN modelCall' = Left(modelCall)
        /\ DOMAIN modelResponse' = Left(modelResponse) /\ DOMAIN basis' = Left(basis)
        /\ provenance' = {p \in provenance : p.request \notin ids}
        /\ lease' = {l \in lease : l.request \notin ids}
    BY <1>10 DEF ApplyRetention, Without, Begun
  <2> HIDE DEF ids
  <2>2. \A l \in lease : <<l.request, l.call>>[1] = l.request
    OBVIOUS
  <2> QED  BY <2>1, <2>2 DEF ChildRows
<1> QED
  BY <1>1, <1>2, <1>3, <1>4, <1>5, <1>6, <1>7, <1>8, <1>9, <1>10, Zenon
  DEF Next, FinishTool, FinishToolUnderLease

LEMMA RowsStep ==
  ASSUME TypeOK, FreshTaskIds, NoOrphanRows, [Next]_vars
  PROVE  FreshTaskIds' /\ NoOrphanRows'
<1>1. FreshTaskIds'
  BY FreshTaskIdsStep
<1>2. ChildRows'
  BY ChildRowsStep DEF ChildRows, NoOrphanRows
<1>3. ASSUME NEW r \in Begun'
      PROVE  TaskExists(turn[r].input.task)'
  <2>1. CASE r \in Begun
    <3>1. turn'[r].input = turn[r].input
      BY <1>3, <2>1, TurnStep
    <3>2. TaskExists(turn[r].input.task) /\ JournalRefersTo(turn[r].input.task)
      BY <2>1 DEF NoOrphanRows, JournalRefersTo
    <3>3. TaskExists(turn[r].input.task) => turn[r].input.task \in TaskIds
      BY DEF TaskExists
    <3> DEFINE t == turn[r].input.task
    <3>4. TaskExists(t)'
      <4> HIDE DEF t
      <4>1. t \in TaskIds /\ TaskExists(t) /\ JournalRefersTo(t)
        BY <3>2, <3>3 DEF t
      <4>2. \A u \in TaskIds : TaskExists(u) /\ JournalRefersTo(u) => task'[u].status # "none"
        BY TaskStep DEF TaskExists
      <4>3. task'[t].status # "none"
        BY <4>1, <4>2
      <4> QED  BY <3>1, <4>1, <4>3 DEF TaskExists, t
    <3> QED  BY <3>1, <3>4 DEF TaskExists
  <2>2. CASE r \notin Begun
    <3>1. PICK i \in Inputs : Begin(r, i)
      BY <1>3, <2>2, TurnStep
    <3>2. turn'[r].input = i /\ i.task \in TaskIds /\ task[i.task].status # "none"
      BY <2>2, <3>1 DEF Begin, Put, TaskExists
    <3>3. task'[i.task] = Opened(task[i.task]) /\ task[i.task] \in TaskRow
      BY <3>1, <3>2 DEF Begin, TypeOK, StoreTypeOK
    <3> QED  BY <3>2, <3>3 DEF TaskExists, Opened, TaskRow
  <2> QED  BY <2>1, <2>2
<1> QED  BY <1>1, <1>2, <1>3 DEF ChildRows, NoOrphanRows

LEMMA RowsInvariant == Spec => [](FreshTaskIds /\ NoOrphanRows)
<1>1. Init => FreshTaskIds /\ NoOrphanRows
  BY DEF Init, StoreInit, NoTask, FreshTaskIds, NoOrphanRows, Begun, TaskExists
<1> QED  BY <1>1, RowsStep, Typed, PTL DEF Spec

\* Retention deletes the child tables of a turn with it and the store refuses to
\* delete the task of a turn, so nothing is left without what it refers to.
THEOREM NoOrphans == Spec => []NoOrphanRows
BY RowsInvariant, PTL

-----------------------------------------------------------------------------
(* The active task.                                                        *)

\* Whoever activates a task opens it, archive refuses the active task and deleting
\* it clears it, so that the active task is open between any two transactions.
THEOREM ActiveTask == Spec => []ActiveTaskIsOpen
<1>1. Init => ActiveTaskIsOpen
  BY DEF Init, StoreInit, ActiveTaskIsOpen
<1>2. ASSUME TypeOK, ActiveTaskIsOpen, [Next]_vars
      PROVE  ActiveTaskIsOpen'
  <2>1. /\ task \in [TaskIds -> TaskRow] /\ nextTask \in 1..(MaxTasks + 1)
        /\ active \in 0..MaxTasks /\ MaxTasks \in Nat
    BY <1>2, StoreAssumption DEF TypeOK, StoreTypeOK, Clocks
  <2>2. task' = task /\ active' = active => ActiveTaskIsOpen'
    BY <1>2 DEF ActiveTaskIsOpen
  <2>3. CASE StoreWrite
    <3>1. ASSUME NEW s \in Snapshots, NEW P \in SUBSET TaskIds, NEW a \in 0..MaxAliases,
                 CreateTask(s, P, a)
          PROVE  ActiveTaskIsOpen'
      BY <1>2, <2>1, <3>1 DEF CreateTask, ActiveTaskIsOpen, TaskIds
    <3>2. ASSUME NEW b \in Batches, AppendBatch(b)
          PROVE  ActiveTaskIsOpen'
      BY <2>2, <3>2 DEF AppendBatch
    <3>3. ASSUME NEW t \in TaskIds, NEW f \in FactUpdates, SetFact(t, f)
          PROVE  ActiveTaskIsOpen'
      BY <2>2, <3>3 DEF SetFact
    <3>4. ASSUME NEW t \in TaskIds, NEW s \in Snapshots, NEW v \in 1..MaxRevision,
                 SetSnapshot(t, s, v)
          PROVE  ActiveTaskIsOpen'
      BY <1>2, <2>1, <3>4 DEF SetSnapshot, ActiveTaskIsOpen, TaskRow, TaskIds
    <3>5. ASSUME NEW t \in TaskIds, Resume(t)
          PROVE  ActiveTaskIsOpen'
      <4>1. active' = t /\ task[t] \in TaskRow /\ task[t].status # "none"
        BY <2>1, <3>5 DEF Resume, TaskExists
      <4>2. CASE task[t].status = "archived"
        BY <2>1, <3>5, <4>1, <4>2 DEF Resume, ActiveTaskIsOpen, TaskRow
      <4>3. CASE task[t].status # "archived"
        BY <3>5, <4>1, <4>3 DEF Resume, ActiveTaskIsOpen, TaskRow
      <4> QED  BY <4>2, <4>3
    <3>6. ASSUME NEW t \in TaskIds, Archive(t)
          PROVE  ActiveTaskIsOpen'
      BY <1>2, <2>1, <3>6 DEF Archive, ActiveTaskIsOpen, TaskIds
    <3>7. ASSUME NEW t \in TaskIds, DeleteTask(t)
          PROVE  ActiveTaskIsOpen'
      BY <1>2, <2>1, <3>7 DEF DeleteTask, ActiveTaskIsOpen, TaskIds
    <3> QED
      BY <2>3, <3>1, <3>2, <3>3, <3>4, <3>5, <3>6, <3>7, Zenon DEF StoreWrite
  <2>4. ASSUME NEW r \in Requests, NEW i \in Inputs, Begin(r, i)
        PROVE  ActiveTaskIsOpen'
    <3>1. i.task \in TaskIds /\ task[i.task].status # "none" /\ task[i.task] \in TaskRow
      BY <2>1, <2>4, InputIsTyped DEF Begin, TaskExists
    <3>2. active' = i.task /\ task'[i.task] = Opened(task[i.task])
      BY <2>1, <2>4, <3>1 DEF Begin
    <3> QED  BY <3>1, <3>2 DEF ActiveTaskIsOpen, Opened, TaskRow
  <2>5. ASSUME NEW r \in Requests, NEW g \in Generations, NEW y \in Replies, Commit(r, g, y)
        PROVE  ActiveTaskIsOpen'
    <3>1. active' = active /\ DOMAIN task = TaskIds
      BY <2>1, <2>5 DEF Commit
    <3>2. ASSUME NEW u \in TaskIds
          PROVE  task'[u].status = task[u].status
      <4>1. task[u] \in TaskRow
        BY <2>1
      <4> QED  BY <2>1, <2>5, <4>1 DEF Commit, TaskRow
    <3> QED  BY <1>2, <2>1, <3>1, <3>2 DEF ActiveTaskIsOpen, TaskIds
  <2>6. ASSUME NEW r \in Requests, NEW g \in Generations,
               \/ Recover(r, g) \/ Abort(r, g)
               \/ \E c \in Calls :
                    \/ \E a \in Args : StartTool(r, g, c, a)
                    \/ \E l \in Ttls : ActionEligible(r, g, c, l)
                    \/ \E x \in Results : RecordResult(r, g, c, x)
                    \/ \E p \in Payloads : RecordModelRequest(r, g, c, p)
                    \/ \E x \in Responses : RecordModelResponse(r, g, c, x)
        PROVE  ActiveTaskIsOpen'
    <3>1. task' = task /\ active' = active
      BY <2>6 DEF Recover, Abort, StartTool, ActionEligible, RecordResult, RecordModelRequest,
                  RecordModelResponse, storeVars
    <3> QED  BY <2>2, <3>1
  <2>7. CASE \/ \E o \in Operators, n \in Times : RetentionPlan(o, n)
             \/ \E o \in Operators : ApplyRetention(o)
             \/ Tick \/ UNCHANGED vars
    <3>1. task' = task /\ active' = active
      BY <2>7 DEF RetentionPlan, ApplyRetention, Tick, vars, storeVars
    <3> QED  BY <2>2, <3>1
  <2> QED
    BY <1>2, <2>3, <2>4, <2>5, <2>6, <2>7, Zenon DEF Next, FinishTool, FinishToolUnderLease
<1> QED  BY <1>1, <1>2, Typed, PTL DEF Spec

-----------------------------------------------------------------------------
(* What a commit replaces.                                                 *)

\* While the row of its task has the revision a turn was begun with, it is the row
\* the turn was packed with.
RevisionTells ==
  \A r \in Begun :
    LET row == task[turn[r].input.task] IN
    /\ row.revision >= turn[r].revision
    /\ row.revision = turn[r].revision
         => row = turn[r].package.tasks[turn[r].input.task]

LEMMA RevisionTellsStep ==
  ASSUME TypeOK, FreshTaskIds, NoOrphanRows, RevisionTells, [Next]_vars
  PROVE  RevisionTells'
<1> SUFFICES ASSUME NEW r \in Begun'
             PROVE  LET row == task'[turn'[r].input.task] IN
                    /\ row.revision >= turn'[r].revision
                    /\ row.revision = turn'[r].revision
                         => row = turn'[r].package.tasks[turn'[r].input.task]
  BY DEF RevisionTells
<1>1. CASE r \in Begun
  <2>1. PICK t \in TaskIds : t = turn[r].input.task
    BY <1>1 DEF NoOrphanRows, TaskExists
  <2>2. /\ turn'[r].input = turn[r].input /\ turn'[r].package = turn[r].package
        /\ turn'[r].revision = turn[r].revision
    BY <1>1, TurnStep
  <2>3. TaskExists(t) /\ JournalRefersTo(t)
    BY <1>1, <2>1 DEF NoOrphanRows, JournalRefersTo
  <2>4. task'[t] = task[t] \/ task'[t].revision > task[t].revision
    BY <2>3, TaskStep
  <2>5. task[t].revision \in Nat /\ task'[t].revision \in Nat /\ turn[r].revision \in Nat
    <3>1. task \in [TaskIds -> TaskRow] /\ IsTurn(turn[r])
      BY <1>1 DEF TypeOK, StoreTypeOK, JournalTypeOK
    <3>2. task' \in [TaskIds -> TaskRow]
      BY NextIsTyped DEF TypeOK, StoreTypeOK
    <3> QED  BY <3>1, <3>2 DEF TaskRow, IsTurn, TurnRow
  <2>6. /\ task[t].revision >= turn[r].revision
        /\ task[t].revision = turn[r].revision => task[t] = turn[r].package.tasks[t]
    BY <1>1, <2>1 DEF RevisionTells
  <2> QED  BY <2>1, <2>2, <2>4, <2>5, <2>6
<1>2. CASE r \notin Begun
  <2>1. PICK i \in Inputs : Begin(r, i)
    BY <1>2, TurnStep
  <2> DEFINE opened == Opened(task[i.task])
  <2>2. i.task \in TaskIds /\ opened \in TaskRow /\ StoreTypeOK
    BY InputIsTyped, OpenedIsTyped DEF TypeOK, StoreTypeOK
  <2>3. task'[i.task] = opened
    BY <2>1, <2>2 DEF Begin, StoreTypeOK
  <2>4. /\ turn'[r].input = i /\ turn'[r].revision = opened.revision
        /\ turn'[r].package = [View(i.task, i.scope) EXCEPT !.tasks[i.task] = opened]
    BY <1>2, <2>1 DEF Begin, Put
  <2>5. turn'[r].package.tasks[i.task] = opened
    <3>1. i.task \in Scope(i.task, i.scope)
      BY <2>2, ScopeIsTasks
    <3> HIDE DEF opened
    <3> QED  BY <2>4, <3>1 DEF View
  <2>6. opened.revision \in Nat
    BY <2>2 DEF TaskRow
  <2> HIDE DEF opened
  <2> QED  BY <2>3, <2>4, <2>5, <2>6
<1> QED  BY <1>1, <1>2

\* Comparing the revision is enough: no write of anybody else to the task row is
\* lost under a commit, and no task is deleted and replaced in between.
THEOREM CommitsReplace == Spec => CommitReplacesWhatItSaw
<1>1. Init => RevisionTells
  BY DEF Init, RevisionTells, Begun
<1>2. Spec => []RevisionTells
  BY <1>1, RevisionTellsStep, RowsInvariant, Typed, PTL DEF Spec
<1>3. ASSUME TypeOK, RevisionTells, [Next]_vars, NEW r \in Begun \cap Begun', Commits(r)
      PROVE  task[turn[r].input.task] = turn[r].package.tasks[turn[r].input.task]
  <2>1. SameRevision(r)
    BY <1>3, TurnStep DEF Commit
  <2> QED  BY <1>3, <2>1 DEF RevisionTells, SameRevision
<1>4. TypeOK /\ RevisionTells /\ [Next]_vars
        => [\A r \in Begun \cap Begun' :
              Commits(r) => task[turn[r].input.task]
                              = turn[r].package.tasks[turn[r].input.task]]_vars
  BY <1>3
<1> QED  BY <1>2, <1>4, Typed, PTL DEF Spec, CommitReplacesWhatItSaw

-----------------------------------------------------------------------------
(* Retention erases what was reviewed.                                     *)

\* Turns leave the journal by ApplyRetention alone.
LEMMA Retirement ==
  ASSUME TypeOK, [Next]_vars, NEW r \in Begun \ Begun'
  PROVE  \E o \in Operators : ApplyRetention(o) /\ r \in Eligible(plan[o].cutoff)
<1>1. ASSUME Begun \subseteq Begun'
      PROVE  FALSE
  BY <1>1
<1>2. CASE \/ StoreWrite \/ Tick \/ UNCHANGED vars
           \/ \E o \in Operators, n \in Times : RetentionPlan(o, n)
  BY <1>1, <1>2 DEF StoreWrite, Tick, vars, journalVars, RetentionPlan, Begun
<1>3. ASSUME NEW q \in Requests, NEW i \in Inputs, Begin(q, i)
      PROVE  FALSE
  BY <1>1, <1>3 DEF Begin, Put, Begun
<1>4. ASSUME NEW q \in Requests, NEW g \in Generations,
             \/ Recover(q, g) \/ Abort(q, g) \/ \E y \in Replies : Commit(q, g, y)
             \/ \E c \in Calls :
                  \/ \E a \in Args : StartTool(q, g, c, a)
                  \/ \E l \in Ttls : ActionEligible(q, g, c, l)
                  \/ \E x \in Results : RecordResult(q, g, c, x)
                  \/ \E p \in Payloads : RecordModelRequest(q, g, c, p)
                  \/ \E x \in Responses : RecordModelResponse(q, g, c, x)
      PROVE  FALSE
  BY <1>1, <1>4 DEF Recover, Abort, Commit, StartTool, ActionEligible, RecordResult,
                    RecordModelRequest, RecordModelResponse, Begun
<1>5. ASSUME NEW o \in Operators, ApplyRetention(o)
      PROVE  r \in Eligible(plan[o].cutoff)
  BY <1>5 DEF ApplyRetention, Begun
<1> QED
  BY <1>2, <1>3, <1>4, <1>5, Zenon DEF Next, FinishTool, FinishToolUnderLease

\* The hash of the reviewed plan covers every row that the apply then erases.
THEOREM OnlyReviewed == Spec => RetiresOnlyReviewed
<1>1. ASSUME TypeOK, [Next]_vars, NEW r \in Begun \ Begun'
      PROVE  \E o \in Operators : /\ plan[o] # NoPlan
                                  /\ r \in DOMAIN plan[o].corpus
                                  /\ plan[o].corpus[r] = JournalRows(r)
  <2>1. PICK o \in Operators : ApplyRetention(o) /\ r \in Eligible(plan[o].cutoff)
    BY <1>1, Retirement
  <2>2. plan[o] # NoPlan /\ plan[o] = Reviewed(plan[o].cutoff)
    BY <2>1 DEF ApplyRetention, StillAsReviewed
  <2>3. plan[o].corpus = [q \in Eligible(plan[o].cutoff) |-> JournalRows(q)]
    <3>1. \A n : Reviewed(n).corpus = [q \in Eligible(n) |-> JournalRows(q)]
      BY DEF Reviewed
    <3> QED  BY <2>2, <3>1, Zenon
  <2> QED  BY <2>1, <2>2, <2>3
<1>2. TypeOK /\ [Next]_vars
        => [\A r \in Begun \ Begun' :
              \E o \in Operators : /\ plan[o] # NoPlan
                                   /\ r \in DOMAIN plan[o].corpus
                                   /\ plan[o].corpus[r] = JournalRows(r)]_vars
  BY <1>1
<1> QED  BY <1>2, Typed, PTL DEF Spec, RetiresOnlyReviewed

-----------------------------------------------------------------------------
(* The evidence of a request.                                              *)

Lines(r, role) == {m \in message : m.request = r /\ m.role = role}
AtMostOne(S) == \A m, n \in S : m = n

\* The query of a request, its answer, and nothing before it is begun.
SpokenOnce ==
  \A r \in Requests :
    /\ AtMostOne(Lines(r, "user")) /\ AtMostOne(Lines(r, "assistant"))
    /\ r \in Begun => /\ Lines(r, "user") # {}
                      /\ Lines(r, "assistant") # {} <=> turn[r].status = "committed"
    /\ r \notin Begun \cup Retired => \A m \in message : m.request # r

\* A message of a turn is a message of its task, so it cannot be deleted with it; one
\* with a call is the result of an intent that is completed.
OwnLines ==
  \A m \in message : m.request \in Begun =>
    /\ m.task = turn[m.request].input.task
    /\ m.call # NoCall => <<m.request, m.call>> \in DOMAIN tool

ResultsRecorded ==
  \A x \in DOMAIN tool :
    /\ tool[x].status = "completed" =>
         \E m \in message : m.request = x[1] /\ m.call = x[2]
    /\ \A m \in message : m.request = x[1] /\ m.call = x[2] =>
         tool[x].status = "completed" /\ m.id = tool[x].evidence

Recorded == SpokenOnce /\ OwnLines /\ ResultsRecorded

\* Counting the messages of a request.
LEMMA Counting ==
  ASSUME TypeOK, NEW r, NEW role
  PROVE  /\ AtMostOne(Lines(r, role)) => Spoken(r, role) <= 1
         /\ Lines(r, role) = {} <=> Spoken(r, role) = 0
         /\ AtMostOne(Lines(r, role)) /\ Lines(r, role) # {} <=> Spoken(r, role) = 1
<1> DEFINE L == Lines(r, role)
<1>1. IsFiniteSet(L) /\ Spoken(r, role) = Cardinality(L)
  <2>1. L \in SUBSET message /\ IsFiniteSet(message)
    BY DEF Lines, TypeOK, StoreTypeOK
  <2>2. IsFiniteSet(L)
    BY <2>1, FS_Subset, Zenon
  <2> QED  BY <2>2, Zenon DEF Spoken, Lines
<1> HIDE DEF L
<1>2. Cardinality(L) = 0 <=> L = {}
  BY <1>1, FS_EmptySet
<1>3. Cardinality(L) = 1 <=> \E m : L = {m}
  BY <1>1, FS_Singleton
<1>4. AtMostOne(L) /\ L # {} <=> \E m : L = {m}
  BY DEF AtMostOne
<1> QED  BY <1>1, <1>2, <1>3, <1>4 DEF L

LEMMA RecordedMeansOnce ==
  ASSUME TypeOK, Recorded
  PROVE  EvidenceRecordedOnce
<1>1. ASSUME NEW r \in Requests
      PROVE  /\ Spoken(r, "user") <= 1 /\ Spoken(r, "assistant") <= 1
             /\ r \in Begun => /\ Spoken(r, "user") = 1
                               /\ (Spoken(r, "assistant") = 1) <=> (turn[r].status = "committed")
             /\ r \notin Begun \cup Retired => \A m \in message : m.request # r
  BY Counting DEF Recorded, SpokenOnce
<1>2. ASSUME NEW x \in DOMAIN tool
      PROVE  {m.id : m \in {n \in message : n.request = x[1] /\ n.call = x[2]}}
               = IF tool[x].status = "completed" THEN {tool[x].evidence} ELSE {}
  BY DEF Recorded, ResultsRecorded
<1> QED  BY <1>1, <1>2 DEF EvidenceRecordedOnce

\* A step that leaves turns, tombstones and intents alone, adds no message of a
\* request and deletes none of a turn.
LEMMA StoreKeepsEvidence ==
  ASSUME TypeOK, NoOrphanRows, Recorded, UNCHANGED <<turn, tool, tombstone>>,
         \A m \in message' : m \in message \/ m.request = NoRequest,
         \A m \in message : m.request \in Begun => m \in message'
  PROVE  Recorded'
<1>1. Begun' = Begun /\ Retired' = Retired /\ Begun \subseteq Requests
  BY DEF Begun, Retired, TypeOK, JournalTypeOK, IsTable
<1>2. \A m \in message' : m.request \in Requests => m \in message
  BY StoreAssumption
<1>3. \A role : \A r \in Requests : Lines(r, role)' \subseteq Lines(r, role)
  BY <1>2 DEF Lines
<1>4. \A role : \A r \in Begun : Lines(r, role) \subseteq Lines(r, role)'
  BY DEF Lines
<1>5. SpokenOnce'
  BY <1>1, <1>2, <1>3, <1>4 DEF Recorded, SpokenOnce, AtMostOne
<1>6. OwnLines'
  BY <1>1, <1>2 DEF Recorded, OwnLines
<1>7. ResultsRecorded'
  <2>1. \A x \in DOMAIN tool : x[1] \in Begun
    BY DEF NoOrphanRows
  <2> QED  BY <1>1, <1>2, <2>1 DEF Recorded, ResultsRecorded
<1> QED  BY <1>5, <1>6, <1>7 DEF Recorded

LEMMA StoreWriteKeepsEvidence ==
  ASSUME TypeOK, NoOrphanRows, Recorded, StoreWrite
  PROVE  Recorded'
<1>1. UNCHANGED <<turn, tool, tombstone>>
  BY DEF StoreWrite, journalVars
<1>2. message' = message => Recorded'
  BY <1>1, StoreKeepsEvidence
<1>3. ASSUME NEW b \in Batches, AppendBatch(b)
      PROVE  Recorded'
  <2>1. \A m \in message' : m \in message \/ m.request = NoRequest
    BY <1>3 DEF AppendBatch, NewMessage
  <2>2. message \subseteq message'
    BY <1>3 DEF AppendBatch
  <2> QED  BY <1>1, <2>1, <2>2, StoreKeepsEvidence
<1>4. ASSUME NEW t \in TaskIds, ~JournalRefersTo(t), DeleteTask(t)
      PROVE  Recorded'
  <2>1. message' = message \ MessagesOf(t)
    BY <1>4 DEF DeleteTask
  <2>2. \A m \in MessagesOf(t) : m.request \notin Begun
    BY <1>4 DEF JournalRefersTo, MessagesOf, Recorded, OwnLines
  <2> QED  BY <1>1, <2>1, <2>2, StoreKeepsEvidence
<1>5. ASSUME NEW t \in TaskIds,
             \/ \E f \in FactUpdates : SetFact(t, f)
             \/ \E s \in Snapshots, v \in 1..MaxRevision : SetSnapshot(t, s, v)
             \/ Resume(t) \/ Archive(t)
      PROVE  Recorded'
  <2>1. message' = message
    BY <1>5 DEF SetFact, SetSnapshot, Resume, Archive
  <2> QED  BY <1>2, <2>1
<1>6. ASSUME NEW s \in Snapshots, NEW P \in SUBSET TaskIds, NEW a \in 0..MaxAliases,
             CreateTask(s, P, a)
      PROVE  Recorded'
  <2>1. message' = message
    BY <1>6 DEF CreateTask
  <2> QED  BY <1>2, <2>1
<1> QED
  BY <1>3, <1>4, <1>5, <1>6, Zenon DEF StoreWrite

\* A request that is begun had no message: a new ID is neither begun nor retired.
LEMMA BeginKeepsEvidence ==
  ASSUME TypeOK, NoOrphanRows, Recorded,
         NEW q \in Requests, NEW i \in Inputs, Begin(q, i)
  PROVE  Recorded'
<1> DEFINE query == NewMessage(nextMessage, i.task, "user", q, NoCall)
<1>1. /\ q \notin Begun \cup Retired /\ Begun' = Begun \cup {q} /\ Retired' = Retired
      /\ message' = message \cup {query} /\ tool' = tool
      /\ turn'[q].status = "pending" /\ turn'[q].input = i
      /\ \A r \in Begun : turn'[r] = turn[r]
  BY DEF Begin, Put, Begun, Retired
<1>2. query.request = q /\ query.role = "user" /\ query.call = NoCall /\ query.task = i.task
  BY DEF NewMessage
<1> HIDE DEF query
<1>3. \A m \in message : m.request # q
  BY <1>1 DEF Recorded, SpokenOnce
<1>4. \A x \in DOMAIN tool : x[1] # q
  BY <1>1 DEF NoOrphanRows
<1>5. /\ \A role : \A r \in Requests \ {q} : Lines(r, role)' = Lines(r, role)
      /\ Lines(q, "user")' = {query} /\ Lines(q, "assistant")' = {}
  BY <1>1, <1>2, <1>3 DEF Lines
<1>6. SpokenOnce'
  BY <1>1, <1>2, <1>5 DEF Recorded, SpokenOnce, AtMostOne
<1>7. OwnLines'
  BY <1>1, <1>2, <1>3 DEF Recorded, OwnLines
<1>8. ResultsRecorded'
  BY <1>1, <1>2, <1>4 DEF Recorded, ResultsRecorded
<1> QED  BY <1>6, <1>7, <1>8 DEF Recorded

LEMMA CommitKeepsEvidence ==
  ASSUME TypeOK, NoOrphanRows, Recorded,
         NEW q \in Requests, NEW g \in Generations, NEW y \in Replies, Commit(q, g, y)
  PROVE  Recorded'
<1> DEFINE t == turn[q].input.task
           answer == NewMessage(nextMessage, t, "assistant", q, NoCall)
<1>1. /\ q \in Begun /\ turn[q].status = "pending" /\ Begun' = Begun /\ Retired' = Retired
      /\ message' = message \cup {answer} /\ tool' = tool
  BY DEF Commit, Pending, Begun, Retired
<1>2. /\ turn'[q].status = "committed"
      /\ \A r \in Begun : turn'[r].input = turn[r].input
      /\ \A r \in Begun \ {q} : turn'[r] = turn[r]
  <2>1. IsTurn(turn[q])
    BY <1>1 DEF TypeOK, JournalTypeOK
  <2> QED  BY <1>1, <2>1 DEF Commit, Begun, IsTurn, TurnRow
<1>3. answer.request = q /\ answer.role = "assistant" /\ answer.call = NoCall /\ answer.task = t
  BY DEF NewMessage
<1> HIDE DEF answer
<1>4. Lines(q, "assistant") = {} /\ AtMostOne(Lines(q, "user")) /\ Lines(q, "user") # {}
  BY <1>1 DEF Recorded, SpokenOnce
<1>5. /\ \A role : \A r \in Requests \ {q} : Lines(r, role)' = Lines(r, role)
      /\ Lines(q, "user")' = Lines(q, "user") /\ Lines(q, "assistant")' = {answer}
  BY <1>1, <1>3, <1>4 DEF Lines
<1>6. SpokenOnce'
  BY <1>1, <1>2, <1>3, <1>4, <1>5 DEF Recorded, SpokenOnce, AtMostOne
<1>7. OwnLines'
  BY <1>1, <1>2, <1>3 DEF Recorded, OwnLines
<1>8. ResultsRecorded'
  <2>1. \A x \in DOMAIN tool : x[2] # NoCall
    BY StoreAssumption DEF TypeOK, JournalTypeOK, IsTable
  <2> QED  BY <1>1, <1>3, <2>1 DEF Recorded, ResultsRecorded
<1> QED  BY <1>6, <1>7, <1>8 DEF Recorded

\* The result of a call is the first message with its name.
LEMMA ResultKeepsEvidence ==
  ASSUME TypeOK, NoOrphanRows, Recorded,
         NEW q \in Requests, NEW g \in Generations, NEW c \in Calls, NEW y \in Results,
         RecordResult(q, g, c, y)
  PROVE  Recorded'
<1> DEFINE t == turn[q].input.task
           line == NewMessage(nextMessage, t, "tool", q, c)
           k == <<q, c>>
<1>1. /\ q \in Begun /\ Begun' = Begun /\ Retired' = Retired /\ turn' = turn
      /\ message' = message \cup {line}
      /\ k \in DOMAIN tool /\ tool[k].status = "started" /\ DOMAIN tool' = DOMAIN tool
      /\ tool'[k].status = "completed" /\ tool'[k].evidence = nextMessage
      /\ \A x \in DOMAIN tool \ {k} : tool'[x] = tool[x]
  <2>1. tool[k] \in ToolRow
    BY DEF RecordResult, TypeOK, JournalTypeOK
  <2>2. tool' = [tool EXCEPT ![k] = [@ EXCEPT !.status = "completed", !.result = y,
                                              !.evidence = nextMessage]]
        /\ k \in DOMAIN tool
    BY DEF RecordResult
  <2>3. DOMAIN tool' = DOMAIN tool /\ \A x \in DOMAIN tool \ {k} : tool'[x] = tool[x]
    BY <2>2
  <2>4. tool'[k].status = "completed" /\ tool'[k].evidence = nextMessage
    BY <2>1, <2>2 DEF ToolRow
  <2> QED  BY <2>2, <2>3, <2>4 DEF RecordResult, Pending, Begun, Retired
<1>2. /\ line.request = q /\ line.role = "tool" /\ line.call = c /\ line.task = t
      /\ line.id = nextMessage
  BY DEF NewMessage
<1>3. k[1] = q /\ k[2] = c /\ \A x \in DOMAIN tool : x[1] = q /\ x[2] = c => x = k
  BY DEF TypeOK, JournalTypeOK, IsTable
<1> HIDE DEF line, k
<1>4. \A r \in Requests : /\ Lines(r, "user")' = Lines(r, "user")
                          /\ Lines(r, "assistant")' = Lines(r, "assistant")
  BY <1>1, <1>2 DEF Lines
<1>5. SpokenOnce'
  BY <1>1, <1>2, <1>4 DEF Recorded, SpokenOnce, AtMostOne
<1>6. OwnLines'
  BY <1>1, <1>2 DEF Recorded, OwnLines, k
<1>7. \A m \in message : ~(m.request = q /\ m.call = c)
  BY <1>1, <1>3 DEF Recorded, ResultsRecorded
<1>8. ResultsRecorded'
  BY <1>1, <1>2, <1>3, <1>7 DEF Recorded, ResultsRecorded
<1> QED  BY <1>5, <1>6, <1>8 DEF Recorded

\* A call that is journaled has no message yet: every message with a call has an intent.
LEMMA StartKeepsEvidence ==
  ASSUME TypeOK, NoOrphanRows, Recorded,
         NEW q \in Requests, NEW g \in Generations, NEW c \in Calls, NEW a \in Args,
         StartTool(q, g, c, a)
  PROVE  Recorded'
<1> DEFINE k == <<q, c>>
<1>1. /\ q \in Begun /\ Begun' = Begun /\ Retired' = Retired /\ turn' = turn
      /\ message' = message
      /\ k \notin DOMAIN tool /\ DOMAIN tool' = DOMAIN tool \cup {k}
      /\ tool'[k].status = "started" /\ \A x \in DOMAIN tool : tool'[x] = tool[x]
  BY DEF StartTool, Put, Pending, Begun, Retired, storeVars
<1>2. SpokenOnce'
  BY <1>1 DEF Recorded, SpokenOnce, Lines
<1>3. OwnLines'
  BY <1>1 DEF Recorded, OwnLines
<1>4. \A m \in message : ~(m.request = q /\ m.call = c)
  BY <1>1, StoreAssumption DEF Recorded, OwnLines
<1>5. ResultsRecorded'
  BY <1>1, <1>4 DEF Recorded, ResultsRecorded
<1> QED  BY <1>2, <1>3, <1>5 DEF Recorded

LEMMA RetirementKeepsEvidence ==
  ASSUME TypeOK, NoOrphanRows, Recorded, NEW o \in Operators, ApplyRetention(o)
  PROVE  Recorded'
<1> DEFINE ids == Eligible(plan[o].cutoff)
<1>1. /\ Begun' = Begun \ ids /\ message' = message
      /\ DOMAIN tool' = {x \in DOMAIN tool : x[1] \notin ids}
      /\ \A x \in DOMAIN tool' : tool'[x] = tool[x]
      /\ \A r \in Begun' : turn'[r] = turn[r]
  BY DEF ApplyRetention, Without, Begun, storeVars
<1>2. Begun \cup Retired \subseteq Begun' \cup Retired'
  <2>1. \A r \in ids : r \in Retired'
    <3>1. ASSUME NEW r \in ids, r \notin Retired
          PROVE  \E d \in tombstone' : d.request = r
      <4> DEFINE d == [request |-> r, input |-> turn[r].input, status |-> turn[r].status]
      <4>1. d \in tombstone' /\ d.request = r
        BY <3>1 DEF ApplyRetention
      <4> QED  BY <4>1
    <3>2. tombstone \subseteq tombstone'
      BY DEF ApplyRetention
    <3> QED  BY <3>1, <3>2 DEF Retired
  <2>2. Retired \subseteq Retired'
    BY DEF ApplyRetention, Retired
  <2> QED  BY <1>1, <2>1, <2>2
<1> HIDE DEF ids
<1>3. SpokenOnce'
  BY <1>1, <1>2 DEF Recorded, SpokenOnce, Lines
<1>4. OwnLines'
  <2>1. \A c : \A m \in message : <<m.request, c>>[1] = m.request
    OBVIOUS
  <2> QED  BY <1>1, <2>1 DEF Recorded, OwnLines
<1>5. ResultsRecorded'
  BY <1>1 DEF Recorded, ResultsRecorded
<1> QED  BY <1>3, <1>4, <1>5 DEF Recorded

LEMMA RecordedStep ==
  ASSUME TypeOK, NoOrphanRows, Recorded, [Next]_vars
  PROVE  Recorded'
<1>1. ASSUME NEW q \in Requests, NEW g \in Generations,
             \/ Recover(q, g) \/ Abort(q, g)
             \/ \E c \in Calls :
                  \/ \E l \in Ttls : ActionEligible(q, g, c, l)
                  \/ \E p \in Payloads : RecordModelRequest(q, g, c, p)
                  \/ \E x \in Responses : RecordModelResponse(q, g, c, x)
      PROVE  Recorded'
  <2>1. /\ message' = message /\ tool' = tool /\ tombstone' = tombstone
        /\ Begun' = Begun /\ Retired' = Retired
    BY <1>1 DEF Recover, Abort, ActionEligible, RecordModelRequest, RecordModelResponse,
                Begun, Retired, storeVars
  <2>2. ASSUME NEW r \in Begun
        PROVE  /\ turn'[r].input = turn[r].input
               /\ turn'[r].status = "committed" <=> turn[r].status = "committed"
    <3>1. IsTurn(turn[r])
      BY <2>2 DEF TypeOK, JournalTypeOK
    <3>2. CASE turn' = turn
      BY <3>2
    <3>3. CASE Recover(q, g)
      BY <3>1, <3>3 DEF Recover, Pending, Begun, IsTurn, TurnRow
    <3>4. CASE Abort(q, g)
      BY <3>1, <3>4 DEF Abort, Pending, Begun, IsTurn, TurnRow
    <3> QED
      BY <1>1, <3>2, <3>3, <3>4 DEF ActionEligible, RecordModelRequest, RecordModelResponse
  <2>3. SpokenOnce'
    BY <2>1, <2>2 DEF Recorded, SpokenOnce, Lines
  <2>4. OwnLines'
    BY <2>1, <2>2 DEF Recorded, OwnLines
  <2>5. ResultsRecorded'
    BY <2>1 DEF Recorded, ResultsRecorded
  <2> QED  BY <2>3, <2>4, <2>5 DEF Recorded
<1>2. CASE \/ \E o \in Operators, n \in Times : RetentionPlan(o, n)
           \/ Tick \/ UNCHANGED vars
  <2>1. UNCHANGED <<turn, tool, tombstone, message>>
    BY <1>2 DEF RetentionPlan, Tick, vars, storeVars, journalVars
  <2> QED  BY <2>1, StoreKeepsEvidence
<1>3. ASSUME NEW r \in Requests, NEW g \in Generations, NEW c \in Calls, NEW x \in Results,
             RecordResult(r, g, c, x)
      PROVE  Recorded'
  BY <1>3, ResultKeepsEvidence
<1>4. ASSUME NEW r \in Requests, NEW i \in Inputs, Begin(r, i)
      PROVE  Recorded'
  BY <1>4, BeginKeepsEvidence
<1>5. ASSUME NEW r \in Requests, NEW g \in Generations, NEW y \in Replies, Commit(r, g, y)
      PROVE  Recorded'
  BY <1>5, CommitKeepsEvidence
<1>6. ASSUME NEW r \in Requests, NEW g \in Generations, NEW c \in Calls, NEW a \in Args,
             StartTool(r, g, c, a)
      PROVE  Recorded'
  BY <1>6, StartKeepsEvidence
<1>7. ASSUME NEW o \in Operators, ApplyRetention(o)
      PROVE  Recorded'
  BY <1>7, RetirementKeepsEvidence
<1>8. CASE StoreWrite
  BY <1>8, StoreWriteKeepsEvidence
<1> QED
  BY <1>1, <1>2, <1>3, <1>4, <1>5, <1>6, <1>7, <1>8, Zenon
  DEF Next, FinishTool, FinishToolUnderLease

LEMMA RecordedInvariant == Spec => []Recorded
<1>1. Init => Recorded
  BY DEF Init, StoreInit, Recorded, SpokenOnce, OwnLines, ResultsRecorded, AtMostOne, Lines, Begun
<1> QED  BY <1>1, RecordedStep, RowsInvariant, Typed, PTL DEF Spec

\* However often a request is retried, recovered or retired, its query, its answer and
\* each tool result are in the store once.
THEOREM EvidenceOnce == Spec => []EvidenceRecordedOnce
BY RecordedInvariant, RecordedMeansOnce, Typed, PTL

-----------------------------------------------------------------------------
(* The history of a fact.                                                  *)

\* The updates of a reply that revise key k, and the how-manieth of them update i is.
Places(updates, k) == {i \in DOMAIN updates : updates[i].key = k}
Rank(updates, i) == Cardinality({j \in 1..i : updates[j].key = updates[i].key})

LEMMA RanksCount ==
  ASSUME NEW updates \in Seq(FactUpdate), NEW k
  PROVE  LET I == Places(updates, k)
         IN  /\ Cardinality(I) \in Nat
             /\ \A i \in I : Rank(updates, i) \in 1..Cardinality(I)
             /\ \A i, j \in I : Rank(updates, i) = Rank(updates, j) => i = j
             /\ \A n \in 1..Cardinality(I) : \E i \in I : Rank(updates, i) = n
<1> DEFINE I == Places(updates, k)
           Upto(i) == {j \in 1..i : updates[j].key = updates[i].key}
           N == Cardinality(I)
<1>1. DOMAIN updates = 1..Len(updates) /\ Len(updates) \in Nat
  OBVIOUS
<1>2. I \in SUBSET (1..Len(updates))
  BY <1>1 DEF Places
<1>3. IsFiniteSet(I) /\ N \in Nat
  <2> HIDE DEF I
  <2> QED  BY <1>1, <1>2, NumbersAreFinite
<1>4. \A i \in I : Upto(i) \in SUBSET I /\ i \in Upto(i) /\ i \in Nat
  BY <1>1 DEF Places
<1>5. \A i, j \in I : i < j => Upto(i) \in SUBSET Upto(j) /\ j \in Upto(j) /\ j \notin Upto(i)
  BY <1>1 DEF Places
<1>6. \A i : Rank(updates, i) = Cardinality(Upto(i))
  BY DEF Rank
<1> HIDE DEF I, Upto, N
<1>7. \A i \in I : IsFiniteSet(Upto(i)) /\ Cardinality(Upto(i)) \in 1..N
  <2> TAKE i \in I
  <2>1. IsFiniteSet(Upto(i)) /\ Cardinality(Upto(i)) <= N
    BY <1>3, <1>4, FS_Subset DEF N
  <2>2. Cardinality(Upto(i)) \in Nat /\ Cardinality(Upto(i)) # 0
    BY <1>4, <2>1, FS_CardinalityType, FS_EmptySet
  <2> QED  BY <1>3, <2>1, <2>2
<1>8. \A i, j \in I : i < j => Cardinality(Upto(i)) # Cardinality(Upto(j))
  BY <1>5, <1>7, FS_Subset
<1>9. \A i, j \in I : Cardinality(Upto(i)) = Cardinality(Upto(j)) => i = j
  BY <1>4, <1>8
<1>10. \A n \in 1..N : \E i \in I : Cardinality(Upto(i)) = n
  <2> DEFINE f == [i \in I |-> Cardinality(Upto(i))]
             R == 1..N
  <2>1. f \in Injection(I, R)
    BY <1>7, <1>9 DEF Injection, IsInjective
  <2>2. IsFiniteSet(R) /\ Cardinality(R) = N
    <3>1. 1 \in Int /\ N \in Int
      BY <1>3
    <3>2. IsFiniteSet(1..N) /\ Cardinality(1..N) = IF 1 > N THEN 0 ELSE N - 1 + 1
      BY <3>1, FS_Interval, Zenon
    <3> QED  BY <1>3, <3>2
  <2>3. f \in Surjection(I, R)
    <3> HIDE DEF f, R
    <3> QED  BY <2>1, <2>2, FS_Injection DEF N
  <2>4. \A n \in R : \E i \in I : f[i] = n
    BY <2>3 DEF Surjection
  <2> QED  BY <2>4
<1> QED  BY <1>3, <1>6, <1>7, <1>9, <1>10 DEF I, N

\* Every fact cites a message of its task, the revisions of a key have no gap, and no
\* revision is there twice.
Histories ==
  /\ \A f \in fact : \E m \in message : m.id = f.evidence /\ m.task = f.task
  /\ \A t \in TaskIds, k \in Keys : \E n \in Nat : FactRevisions(t, k) = 1..n
  /\ \A f, g \in fact : f.task = g.task /\ f.key = g.key /\ f.revision = g.revision => f = g

LEMMA HistoriesAreFacts ==
  ASSUME TypeOK, Histories
  PROVE  FactsAreHistories
<1> SUFFICES ASSUME NEW f \in fact
             PROVE  LET H == {h \in FactsOf(f.task) : h.key = f.key}
                    IN  {g.revision : g \in H} = 1..Cardinality(H)
  BY DEF FactsAreHistories, Histories
<1> DEFINE H == {h \in FactsOf(f.task) : h.key = f.key}
<1>1. f.task \in TaskIds /\ f.key \in Keys
  BY DEF TypeOK, StoreTypeOK, Fact
<1>2. PICK n \in Nat : FactRevisions(f.task, f.key) = 1..n
  BY <1>1 DEF Histories
<1>3. {g.revision : g \in H} = 1..n
  BY <1>2 DEF FactRevisions
<1>4. \A g, h \in H : g.revision = h.revision => g = h
  BY DEF Histories, FactsOf
<1>5. H \in SUBSET fact /\ IsFiniteSet(fact)
  BY DEF FactsOf, TypeOK, StoreTypeOK
<1> HIDE DEF H
<1>6. IsFiniteSet(H)
  BY <1>5, FS_Subset, Zenon
<1>7. Cardinality(H) = n
  <2> DEFINE R == 1..n
             rev == [g \in H |-> g.revision]
  <2>1. rev \in Bijection(H, R)
    BY <1>3, <1>4 DEF Bijection, Injection, IsInjective, Surjection
  <2>2. Cardinality(R) = n
    <3>1. 1 \in Int /\ n \in Int
      OBVIOUS
    <3>2. Cardinality(1..n) = IF 1 > n THEN 0 ELSE n - 1 + 1
      BY <3>1, FS_Interval, Zenon
    <3> QED  BY <3>2
  <2> HIDE DEF R, rev
  <2>3. Cardinality(R) = Cardinality(H)
    BY <1>6, <2>1, FS_Bijection DEF ExistsBijection
  <2> QED  BY <2>2, <2>3
<1> QED  BY <1>3, <1>7 DEF H

\* Updates recorded in order, each after the last revision of its key.
LEMMA UpdatesKeepHistories ==
  ASSUME TypeOK, Histories, NEW t \in TaskIds, NEW updates \in Seq(FactUpdate),
         fact' = fact \cup NewFacts(t, updates), message \subseteq message',
         CitesOwnEvidence(t, updates, message')
  PROVE  Histories'
<1> DEFINE Last(k) == LastRevision(t, k)
           Row(i) == [task |-> t, key |-> updates[i].key,
                      revision |-> Last(updates[i].key) + Rank(updates, i),
                      evidence |-> updates[i].evidence, retracted |-> updates[i].retracted]
<1>1. fact' = fact \cup {Row(i) : i \in DOMAIN updates}
  BY DEF NewFacts, Rank
<1>2. \A i : /\ Row(i).task = t /\ Row(i).key = updates[i].key
             /\ Row(i).evidence = updates[i].evidence
             /\ Row(i).revision = Last(updates[i].key) + Rank(updates, i)
  OBVIOUS
<1>3. \A k : /\ Last(k) \in Nat
             /\ \A n \in FactRevisions(t, k) : n <= Last(k)
             /\ Last(k) \in {0} \cup FactRevisions(t, k)
  BY LastRevisionIsMaximum, StoreAssumption DEF TypeOK
<1> HIDE DEF Row, Last
<1>4. \A f \in fact' : \E m \in message' : m.id = f.evidence /\ m.task = f.task
  BY <1>1, <1>2 DEF Histories, CitesOwnEvidence
<1>5. ASSUME NEW k \in Keys
      PROVE  FactRevisions(t, k)' = 1..(Last(k) + Cardinality(Places(updates, k)))
  <2> DEFINE I == Places(updates, k)
             N == Cardinality(I)
  <2>1. /\ N \in Nat /\ \A i \in I : Rank(updates, i) \in 1..N
        /\ \A n \in 1..N : \E i \in I : Rank(updates, i) = n
    BY RanksCount
  <2>2. FactRevisions(t, k) = 1..Last(k)
    <3>1. PICK n \in Nat : FactRevisions(t, k) = 1..n
      BY DEF Histories
    <3>2. /\ Last(k) \in Nat /\ \A i \in 1..n : i <= Last(k)
          /\ Last(k) = 0 \/ Last(k) \in 1..n
      BY <1>3, <3>1
    <3>3. Last(k) = n
      <4>1. n = 0 \/ n \in 1..n
        OBVIOUS
      <4> QED  BY <3>2, <4>1
    <3> QED  BY <3>1, <3>3
  <2>3. FactRevisions(t, k)' = FactRevisions(t, k) \cup {Row(i).revision : i \in I}
    BY <1>1, <1>2 DEF FactRevisions, FactsOf, Places
  <2>4. \A i \in I : Row(i).revision = Last(k) + Rank(updates, i)
    BY <1>2 DEF Places
  <2> HIDE DEF I, N
  <2>5. {Row(i).revision : i \in I} = (Last(k) + 1)..(Last(k) + N)
    <3>1. \A i \in I : Row(i).revision \in (Last(k) + 1)..(Last(k) + N)
      BY <1>3, <2>1, <2>4
    <3>2. ASSUME NEW n \in (Last(k) + 1)..(Last(k) + N)
          PROVE  \E i \in I : Row(i).revision = n
      <4>1. n - Last(k) \in 1..N
        BY <1>3, <2>1
      <4>2. PICK i \in I : Rank(updates, i) = n - Last(k)
        BY <2>1, <4>1
      <4> QED  BY <1>3, <2>4, <4>1, <4>2
    <3> QED  BY <3>1, <3>2
  <2>6. FactRevisions(t, k)' = 1..(Last(k) + N)
    <3>1. \A a, b \in Nat : (1..a) \cup ((a + 1)..(a + b)) = 1..(a + b)
      OBVIOUS
    <3>2. Last(k) \in Nat
      BY <1>3
    <3> QED  BY <2>1, <2>2, <2>3, <2>5, <3>1, <3>2
  <2> QED  BY <2>6 DEF I, N
<1>6. ASSUME NEW u \in TaskIds, NEW k \in Keys
      PROVE  \E n \in Nat : FactRevisions(u, k)' = 1..n
  <2>1. CASE u = t
    <3>1. Last(k) + Cardinality(Places(updates, k)) \in Nat
      BY <1>3, RanksCount
    <3> QED  BY <1>5, <2>1, <3>1
  <2>2. CASE u # t
    <3>1. FactRevisions(u, k)' = FactRevisions(u, k)
      BY <1>1, <1>2, <2>2 DEF FactRevisions, FactsOf
    <3> QED  BY <3>1 DEF Histories
  <2> QED  BY <2>1, <2>2
<1>7. ASSUME NEW f \in fact', NEW g \in fact',
             f.task = g.task, f.key = g.key, f.revision = g.revision
      PROVE  f = g
  <2>1. ASSUME NEW h \in fact, NEW i \in DOMAIN updates, h.task = t, h.key = updates[i].key
        PROVE  h.revision # Row(i).revision
    <3>1. h.revision \in FactRevisions(t, h.key) /\ h.revision \in Nat
      BY <2>1 DEF FactRevisions, FactsOf, TypeOK, StoreTypeOK, Fact
    <3>2. i \in Places(updates, h.key)
      BY <2>1 DEF Places
    <3>3. Rank(updates, i) \in Nat \ {0}
      BY <3>2, RanksCount
    <3> QED  BY <1>2, <1>3, <2>1, <3>1, <3>3
  <2>2. ASSUME NEW i \in DOMAIN updates, NEW j \in DOMAIN updates,
               updates[i].key = updates[j].key, Row(i).revision = Row(j).revision
        PROVE  i = j
    <3> DEFINE k == updates[i].key
    <3>1. i \in Places(updates, k) /\ j \in Places(updates, k)
      BY <2>2 DEF Places
    <3>2. Rank(updates, i) \in Nat /\ Rank(updates, j) \in Nat
      BY <3>1, RanksCount
    <3>3. Rank(updates, i) = Rank(updates, j)
      BY <1>2, <1>3, <2>2, <3>2
    <3> QED  BY <3>1, <3>3, RanksCount
  <2>3. CASE f \in fact /\ g \in fact
    BY <1>7, <2>3 DEF Histories
  <2>4. CASE f \in fact /\ g \notin fact
    BY <1>1, <1>2, <1>7, <2>1, <2>4
  <2>5. CASE f \notin fact /\ g \in fact
    BY <1>1, <1>2, <1>7, <2>1, <2>5
  <2>6. CASE f \notin fact /\ g \notin fact
    BY <1>1, <1>2, <1>7, <2>2, <2>6
  <2> QED  BY <2>3, <2>4, <2>5, <2>6
<1> QED  BY <1>4, <1>6, <1>7 DEF Histories

LEMMA HistoriesStep ==
  ASSUME TypeOK, NoOrphanRows, Histories, [Next]_vars
  PROVE  Histories'
<1>1. fact' = fact /\ message \subseteq message' => Histories'
  BY DEF Histories, FactRevisions, FactsOf
<1>2. ASSUME NEW t \in TaskIds, NEW f \in FactUpdates, SetFact(t, f)
      PROVE  Histories'
  <2>1. <<f>> \in Seq(FactUpdate)
    BY StoreAssumption DEF FactUpdate, MessageIds
  <2> QED  BY <1>2, <2>1, UpdatesKeepHistories DEF SetFact
<1>3. ASSUME NEW r \in Requests, NEW g \in Generations, NEW y \in Replies, Commit(r, g, y)
      PROVE  Histories'
  <2>1. y.facts \in Seq(FactUpdate) /\ turn[r].input.task \in TaskIds
    BY <1>3, JournalAssumption DEF Commit, Pending, NoOrphanRows, TaskExists
  <2>2. /\ fact' = fact \cup NewFacts(turn[r].input.task, y.facts) /\ message \subseteq message'
        /\ CitesOwnEvidence(turn[r].input.task, y.facts, message')
    BY <1>3 DEF Commit
  <2> QED  BY <2>1, <2>2, UpdatesKeepHistories
<1>4. ASSUME NEW t \in TaskIds, DeleteTask(t)
      PROVE  Histories'
  <2>1. message' = message \ MessagesOf(t) /\ fact' = fact \ FactsOf(t)
    BY <1>4 DEF DeleteTask
  <2>2. \A f \in fact' : \E m \in message' : m.id = f.evidence /\ m.task = f.task
    BY <2>1 DEF Histories, MessagesOf, FactsOf
  <2>3. ASSUME NEW u \in TaskIds, NEW k \in Keys
        PROVE  \E n \in Nat : FactRevisions(u, k)' = 1..n
    <3>1. CASE u = t
      <4>1. FactRevisions(u, k)' = {} /\ 1..0 = {}
        BY <2>1, <3>1 DEF FactRevisions, FactsOf
      <4> QED  BY <4>1
    <3>2. CASE u # t
      <4>1. FactRevisions(u, k)' = FactRevisions(u, k)
        BY <2>1, <3>2 DEF FactRevisions, FactsOf
      <4> QED  BY <4>1 DEF Histories
    <3> QED  BY <3>1, <3>2
  <2> QED  BY <2>1, <2>2, <2>3 DEF Histories
<1>5. ASSUME \/ \E s \in Snapshots, P \in SUBSET TaskIds, a \in 0..MaxAliases :
                  CreateTask(s, P, a)
             \/ \E b \in Batches : AppendBatch(b)
             \/ \E t \in TaskIds, s \in Snapshots, v \in 1..MaxRevision : SetSnapshot(t, s, v)
             \/ \E t \in TaskIds : Resume(t) \/ Archive(t)
      PROVE  Histories'
  <2>1. fact' = fact /\ message \subseteq message'
    BY <1>5 DEF CreateTask, AppendBatch, SetSnapshot, Resume, Archive
  <2> QED  BY <1>1, <2>1
<1>6. ASSUME NEW r \in Requests, NEW i \in Inputs, Begin(r, i)
      PROVE  Histories'
  <2>1. fact' = fact /\ message \subseteq message'
    BY <1>6 DEF Begin
  <2> QED  BY <1>1, <2>1
<1>7. ASSUME NEW r \in Requests, NEW g \in Generations,
             \/ Recover(r, g) \/ Abort(r, g)
             \/ \E c \in Calls :
                  \/ \E a \in Args : StartTool(r, g, c, a)
                  \/ \E l \in Ttls : ActionEligible(r, g, c, l)
                  \/ \E x \in Results : RecordResult(r, g, c, x)
                  \/ \E p \in Payloads : RecordModelRequest(r, g, c, p)
                  \/ \E x \in Responses : RecordModelResponse(r, g, c, x)
      PROVE  Histories'
  <2>1. fact' = fact /\ message \subseteq message'
    BY <1>7 DEF Recover, Abort, StartTool, ActionEligible, RecordResult, RecordModelRequest,
                RecordModelResponse, storeVars
  <2> QED  BY <1>1, <2>1
<1>8. CASE \/ \E o \in Operators, n \in Times : RetentionPlan(o, n)
           \/ \E o \in Operators : ApplyRetention(o)
           \/ Tick \/ UNCHANGED vars
  <2>1. fact' = fact /\ message' = message
    BY <1>8 DEF RetentionPlan, ApplyRetention, Tick, vars, storeVars
  <2> QED  BY <1>1, <2>1
<1> QED
  BY <1>2, <1>3, <1>4, <1>5, <1>6, <1>7, <1>8, Zenon
  DEF Next, StoreWrite, FinishTool, FinishToolUnderLease

\* A reply that revises a key twice, a task that is deleted and writers that interleave
\* leave the revisions of every fact without a gap or a duplicate.
THEOREM FactHistories == Spec => []FactsAreHistories
<1>1. Init => Histories
  <2> SUFFICES ASSUME Init
               PROVE  Histories
    OBVIOUS
  <2>1. fact = {}
    BY DEF Init, StoreInit
  <2>2. \A t, k : FactRevisions(t, k) = 1..0
    BY <2>1 DEF FactRevisions, FactsOf
  <2> QED  BY <2>1, <2>2 DEF Histories
<1> QED  BY <1>1, HistoriesStep, HistoriesAreFacts, RowsInvariant, Typed, PTL DEF Spec

=============================================================================
