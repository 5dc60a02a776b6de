--------------------------- MODULE FreshnessProofs ---------------------------
(***************************************************************************)
(* What the scope clocks tell. A clock that still reads what it read shows *)
(* that no row of its task was written, so a turn whose basis is valid has *)
(* the memory its package was packed from; and a basis that has fallen     *)
(* behind a clock never catches up with it.                                *)
(***************************************************************************)
EXTENDS RowsProofs

-----------------------------------------------------------------------------
(* The clocks.                                                             *)

Untouched(u) ==
  task'[u] = task[u] /\ MessagesOf(u)' = MessagesOf(u) /\ FactsOf(u)' = FactsOf(u)

\* Clocks only advance; the clock of a task, and clock zero, tell each write of its rows.
ClocksTell ==
  /\ \A c \in Clocks : epoch'[c] >= epoch[c]
  /\ \A u \in TaskIds :
       (epoch'[u] = epoch[u] \/ epoch'[0] = epoch[0]) => Untouched(u)

LEMMA NothingWritten ==
  ASSUME TypeOK, UNCHANGED <<epoch, task, message, fact>>
  PROVE  ClocksTell
BY DEF ClocksTell, Untouched, MessagesOf, FactsOf, TypeOK, StoreTypeOK

LEMMA OneTaskWritten ==
  ASSUME TypeOK, NEW t \in TaskIds, NEW n \in Nat, n > 0, epoch' = Ticked(t, n),
         \A u \in TaskIds \ {t} : Untouched(u)
  PROVE  ClocksTell
<1>1. epoch \in [Clocks -> Nat] /\ t \in Clocks /\ 0 \in Clocks /\ t # 0
  BY StoreAssumption DEF TypeOK, StoreTypeOK, Clocks, TaskIds
<1>2. epoch'[t] = epoch[t] + n /\ epoch'[0] = epoch[0] + n
  BY <1>1 DEF Ticked
<1>3. \A c \in Clocks \ {t, 0} : epoch'[c] = epoch[c]
  BY <1>1 DEF Ticked
<1>4. \A c \in Clocks : epoch[c] \in Nat
  BY <1>1
<1> QED  BY <1>1, <1>2, <1>3, <1>4 DEF ClocksTell

\* A message of one task leaves the others alone.
LEMMA OneMessageAdded ==
  ASSUME NEW t, NEW id, NEW role, NEW r, NEW c,
         message' = message \cup {NewMessage(id, t, role, r, c)}
  PROVE  \A u : u # t => MessagesOf(u)' = MessagesOf(u)
BY DEF MessagesOf, NewMessage

LEMMA FactsAdded ==
  ASSUME NEW t, NEW updates, fact' = fact \cup NewFacts(t, updates)
  PROVE  \A u : u # t => FactsOf(u)' = FactsOf(u)
<1>1. \A f \in NewFacts(t, updates) : f.task = t
  <2> DEFINE Row(i) ==
        [task |-> t, key |-> updates[i].key,
         revision |-> LastRevision(t, updates[i].key)
                        + Cardinality({j \in 1..i : updates[j].key = updates[i].key}),
         evidence |-> updates[i].evidence,
         retracted |-> updates[i].retracted]
  <2>1. NewFacts(t, updates) = {Row(i) : i \in DOMAIN updates}
    BY DEF NewFacts
  <2>2. \A i : Row(i).task = t
    OBVIOUS
  <2> HIDE DEF Row
  <2> QED  BY <2>1, <2>2
<1> QED  BY <1>1 DEF FactsOf

\* A batch writes messages of the tasks it names, and ticks a clock for each.
LEMMA BatchTells ==
  ASSUME TypeOK, NEW batch \in Batches, AppendBatch(batch)
  PROVE  ClocksTell
<1>1. PICK n \in 1..MaxBatch : batch \in [1..n -> [task: TaskIds, role: AppendRoles]]
  BY DEF Batches
<1> DEFINE Of(c) == {i \in DOMAIN batch : c = 0 \/ c = batch[i].task}
<1>2. n \in Nat /\ DOMAIN batch = 1..n /\ 1 \in 1..n
  BY <1>1, StoreAssumption
<1>3. epoch \in [Clocks -> Nat] /\ TaskIds \subseteq Clocks /\ 0 \in Clocks
  BY StoreAssumption DEF TypeOK, StoreTypeOK, Clocks, TaskIds
<1>4. \A c \in Clocks : epoch'[c] = epoch[c] + Cardinality(Of(c))
  BY DEF AppendBatch
<1>5. \A c \in Clocks : Of(c) \in SUBSET (1..n)
  BY <1>2
<1>6. 1 \in Of(0) /\ \A u : \A i \in DOMAIN batch : batch[i].task = u => i \in Of(u)
  BY <1>2
<1> HIDE DEF Of
<1>7. ASSUME NEW c \in Clocks
      PROVE  Cardinality(Of(c)) \in Nat /\ (Cardinality(Of(c)) = 0 <=> Of(c) = {})
  <2>1. IsFiniteSet(Of(c)) /\ Cardinality(Of(c)) \in Nat
    BY <1>2, <1>5, <1>7, NumbersAreFinite, Zenon
  <2> QED  BY <2>1, FS_EmptySet
<1>8. \A c \in Clocks : epoch'[c] >= epoch[c] /\ (epoch'[c] = epoch[c] => Of(c) = {})
  BY <1>3, <1>4, <1>7
<1>9. ASSUME NEW u \in TaskIds, epoch'[u] = epoch[u]
      PROVE  Untouched(u)
  <2>1. \A i \in DOMAIN batch : batch[i].task # u
    BY <1>3, <1>6, <1>8, <1>9
  <2>2. MessagesOf(u)' = MessagesOf(u)
    BY <2>1 DEF AppendBatch, MessagesOf, NewMessage
  <2> QED  BY <2>2 DEF AppendBatch, Untouched, FactsOf
<1>10. epoch'[0] # epoch[0]
  BY <1>3, <1>6, <1>8
<1> QED  BY <1>8, <1>9, <1>10 DEF ClocksTell

LEMMA StoreWriteTells ==
  ASSUME TypeOK, StoreWrite
  PROVE  ClocksTell
<1>1. StoreTypeOK /\ task \in [TaskIds -> TaskRow]
  BY DEF TypeOK, StoreTypeOK
<1>2. ASSUME NEW s \in Snapshots, NEW P \in SUBSET TaskIds, NEW a \in 0..MaxAliases,
             CreateTask(s, P, a)
      PROVE  ClocksTell
  <2>1. nextTask \in TaskIds
    BY <1>1, <1>2, StoreAssumption DEF CreateTask, StoreTypeOK, TaskIds
  <2>2. 1 + Cardinality(P) + a \in Nat /\ 1 + Cardinality(P) + a > 0
    <3>1. Cardinality(P) \in Nat
      BY NumbersAreFinite, StoreAssumption DEF TaskIds
    <3> QED  BY <3>1, StoreAssumption
  <2>3. \A u \in TaskIds \ {nextTask} : Untouched(u)
    BY <1>1, <1>2 DEF CreateTask, Untouched, MessagesOf, FactsOf
  <2> DEFINE n == 1 + Cardinality(P) + a
  <2>4. epoch' = Ticked(nextTask, n)
    BY <1>2 DEF CreateTask
  <2> HIDE DEF n
  <2>5. n \in Nat /\ n > 0
    BY <2>2 DEF n
  <2> QED  BY <2>1, <2>3, <2>4, <2>5, OneTaskWritten
<1>3. ASSUME NEW t \in TaskIds, NEW f \in FactUpdates, SetFact(t, f)
      PROVE  ClocksTell
  <2>1. \A u \in TaskIds \ {t} : Untouched(u)
    BY <1>3, FactsAdded DEF SetFact, Untouched, MessagesOf
  <2> QED  BY <1>3, <2>1, OneTaskWritten DEF SetFact
<1>4. ASSUME NEW t \in TaskIds,
             (\E s \in Snapshots, v \in 1..MaxRevision : SetSnapshot(t, s, v)) \/ Archive(t)
      PROVE  ClocksTell
  <2>1. \A u \in TaskIds \ {t} : Untouched(u)
    BY <1>1, <1>4 DEF SetSnapshot, Archive, Untouched, MessagesOf, FactsOf
  <2>2. epoch' = Ticked(t, 1)
    BY <1>4 DEF SetSnapshot, Archive
  <2> QED  BY <2>1, <2>2, OneTaskWritten
<1>5. ASSUME NEW t \in TaskIds, Resume(t)
      PROVE  ClocksTell
  <2>1. CASE task[t].status = "archived"
    <3>1. \A u \in TaskIds \ {t} : Untouched(u)
      BY <1>1, <1>5, <2>1 DEF Resume, Untouched, MessagesOf, FactsOf
    <3> QED  BY <1>5, <2>1, <3>1, OneTaskWritten DEF Resume
  <2>2. CASE task[t].status # "archived"
    BY <1>5, <2>2, NothingWritten DEF Resume
  <2> QED  BY <2>1, <2>2
<1>6. ASSUME NEW t \in TaskIds, DeleteTask(t)
      PROVE  ClocksTell
  <2> DEFINE n == 1 + Cardinality(task[t].parents) + task[t].aliases
                    + Cardinality(MessagesOf(t)) + Cardinality(FactsOf(t))
  <2>1. n \in Nat /\ n > 0
    <3>1. task[t].aliases \in Nat /\ task[t].parents \in SUBSET (1..MaxTasks)
      BY <1>1 DEF TaskRow, TaskIds
    <3>2. Cardinality(task[t].parents) \in Nat
      BY <3>1, NumbersAreFinite, StoreAssumption
    <3> QED  BY <1>1, <3>1, <3>2, RowsOfTaskAreFinite
  <2>2. \A u \in TaskIds \ {t} : Untouched(u)
    BY <1>1, <1>6 DEF DeleteTask, Untouched, MessagesOf, FactsOf
  <2>3. epoch' = Ticked(t, n)
    BY <1>6 DEF DeleteTask
  <2> HIDE DEF n
  <2> QED  BY <2>1, <2>2, <2>3, OneTaskWritten
<1> QED
  BY <1>2, <1>3, <1>4, <1>5, <1>6, BatchTells, Zenon DEF StoreWrite

LEMMA StepTells ==
  ASSUME TypeOK, NoOrphanRows, [Next]_vars
  PROVE  ClocksTell
<1>1. StoreTypeOK /\ task \in [TaskIds -> TaskRow]
  BY DEF TypeOK, StoreTypeOK
<1>2. ASSUME NEW r \in Requests, NEW i \in Inputs, Begin(r, i)
      PROVE  ClocksTell
  <2> DEFINE t == i.task
             n == (IF Opened(task[t]) = task[t] THEN 0 ELSE 1) + 1
  <2>1. t \in TaskIds /\ n \in Nat /\ n > 0
    BY InputIsTyped
  <2>2. \A u \in TaskIds \ {t} : Untouched(u)
    BY <1>1, <1>2, OneMessageAdded DEF Begin, Untouched, FactsOf
  <2>3. epoch' = Ticked(t, n)
    BY <1>2 DEF Begin
  <2> HIDE DEF n, t
  <2> QED  BY <2>1, <2>2, <2>3, OneTaskWritten
<1>3. ASSUME NEW r \in Requests, NEW g \in Generations, NEW y \in Replies, Commit(r, g, y)
      PROVE  ClocksTell
  <2> DEFINE t == turn[r].input.task
             n == 1 + Len(y.facts) + 1
  <2>1. t \in TaskIds
    BY <1>3 DEF Commit, Pending, NoOrphanRows, TaskExists
  <2>2. n \in Nat /\ n > 0
    <3>1. y.facts \in Seq(FactUpdate)
      BY JournalAssumption
    <3> QED  BY <3>1
  <2>3. \A u \in TaskIds \ {t} : Untouched(u)
    <3>1. \A u \in TaskIds \ {t} : task'[u] = task[u]
      BY <1>1, <1>3 DEF Commit
    <3> QED  BY <1>3, <3>1, OneMessageAdded, FactsAdded DEF Commit, Untouched
  <2>4. epoch' = Ticked(t, n)
    BY <1>3 DEF Commit
  <2> HIDE DEF n, t
  <2> QED  BY <2>1, <2>2, <2>3, <2>4, OneTaskWritten
<1>4. ASSUME NEW r \in Requests, NEW g \in Generations, NEW c \in Calls, NEW x \in Results,
             RecordResult(r, g, c, x)
      PROVE  ClocksTell
  <2> DEFINE t == turn[r].input.task
  <2>1. t \in TaskIds
    BY <1>4 DEF RecordResult, Pending, NoOrphanRows, TaskExists
  <2>2. \A u \in TaskIds \ {t} : Untouched(u)
    BY <1>4, OneMessageAdded DEF RecordResult, Untouched, FactsOf
  <2>3. epoch' = Ticked(t, 1)
    BY <1>4 DEF RecordResult
  <2> HIDE DEF t
  <2> QED  BY <2>1, <2>2, <2>3, OneTaskWritten
<1>5. ASSUME NEW r \in Requests, NEW g \in Generations,
             \/ Recover(r, g) \/ Abort(r, g)
             \/ \E c \in Calls :
                  \/ \E a \in Args : StartTool(r, g, c, a)
                  \/ \E l \in Ttls : ActionEligible(r, g, c, l)
                  \/ \E p \in Payloads : RecordModelRequest(r, g, c, p)
                  \/ \E x \in Responses : RecordModelResponse(r, g, c, x)
      PROVE  ClocksTell
  <2>1. UNCHANGED storeVars
    BY <1>5 DEF Recover, Abort, StartTool, ActionEligible, RecordModelRequest,
                RecordModelResponse
  <2> QED  BY <2>1, NothingWritten DEF storeVars
<1>6. CASE \/ \E o \in Operators, n \in Times : RetentionPlan(o, n)
           \/ \E o \in Operators : ApplyRetention(o)
           \/ Tick \/ UNCHANGED vars
  <2>1. UNCHANGED storeVars
    BY <1>6 DEF RetentionPlan, ApplyRetention, Tick, vars
  <2> QED  BY <2>1, NothingWritten DEF storeVars
<1> QED
  BY <1>2, <1>3, <1>4, <1>5, <1>6, StoreWriteTells, Zenon
  DEF Next, FinishTool, FinishToolUnderLease
-----------------------------------------------------------------------------
(* A basis against the clocks.                                             *)

BasisClocksOf(r) == {c \in Clocks : <<r, c>> \in DOMAIN basis}

\* How far the basis of a turn is behind a clock.
Lag(r, c) == epoch[c] - basis[<<r, c>>]

\* No basis is ahead of a clock, and a turn with a basis has it for the tasks it was
\* packed from.
BasisBehind == \A r \in Begun : \A c \in BasisClocksOf(r) : Lag(r, c) >= 0

BasisCovers ==
  \A r \in Begun : turn[r].input.consistency = "scope" =>
    BasisClocksOf(r) = IF turn[r].input.scope = "all" THEN {0}
                       ELSE DOMAIN turn[r].package.tasks

\* The rows of a basis stay while its turn does; the only step that moves one is a
\* result of the turn itself, which moves the clock as much.
LEMMA BasisStep ==
  ASSUME TypeOK, NoOrphanRows, [Next]_vars, NEW r \in Begun \cap Begun'
  PROVE  /\ BasisClocksOf(r)' = BasisClocksOf(r)
         /\ \/ \A c \in BasisClocksOf(r) : basis'[<<r, c>>] = basis[<<r, c>>]
            \/ \E g \in Generations, c \in Calls, x \in Results : RecordResult(r, g, c, x)
<1> DEFINE Goal == /\ BasisClocksOf(r)' = BasisClocksOf(r)
                   /\ \/ \A c \in BasisClocksOf(r) : basis'[<<r, c>>] = basis[<<r, c>>]
                      \/ \E g \in Generations, c \in Calls, x \in Results :
                           RecordResult(r, g, c, x)
<1>1. basis' = basis => Goal
  BY DEF BasisClocksOf
<1>2. ASSUME NEW q \in Requests, NEW i \in Inputs, Begin(q, i)
      PROVE  Goal
  <2>1. q # r
    BY <1>2 DEF Begin
  <2>2. /\ DOMAIN basis' = DOMAIN basis \cup ({q} \X BasisClocks(i))
        /\ \A x \in DOMAIN basis : x[1] # q => basis'[x] = basis[x]
    BY <1>2 DEF Begin
  <2>3. \A c : <<r, c>>[1] = r
    OBVIOUS
  <2>4. \A c \in Clocks : /\ <<r, c>> \in DOMAIN basis' <=> <<r, c>> \in DOMAIN basis
                          /\ <<r, c>> \in DOMAIN basis => basis'[<<r, c>>] = basis[<<r, c>>]
    BY <2>1, <2>2, <2>3
  <2> QED  BY <2>4 DEF BasisClocksOf
<1>3. ASSUME NEW q \in Requests, NEW g \in Generations, NEW c \in Calls, NEW x \in Results,
             RecordResult(q, g, c, x)
      PROVE  Goal
  <2>1. /\ DOMAIN basis' = DOMAIN basis
        /\ \A y \in DOMAIN basis : y[1] # q => basis'[y] = basis[y]
    BY <1>3 DEF RecordResult, AdvancedBasis
  <2>2. BasisClocksOf(r)' = BasisClocksOf(r)
    BY <2>1 DEF BasisClocksOf
  <2>3. CASE q = r
    BY <1>3, <2>2, <2>3
  <2>4. CASE q # r
    BY <2>1, <2>2, <2>4 DEF BasisClocksOf
  <2> QED  BY <2>3, <2>4
<1>4. ASSUME NEW o \in Operators, ApplyRetention(o)
      PROVE  Goal
  <2> DEFINE ids == Eligible(plan[o].cutoff)
  <2>1. Begun' = Begun \ ids /\ basis' = Without(basis, ids)
    BY <1>4 DEF ApplyRetention, Begun
  <2>2. r \notin ids
    BY <2>1
  <2> HIDE DEF ids
  <2>3. \A c \in Clocks : /\ <<r, c>> \in DOMAIN basis' <=> <<r, c>> \in DOMAIN basis
                          /\ <<r, c>> \in DOMAIN basis => basis'[<<r, c>>] = basis[<<r, c>>]
    BY <2>1, <2>2 DEF Without
  <2> QED  BY <2>3 DEF BasisClocksOf
<1>5. CASE \/ StoreWrite \/ Tick \/ UNCHANGED vars
           \/ \E o \in Operators, n \in Times : RetentionPlan(o, n)
  <2>1. basis' = basis
    BY <1>5 DEF StoreWrite, Tick, RetentionPlan, vars, journalVars
  <2> QED  BY <1>1, <2>1
<1>6. ASSUME NEW q \in Requests, NEW g \in Generations,
             \/ Recover(q, g) \/ Abort(q, g) \/ \E y \in Replies : Commit(q, g, y)
             \/ \E c \in Calls :
                  \/ \E a \in Args : StartTool(q, g, c, a)
                  \/ \E l \in Ttls : ActionEligible(q, g, c, l)
                  \/ \E p \in Payloads : RecordModelRequest(q, g, c, p)
                  \/ \E x \in Responses : RecordModelResponse(q, g, c, x)
      PROVE  Goal
  <2>1. basis' = basis
    BY <1>6 DEF Recover, Abort, Commit, StartTool, ActionEligible, RecordModelRequest,
                RecordModelResponse
  <2> QED  BY <1>1, <2>1
<1> QED
  BY <1>2, <1>3, <1>4, <1>5, <1>6, Zenon DEF Next, FinishTool, FinishToolUnderLease

\* The result of a tool moves the clocks of its turn and the turn's basis alike.
LEMMA ResultMovesBoth ==
  ASSUME TypeOK, NoOrphanRows, NEW r \in Requests, NEW g \in Generations, NEW c \in Calls,
         NEW x \in Results, RecordResult(r, g, c, x), NEW k \in BasisClocksOf(r)
  PROVE  Lag(r, k)' = Lag(r, k)
<1> DEFINE t == turn[r].input.task
           y == <<r, k>>
<1>1. t \in TaskIds /\ y \in DOMAIN basis /\ y[1] = r /\ y[2] = k /\ k \in Clocks
  BY DEF RecordResult, Pending, NoOrphanRows, TaskExists, BasisClocksOf
<1>2. epoch \in [Clocks -> Nat] /\ t \in Clocks /\ 0 \in Clocks /\ t # 0 /\ basis[y] \in Nat
  <2>1. t \in Clocks /\ 0 \in Clocks /\ t # 0
    BY <1>1, StoreAssumption DEF Clocks, TaskIds
  <2>2. epoch \in [Clocks -> Nat]
    BY DEF TypeOK, StoreTypeOK
  <2>3. basis[y] \in Nat
    BY <1>1 DEF TypeOK, JournalTypeOK
  <2> QED  BY <2>1, <2>2, <2>3
<1>3. epoch' = [epoch EXCEPT ![t] = @ + 1, ![0] = @ + 1]
  BY DEF RecordResult, Ticked
<1>4. basis'[y] = IF k \in {t, 0} THEN basis[y] + 1 ELSE basis[y]
  BY <1>1 DEF RecordResult, AdvancedBasis
<1>5. epoch'[k] = IF k \in {t, 0} THEN epoch[k] + 1 ELSE epoch[k]
  BY <1>1, <1>2, <1>3
<1>6. epoch[k] \in Nat
  BY <1>1, <1>2
<1> HIDE DEF y, t
<1>7. epoch'[k] - basis'[y] = epoch[k] - basis[y]
  BY <1>2, <1>4, <1>5, <1>6
<1> QED  BY <1>7 DEF Lag, y

\* A basis never catches up.
LEMMA LagStep ==
  ASSUME TypeOK, NoOrphanRows, [Next]_vars, NEW r \in Begun \cap Begun', NEW c \in BasisClocksOf(r)
  PROVE  Lag(r, c)' >= Lag(r, c)
<1>1. CASE \E g \in Generations, k \in Calls, x \in Results : RecordResult(r, g, k, x)
  <2>1. Lag(r, c)' = Lag(r, c)
    BY <1>1, ResultMovesBoth DEF TypeOK, JournalTypeOK, IsTable, Begun
  <2>2. Lag(r, c) \in Int
    BY DEF Lag, BasisClocksOf, TypeOK, StoreTypeOK, JournalTypeOK
  <2> QED  BY <2>1, <2>2
<1>2. CASE basis'[<<r, c>>] = basis[<<r, c>>]
  <2>1. epoch'[c] >= epoch[c]
    BY StepTells DEF ClocksTell, BasisClocksOf
  <2>2. epoch[c] \in Nat /\ epoch'[c] \in Nat /\ basis[<<r, c>>] \in Nat
    <3>1. epoch \in [Clocks -> Nat] /\ epoch' \in [Clocks -> Nat]
      BY NextIsTyped DEF TypeOK, StoreTypeOK
    <3> QED  BY <3>1 DEF BasisClocksOf, TypeOK, JournalTypeOK
  <2> QED  BY <1>2, <2>1, <2>2 DEF Lag
<1> QED  BY <1>1, <1>2, BasisStep

\* A new turn has a basis that reads what the clocks read.
LEMMA BeginBasis ==
  ASSUME TypeOK, NoOrphanRows, NEW r \in Requests, NEW i \in Inputs, Begin(r, i)
  PROVE  /\ BasisClocksOf(r)' = BasisClocks(i)
         /\ \A c \in BasisClocksOf(r)' : Lag(r, c)' = 0
<1>1. DOMAIN basis' = DOMAIN basis \cup ({r} \X BasisClocks(i))
  BY DEF Begin
<1>2. \A c \in Clocks : <<r, c>> \notin DOMAIN basis
  BY DEF Begin, NoOrphanRows
<1>3. BasisClocks(i) \subseteq Clocks
  BY BasisClocksAreClocks DEF TypeOK
<1>4. BasisClocksOf(r)' = BasisClocks(i)
  BY <1>1, <1>2, <1>3 DEF BasisClocksOf
<1>5. ASSUME NEW c \in BasisClocksOf(r)'
      PROVE  Lag(r, c)' = 0
  <2> DEFINE x == <<r, c>>
  <2>1. x \in DOMAIN basis' /\ x[1] = r /\ x[2] = c /\ c \in Clocks
    BY <1>5 DEF BasisClocksOf
  <2>2. basis'[x] = epoch'[x[2]]
    BY <1>1, <2>1 DEF Begin
  <2>3. epoch'[c] \in Nat
    BY <2>1, BeginIsTyped DEF TypeOK, StoreTypeOK
  <2> QED  BY <2>1, <2>2, <2>3 DEF Lag
<1> QED  BY <1>4, <1>5

LEMMA BasisBehindStep ==
  ASSUME TypeOK, NoOrphanRows, BasisBehind, [Next]_vars
  PROVE  BasisBehind'
<1> SUFFICES ASSUME NEW r \in Begun', NEW c \in BasisClocksOf(r)'
             PROVE  Lag(r, c)' >= 0
  BY DEF BasisBehind
<1>1. TypeOK' /\ r \in Requests
  BY NextIsTyped DEF TypeOK, JournalTypeOK, IsTable, Begun
<1>2. CASE r \in Begun
  <2>1. c \in BasisClocksOf(r) /\ Lag(r, c)' >= Lag(r, c) /\ Lag(r, c) >= 0
    BY <1>2, BasisStep, LagStep DEF BasisBehind
  <2>2. Lag(r, c) \in Int /\ Lag(r, c)' \in Int
    BY <1>1, <2>1 DEF Lag, BasisClocksOf, TypeOK, StoreTypeOK, JournalTypeOK
  <2> QED  BY <2>1, <2>2
<1>3. CASE r \notin Begun
  <2>1. PICK i \in Inputs : Begin(r, i)
    BY <1>3, TurnStep
  <2> QED  BY <1>1, <2>1, BeginBasis
<1> QED  BY <1>2, <1>3

LEMMA BasisCoversStep ==
  ASSUME TypeOK, NoOrphanRows, BasisCovers, [Next]_vars
  PROVE  BasisCovers'
<1> SUFFICES ASSUME NEW r \in Begun', turn'[r].input.consistency = "scope"
             PROVE  BasisClocksOf(r)' = IF turn'[r].input.scope = "all" THEN {0}
                                        ELSE DOMAIN turn'[r].package.tasks
  BY DEF BasisCovers
<1>1. CASE r \in Begun
  <2>1. turn'[r].input = turn[r].input /\ turn'[r].package = turn[r].package
    BY <1>1, TurnStep
  <2> QED  BY <1>1, <2>1, BasisStep DEF BasisCovers
<1>2. CASE r \notin Begun
  <2>1. PICK i \in Inputs : Begin(r, i)
    BY <1>2, TurnStep
  <2>2. r \in Requests
    BY NextIsTyped DEF TypeOK, JournalTypeOK, IsTable, Begun
  <2> DEFINE opened == Opened(task[i.task])
  <2>3. /\ turn'[r].input = i
        /\ turn'[r].package = [View(i.task, i.scope) EXCEPT !.tasks[i.task] = opened]
    BY <1>2, <2>1 DEF Begin, Put
  <2> HIDE DEF opened
  <2>4. DOMAIN turn'[r].package.tasks = Scope(i.task, i.scope)
    BY <2>3 DEF View
  <2> QED  BY <2>1, <2>2, <2>3, <2>4, BeginBasis DEF BasisClocks
<1> QED  BY <1>1, <1>2

\* A basis is valid while none of its clocks has moved on.
LEMMA ValidMeansNoLag ==
  ASSUME TypeOK, NEW r
  PROVE  ValidBasis(r) <=> (turn[r].input.consistency = "scope" =>
                              /\ BasisClocksOf(r) # {}
                              /\ \A c \in BasisClocksOf(r) : Lag(r, c) = 0)
<1>1. \A c \in BasisClocksOf(r) : Lag(r, c) = 0 <=> basis[<<r, c>>] = epoch[c]
  BY DEF Lag, BasisClocksOf, TypeOK, StoreTypeOK, JournalTypeOK
<1> QED  BY <1>1 DEF ValidBasis, BasisClocksOf

LEMMA StaleStep ==
  ASSUME TypeOK, NoOrphanRows, BasisBehind, [Next]_vars, NEW r \in Begun \cap Begun', ~ValidBasis(r)
  PROVE  ~ValidBasis(r)'
<1>1. TypeOK' /\ turn'[r].input = turn[r].input /\ BasisClocksOf(r)' = BasisClocksOf(r)
  BY NextIsTyped, TurnStep, BasisStep
<1>2. ~(/\ BasisClocksOf(r) # {}
        /\ \A c \in BasisClocksOf(r) : Lag(r, c) = 0)
  BY ValidMeansNoLag
<1>3. ASSUME NEW c \in BasisClocksOf(r), Lag(r, c) # 0
      PROVE  Lag(r, c)' # 0
  <2>1. Lag(r, c) >= 0 /\ Lag(r, c)' >= Lag(r, c)
    BY LagStep DEF BasisBehind
  <2>2. Lag(r, c) \in Int /\ Lag(r, c)' \in Int
    BY <1>1 DEF Lag, BasisClocksOf, TypeOK, StoreTypeOK, JournalTypeOK
  <2> QED  BY <1>3, <2>1, <2>2
<1>4. ~(/\ BasisClocksOf(r)' # {}
        /\ \A c \in BasisClocksOf(r)' : Lag(r, c)' = 0)
  BY <1>1, <1>2, <1>3
<1>5. turn[r].input.consistency = "scope"
  BY DEF ValidBasis
<1>6. \A c \in BasisClocksOf(r)' : Lag(r, c)' = 0 <=> basis'[<<r, c>>] = epoch'[c]
  BY <1>1 DEF Lag, BasisClocksOf, TypeOK, StoreTypeOK, JournalTypeOK
<1> QED  BY <1>1, <1>4, <1>5, <1>6 DEF ValidBasis, BasisClocksOf

LEMMA BasisInvariant == Spec => [](BasisBehind /\ BasisCovers)
<1>1. Init => BasisBehind /\ BasisCovers
  BY DEF Init, BasisBehind, BasisCovers, Begun
<1> QED  BY <1>1, BasisBehindStep, BasisCoversStep, RowsInvariant, Typed, PTL DEF Spec

\* Finishing its tools, recovering it or undoing the change never makes a turn whose
\* memory has changed current again.
THEOREM StaleStaysStale == Spec => StaleForever
<1>1. TypeOK /\ NoOrphanRows /\ BasisBehind /\ [Next]_vars
        => [\A r \in Begun \cap Begun' : ~ValidBasis(r) => ~ValidBasis(r)']_vars
  BY StaleStep
<1> QED  BY <1>1, BasisInvariant, RowsInvariant, Typed, PTL DEF Spec, StaleForever

-----------------------------------------------------------------------------
(* What a turn with a valid basis remembers.                               *)

\* While its basis is valid, a turn remembers exactly what it was packed from.
Current ==
  \A r \in Begun :
    turn[r].input.consistency = "scope" /\ ValidBasis(r) => Remembered(r) = turn[r].package

Seen(r, tasks, messages, facts) ==
  [tasks |-> tasks, messages |-> {m \in messages : m.request # r}, facts |-> facts]

LEMMA SettingAside ==
  ASSUME NEW r, NEW T, NEW M, NEW F
  PROVE  [[tasks |-> T, messages |-> M, facts |-> F] EXCEPT
            !.messages = {m \in @ : m.request # r}] = Seen(r, T, M, F)
BY DEF Seen

LEMMA RememberedIs ==
  ASSUME NEW r, NEW t, NEW kind, turn[r].input.task = t, turn[r].input.scope = kind
  PROVE  Remembered(r) = Seen(r, [u \in Scope(t, kind) |-> task[u]],
                                 {m \in message : m.task \in Scope(t, kind)},
                                 {f \in fact : f.task \in Scope(t, kind)})
<1> DEFINE T == [u \in Scope(t, kind) |-> task[u]]
           M == {m \in message : m.task \in Scope(t, kind)}
           F == {f \in fact : f.task \in Scope(t, kind)}
<1>1. View(turn[r].input.task, turn[r].input.scope) = [tasks |-> T, messages |-> M, facts |-> F]
  BY DEF View
<1> HIDE DEF T, M, F
<1> QED  BY <1>1, SettingAside DEF Remembered, T, M, F

LEMMA RememberedThen ==
  ASSUME NEW r, NEW t, NEW kind, turn'[r].input.task = t, turn'[r].input.scope = kind
  PROVE  Remembered(r)' = Seen(r, [u \in Scope(t, kind)' |-> task'[u]],
                                  {m \in message' : m.task \in Scope(t, kind)'},
                                  {f \in fact' : f.task \in Scope(t, kind)'})
<1> DEFINE T == [u \in Scope(t, kind)' |-> task'[u]]
           M == {m \in message' : m.task \in Scope(t, kind)'}
           F == {f \in fact' : f.task \in Scope(t, kind)'}
<1>1. View(turn[r].input.task, turn[r].input.scope)' = [tasks |-> T, messages |-> M, facts |-> F]
  BY DEF View
<1> HIDE DEF T, M, F
<1> QED  BY <1>1, SettingAside DEF Remembered, T, M, F

\* The tasks a scope reaches are those their parents say.
LEMMA ScopeStays ==
  ASSUME TypeOK, NEW t \in TaskIds, NEW kind,
         \A u \in Scope(t, kind) : task'[u].parents = task[u].parents
  PROVE  Scope(t, kind)' = Scope(t, kind)
<1>1. ASSUME NEW S, S \subseteq Lineage(t), kind = "lineage"
      PROVE  WithParents(S)' = WithParents(S)
  BY <1>1 DEF WithParents, Scope
<1>2. CASE kind = "lineage"
  <2> DEFINE A == {t}  B == WithParents(A)  C == WithParents(B)
  <2>1. A \subseteq B /\ B \subseteq C /\ C \subseteq WithParents(C) /\ Lineage(t) = WithParents(C)
    BY DEF WithParents, Lineage
  <2>2. WithParents(A)' = B
    BY <1>1, <1>2, <2>1
  <2>3. WithParents(B)' = C
    BY <1>1, <1>2, <2>1
  <2>4. WithParents(C)' = Lineage(t)
    BY <1>1, <1>2, <2>1
  <2>5. Lineage(t)' = Lineage(t)
    BY <2>2, <2>3, <2>4 DEF Lineage
  <2> QED  BY <1>2, <2>5 DEF Scope
<1> QED  BY <1>2 DEF Scope

\* A step that writes nothing in scope but messages of the turn itself.
LEMMA RememberedStays ==
  ASSUME TypeOK, NEW r, NEW t \in TaskIds, NEW kind,
         turn[r].input.task = t, turn[r].input.scope = kind, turn'[r].input = turn[r].input,
         \A u \in Scope(t, kind) : task'[u] = task[u] /\ FactsOf(u)' = FactsOf(u),
         \A m : m.task \in Scope(t, kind) /\ m.request # r => (m \in message' <=> m \in message)
  PROVE  Remembered(r)' = Remembered(r)
<1> DEFINE S == Scope(t, kind)
<1>1. Scope(t, kind)' = S
  BY ScopeStays
<1> HIDE DEF S
<1>2. [u \in S |-> task'[u]] = [u \in S |-> task[u]]
  BY DEF S
<1>3. {m \in {n \in message' : n.task \in S} : m.request # r}
        = {m \in {n \in message : n.task \in S} : m.request # r}
  BY DEF S
<1>4. {f \in fact' : f.task \in S} = {f \in fact : f.task \in S}
  BY DEF S, FactsOf
<1>5. Remembered(r) = Seen(r, [u \in S |-> task[u]], {m \in message : m.task \in S},
                              {f \in fact : f.task \in S})
  BY RememberedIs DEF S
<1>6. Remembered(r)' = Seen(r, [u \in S |-> task'[u]], {m \in message' : m.task \in S},
                               {f \in fact' : f.task \in S})
  BY <1>1, RememberedThen
<1> QED  BY <1>2, <1>3, <1>4, <1>5, <1>6 DEF Seen

\* A turn that begins remembers what it is packed from: nobody has written under its
\* name before.
LEMMA BeginRemembers ==
  ASSUME TypeOK, NoOrphanRows, Recorded, NEW r \in Requests, NEW i \in Inputs, Begin(r, i)
  PROVE  Remembered(r)' = turn'[r].package
<1> DEFINE t == i.task
           S == Scope(t, i.scope)
           opened == Opened(task[t])
           T == [u \in S |-> task[u]]
           M == {m \in message : m.task \in S}
           F == {f \in fact : f.task \in S}
<1>1. t \in TaskIds /\ t \in S /\ S \subseteq TaskIds /\ task \in [TaskIds -> TaskRow]
  BY InputIsTyped, ScopeIsTasks DEF TypeOK, StoreTypeOK
<1>2. opened.parents = task[t].parents
  BY <1>1 DEF Opened, TaskRow
<1> HIDE DEF opened
<1>3. task' = [task EXCEPT ![t] = opened]
  BY DEF Begin, opened
<1>4. Scope(t, i.scope)' = S
  BY <1>1, <1>2, <1>3, ScopeStays
<1>5. /\ turn'[r].input = i
      /\ turn'[r].package = [View(t, i.scope) EXCEPT !.tasks[t] = opened]
  BY DEF Begin, Put, opened
<1>6. turn'[r].package = [tasks |-> [T EXCEPT ![t] = opened], messages |-> M, facts |-> F]
  <2>1. View(t, i.scope) = [tasks |-> T, messages |-> M, facts |-> F]
    BY DEF View
  <2> HIDE DEF T, M, F, t
  <2> QED  BY <1>5, <2>1
<1>7. [u \in S |-> task'[u]] = [T EXCEPT ![t] = opened]
  <2> HIDE DEF S, t
  <2> QED  BY <1>1, <1>3
<1>8. {m \in {n \in message' : n.task \in S} : m.request # r} = M
  <2>1. \A m \in message : m.request # r
    BY DEF Begin, Recorded, SpokenOnce
  <2>2. \A m \in message' : m \in message \/ m.request = r
    BY DEF Begin, NewMessage
  <2>3. message \subseteq message'
    BY DEF Begin
  <2> HIDE DEF S
  <2> QED  BY <2>1, <2>2, <2>3
<1>9. {f \in fact' : f.task \in S} = F
  BY DEF Begin
<1>10. Remembered(r)' = Seen(r, [u \in S |-> task'[u]], {n \in message' : n.task \in S},
                                {f \in fact' : f.task \in S})
  BY <1>4, <1>5, RememberedThen
<1> HIDE DEF T, M, F, S, t
<1> QED  BY <1>6, <1>7, <1>8, <1>9, <1>10 DEF Seen

LEMMA CurrentStep ==
  ASSUME TypeOK, NoOrphanRows, Recorded, BasisBehind, BasisCovers, Current, [Next]_vars
  PROVE  Current'
<1> SUFFICES ASSUME NEW r \in Begun', turn'[r].input.consistency = "scope", ValidBasis(r)'
             PROVE  Remembered(r)' = turn'[r].package
  BY DEF Current
<1>1. r \in Requests
  BY NextIsTyped DEF TypeOK, JournalTypeOK, IsTable, Begun
<1>2. CASE r \notin Begun
  <2>1. PICK i \in Inputs : Begin(r, i)
    BY <1>2, TurnStep
  <2> QED  BY <1>1, <2>1, BeginRemembers
<1>3. CASE r \in Begun
  <2> DEFINE t == turn[r].input.task
             kind == turn[r].input.scope
             S == Scope(t, kind)
  <2>1. /\ turn'[r].input = turn[r].input /\ turn'[r].package = turn[r].package
        /\ ValidBasis(r) /\ Remembered(r) = turn[r].package
    BY <1>3, TurnStep, StaleStep DEF Current
  <2>2. t \in TaskIds /\ S \subseteq TaskIds /\ t \in S
    BY <1>3, ScopeIsTasks DEF NoOrphanRows, TaskExists, TypeOK
  <2>3. CASE \E g \in Generations, c \in Calls, x \in Results : RecordResult(r, g, c, x)
    <3>1. /\ task' = task /\ fact' = fact
          /\ \A m : m.request # r => (m \in message' <=> m \in message)
      BY <2>3 DEF RecordResult, NewMessage
    <3>2. \A u : FactsOf(u)' = FactsOf(u)
      BY <3>1 DEF FactsOf
    <3>3. Remembered(r)' = Remembered(r)
      <4> HIDE DEF S
      <4> QED  BY <2>1, <2>2, <3>1, <3>2, RememberedStays DEF S
    <3> QED  BY <2>1, <3>3
  <2>4. CASE \A c \in BasisClocksOf(r) : basis'[<<r, c>>] = basis[<<r, c>>]
    <3>1. \A c \in BasisClocksOf(r) : epoch'[c] = epoch[c]
      <4>1. BasisClocksOf(r)' = BasisClocksOf(r)
        BY <1>3, BasisStep
      <4>2. \A c \in BasisClocksOf(r) : basis[<<r, c>>] = epoch[c]
        BY <2>1 DEF ValidBasis, BasisClocksOf
      <4>3. \A c \in BasisClocksOf(r) : basis'[<<r, c>>] = epoch'[c]
        BY <4>1 DEF ValidBasis, BasisClocksOf
      <4> QED  BY <2>4, <4>2, <4>3
    <3>2. BasisClocksOf(r) = IF kind = "all" THEN {0} ELSE DOMAIN turn[r].package.tasks
      BY <1>3, <2>1 DEF BasisCovers
    <3>3. DOMAIN turn[r].package.tasks = S
      <4>1. Remembered(r).tasks = [u \in S |-> task[u]]
        BY RememberedIs DEF Seen
      <4> HIDE DEF S
      <4> QED  BY <2>1, <4>1
    <3>4. \A u \in S : Untouched(u)
      BY <2>2, <3>1, <3>2, <3>3, StepTells DEF ClocksTell
    <3>5. \A u \in S : task'[u] = task[u] /\ FactsOf(u)' = FactsOf(u)
      BY <3>4 DEF Untouched
    <3>6. \A m : m.task \in S => (m \in message' <=> m \in message)
      BY <3>4 DEF Untouched, MessagesOf
    <3>7. Remembered(r)' = Remembered(r)
      <4> HIDE DEF S
      <4> QED  BY <2>1, <2>2, <3>5, <3>6, RememberedStays DEF S
    <3> QED  BY <2>1, <3>7
  <2> QED  BY <1>3, <2>3, <2>4, BasisStep
<1> QED  BY <1>2, <1>3

LEMMA ActingNeedsBasis ==
  ASSUME TypeOK, [Next]_vars, NEW r \in Begun \cap Begun', Acts(r)
  PROVE  ValidBasis(r)
<1>1. CASE Commits(r)
  BY <1>1, TurnStep DEF Commit
<1>2. ASSUME UNCHANGED <<tool, modelCall, lease>>, ~Commits(r)
      PROVE  FALSE
  BY <1>2 DEF Acts
<1>3. ASSUME NEW q \in Requests, NEW g \in Generations, NEW c \in Calls,
             \/ \E a \in Args : StartTool(q, g, c, a)
             \/ \E l \in Ttls : ActionEligible(q, g, c, l)
             \/ \E p \in Payloads : RecordModelRequest(q, g, c, p),
             ~Commits(r)
      PROVE  ValidBasis(r)
  <2>1. ValidBasis(q)
    BY <1>3 DEF StartTool, ActionEligible, RecordModelRequest
  <2>2. /\ \A x \in DOMAIN tool' \ DOMAIN tool : x[1] = q
        /\ \A x \in DOMAIN modelCall' \ DOMAIN modelCall : x[1] = q
        /\ \A l \in lease' \ lease : l.request = q
    <3>1. CASE \E a \in Args : StartTool(q, g, c, a)
      <4>1. DOMAIN tool' = DOMAIN tool \cup {<<q, c>>} /\ UNCHANGED <<modelCall, lease>>
        BY <3>1 DEF StartTool, Put
      <4> QED  BY <4>1
    <3>2. CASE \E l \in Ttls : ActionEligible(q, g, c, l)
      <4>1. /\ \E l \in Ttls : lease' = lease \cup {NewLease(q, g, c, l)}
            /\ UNCHANGED <<tool, modelCall>>
        BY <3>2 DEF ActionEligible
      <4>2. \A l : NewLease(q, g, c, l).request = q
        BY DEF NewLease
      <4> QED  BY <4>1, <4>2
    <3>3. CASE \E p \in Payloads : RecordModelRequest(q, g, c, p)
      <4>1. DOMAIN modelCall' = DOMAIN modelCall \cup {<<q, c>>} /\ UNCHANGED <<tool, lease>>
        BY <3>3 DEF RecordModelRequest, Put
      <4> QED  BY <4>1
    <3> QED  BY <1>3, <3>1, <3>2, <3>3
  <2>3. q = r
    BY <1>3, <2>2 DEF Acts
  <2> QED  BY <2>1, <2>3
<1>4. ASSUME NEW q \in Requests, NEW g \in Generations, NEW c \in Calls, NEW x \in Results,
             RecordResult(q, g, c, x), ~Commits(r)
      PROVE  FALSE
  <2>1. DOMAIN tool' = DOMAIN tool /\ UNCHANGED <<modelCall, lease>>
    BY <1>4 DEF RecordResult
  <2> QED  BY <1>4, <2>1 DEF Acts
<1>5. ASSUME NEW o \in Operators, ApplyRetention(o), ~Commits(r)
      PROVE  FALSE
  <2>1. DOMAIN tool' \subseteq DOMAIN tool /\ DOMAIN modelCall' \subseteq DOMAIN modelCall
        /\ lease' \subseteq lease
    BY <1>5 DEF ApplyRetention, Without
  <2> QED  BY <1>5, <2>1 DEF Acts
<1>6. ASSUME NEW q \in Requests, NEW g \in Generations,
             \/ Recover(q, g) \/ Abort(q, g)
             \/ \E y \in Replies : Commit(q, g, y)
             \/ \E c \in Calls, x \in Responses : RecordModelResponse(q, g, c, x),
             ~Commits(r)
      PROVE  FALSE
  <2>1. UNCHANGED <<tool, modelCall, lease>>
    BY <1>6 DEF Recover, Abort, Commit, RecordModelResponse
  <2> QED  BY <1>2, <1>6, <2>1
<1>7. ASSUME \/ StoreWrite \/ Tick \/ UNCHANGED vars
             \/ \E o \in Operators, n \in Times : RetentionPlan(o, n),
             ~Commits(r)
      PROVE  FALSE
  <2>1. UNCHANGED <<tool, modelCall, lease>>
    BY <1>7 DEF StoreWrite, Tick, RetentionPlan, vars, journalVars
  <2> QED  BY <1>2, <1>7, <2>1
<1>8. ASSUME NEW q \in Requests, NEW i \in Inputs, Begin(q, i), ~Commits(r)
      PROVE  FALSE
  <2>1. UNCHANGED <<tool, modelCall, lease>>
    BY <1>8 DEF Begin
  <2> QED  BY <1>2, <1>8, <2>1
<1> QED
  BY <1>1, <1>3, <1>4, <1>5, <1>6, <1>7, <1>8, Zenon DEF Next, FinishTool, FinishToolUnderLease

LEMMA CurrentInvariant == Spec => []Current
<1>1. Init => Current
  BY DEF Init, Current, Begun
<1> QED
  BY <1>1, CurrentStep, BasisInvariant, RecordedInvariant, RowsInvariant, Typed, PTL DEF Spec

\* A scoped turn starts a tool, certifies an effect, sends a model request or commits
\* only on the memory its package was packed from.
THEOREM ActsOnSeen == Spec => ActsOnlyOnSeenMemory
<1>1. TypeOK /\ Current /\ [Next]_vars
        => [\A r \in Begun \cap Begun' :
              Acts(r) /\ turn[r].input.consistency = "scope"
                => Remembered(r) = turn[r].package]_vars
  BY ActingNeedsBasis DEF Current
<1> QED  BY <1>1, CurrentInvariant, Typed, PTL DEF Spec, ActsOnlyOnSeenMemory

=============================================================================
