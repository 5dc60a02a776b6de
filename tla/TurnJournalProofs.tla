-------------------------- MODULE TurnJournalProofs --------------------------
(***************************************************************************)
(* Proofs about TurnJournal for every value of its constants: what the     *)
(* store's operators and operations do and that they keep its tables of    *)
(* their types, the types of the journal's tables, then the properties of  *)
(* turns and of their evidence.                                            *)
(***************************************************************************)
EXTENDS TurnJournal, FiniteSetTheorems, SequenceTheorems, WellFoundedInduction, TLAPS

-----------------------------------------------------------------------------
(* The store: MemoryStore's operators and operations.                      *)

\* A bounded set of naturals with zero added has a maximum: there is a least
\* upper bound, and it is an element.
LEMMA MaximumExists ==
  ASSUME NEW S \in SUBSET Nat, NEW bound \in Nat, \A i \in S : i <= bound
  PROVE  \E n \in {0} \cup S : \A i \in S : i <= n
<1> DEFINE Bounds == {n \in Nat : \A i \in S : i <= n}
<1>1. bound \in Bounds
  OBVIOUS
<1>2. IsWellFoundedOn(OpToRel(<, Nat), Nat)
  BY NatLessThanWellFounded
<1>3. PICK n \in Bounds : \A k \in Bounds : <<k, n>> \notin OpToRel(<, Nat)
  <2>1. Bounds \subseteq Nat /\ Bounds # {}
    BY <1>1
  <2> HIDE DEF Bounds
  <2> QED  BY <1>2, <2>1, WFMin, Zenon
<1>4. \A k \in Bounds : ~(k < n)
  BY <1>3 DEF OpToRel
<1>5. CASE n = 0
  BY <1>5, <1>3
<1>6. CASE n # 0
  <2>1. n - 1 \in Nat /\ n - 1 < n
    BY <1>6
  <2>2. n - 1 \notin Bounds
    BY <1>4, <2>1
  <2>3. PICK i \in S : ~(i <= n - 1)
    BY <2>1, <2>2
  <2>4. i = n
    BY <2>3, <2>1
  <2> QED  BY <2>4
<1> QED  BY <1>5, <1>6

\* coalesce(max(revision),0) is zero or a revision of the fact, and no revision
\* of the fact is later.
LEMMA LastRevisionIsMaximum ==
  ASSUME StoreTypeOK, NEW t, NEW k
  PROVE  /\ LastRevision(t, k) \in {0} \cup FactRevisions(t, k)
         /\ \A i \in FactRevisions(t, k) : i <= LastRevision(t, k)
         /\ LastRevision(t, k) \in 0..MaxRevision
<1>1. FactRevisions(t, k) \in SUBSET (1..MaxRevision)
  BY DEF StoreTypeOK, FactRevisions, FactsOf, Fact
<1>2. /\ FactRevisions(t, k) \in SUBSET Nat
      /\ MaxRevision \in Nat
      /\ \A i \in FactRevisions(t, k) : i <= MaxRevision
  BY <1>1, StoreAssumption
<1>3. \E n \in {0} \cup FactRevisions(t, k) : \A i \in FactRevisions(t, k) : i <= n
  BY <1>2, MaximumExists, Zenon
<1>4. /\ LastRevision(t, k) \in {0} \cup FactRevisions(t, k)
      /\ \A i \in FactRevisions(t, k) : i <= LastRevision(t, k)
  BY <1>3, Zenon DEF LastRevision
<1> QED  BY <1>1, <1>2, <1>4

\* Sets of row numbers and of positions in a list are finite.
LEMMA NumbersAreFinite ==
  ASSUME NEW n \in Nat, NEW S \in SUBSET (1..n)
  PROVE  IsFiniteSet(S) /\ Cardinality(S) \in Nat
<1>1. 1 \in Int /\ n \in Int
  OBVIOUS
<1>2. IsFiniteSet(1..n)
  BY <1>1, FS_Interval, Zenon
<1>3. IsFiniteSet(S)
  BY <1>2, FS_Subset, Zenon
<1> QED  BY <1>3, FS_CardinalityType, Zenon

\* A list given by its positions is a sequence.
LEMMA ListsAreSequences ==
  ASSUME NEW S, NEW n \in Nat, NEW list \in [1..n -> S]
  PROVE  list \in Seq(S)
<1>1. list \in UNION {[1..m -> S] : m \in Nat}
  BY Zenon
<1> QED  BY <1>1, SeqDef, Zenon

\* The rows that a list of updates adds are facts of the task, finitely many.
LEMMA NewFactsAreFacts ==
  ASSUME StoreTypeOK, NEW t \in TaskIds, NEW updates \in Seq(FactUpdate),
         WithinRevisions(t, updates)
  PROVE  NewFacts(t, updates) \subseteq Fact /\ IsFiniteSet(NewFacts(t, updates))
<1>1. IsFiniteSet(DOMAIN updates)
  <2>1. DOMAIN updates \in SUBSET (1..Len(updates)) /\ Len(updates) \in Nat
    OBVIOUS
  <2> QED  BY <2>1, NumbersAreFinite, Zenon
<1> DEFINE Row(i) ==
      [task |-> t, key |-> updates[i].key,
       revision |-> LastRevision(t, updates[i].key)
                      + Cardinality({j \in 1..i : updates[j].key = updates[i].key}),
       evidence |-> updates[i].evidence,
       retracted |-> updates[i].retracted]
<1>2. NewFacts(t, updates) = {Row(i) : i \in DOMAIN updates}
  BY DEF NewFacts
<1>3. ASSUME NEW i \in DOMAIN updates
      PROVE  Row(i) \in Fact
  <2>1. updates[i] \in FactUpdate /\ i \in Nat /\ i \in 1..i
    OBVIOUS
  <2> DEFINE Same == {j \in 1..i : updates[j].key = updates[i].key}
  <2>2. Same \in SUBSET (1..i) /\ i \in Same
    BY <2>1
  <2> HIDE DEF Same
  <2>3. IsFiniteSet(Same)
    BY <2>1, <2>2, NumbersAreFinite, Zenon
  <2>4. Cardinality(Same) \in Nat
    BY <2>1, <2>2, NumbersAreFinite, Zenon
  <2>5. Cardinality(Same) # 0
    BY <2>2, <2>3, FS_EmptySet
  <2>6. LastRevision(t, updates[i].key) \in 0..MaxRevision
    BY LastRevisionIsMaximum
  <2>7. Row(i).revision <= MaxRevision
    BY <1>2 DEF WithinRevisions
  <2>8. Row(i).revision = LastRevision(t, updates[i].key) + Cardinality(Same)
    BY DEF Same
  <2>9. Row(i).revision \in 1..MaxRevision
    BY <2>4, <2>5, <2>6, <2>7, <2>8, StoreAssumption
  <2> QED  BY <2>1, <2>9 DEF Fact, FactUpdate
<1>4. IsFiniteSet({Row(i) : i \in DOMAIN updates})
  <2> HIDE DEF Row
  <2> DEFINE f == [i \in DOMAIN updates |-> Row(i)]
  <2>1. f \in Surjection(DOMAIN updates, {Row(i) : i \in DOMAIN updates})
    BY DEF Surjection
  <2> QED  BY <1>1, <2>1, FS_Surjection
<1> QED  BY <1>2, <1>3, <1>4

-----------------------------------------------------------------------------
(* Each operation keeps the types of the tables.                           *)

\* A clock moved by a natural number is a natural number.
LEMMA TickedIsTyped ==
  ASSUME StoreTypeOK, NEW t \in TaskIds, NEW n \in Nat
  PROVE  Ticked(t, n) \in [Clocks -> Nat]
<1>1. t \in Clocks /\ 0 \in Clocks
  BY StoreAssumption DEF Clocks, TaskIds
<1> QED  BY <1>1 DEF StoreTypeOK, Ticked

\* Message and fact tables are finite, and so are the rows of one task.
LEMMA RowsOfTaskAreFinite ==
  ASSUME StoreTypeOK, NEW t
  PROVE  /\ Cardinality(MessagesOf(t)) \in Nat
         /\ Cardinality(FactsOf(t)) \in Nat
<1>1. MessagesOf(t) \in SUBSET message /\ FactsOf(t) \in SUBSET fact
  BY DEF MessagesOf, FactsOf
<1>2. IsFiniteSet(MessagesOf(t)) /\ IsFiniteSet(FactsOf(t))
  BY <1>1, FS_Subset, Zenon DEF StoreTypeOK
<1> QED  BY <1>2, FS_CardinalityType, Zenon

LEMMA CreateTaskIsTyped ==
  ASSUME StoreTypeOK, NEW s \in Snapshots, NEW P \in SUBSET TaskIds,
         NEW a \in 0..MaxAliases, CreateTask(s, P, a)
  PROVE  StoreTypeOK'
<1>1. nextTask \in TaskIds
  BY StoreAssumption DEF CreateTask, StoreTypeOK, TaskIds
<1>2. task' \in [TaskIds -> TaskRow]
  BY <1>1, StoreAssumption DEF CreateTask, StoreTypeOK, TaskRow
<1>3. 1 + Cardinality(P) + a \in Nat
  <2>1. Cardinality(P) \in Nat
    BY NumbersAreFinite, StoreAssumption DEF TaskIds
  <2> QED  BY <2>1, StoreAssumption
<1>4. epoch' \in [Clocks -> Nat]
  BY <1>1, <1>3, TickedIsTyped DEF CreateTask
<1>5. nextTask' \in 1..(MaxTasks + 1)
  BY StoreAssumption DEF CreateTask, StoreTypeOK
<1> QED  BY <1>2, <1>4, <1>5 DEF CreateTask, StoreTypeOK

LEMMA AppendBatchIsTyped ==
  ASSUME StoreTypeOK, NEW batch \in Batches, AppendBatch(batch)
  PROVE  StoreTypeOK'
<1>1. PICK n \in 1..MaxBatch : batch \in [1..n -> [task: TaskIds, role: AppendRoles]]
  BY DEF Batches
<1>2. n \in Nat /\ DOMAIN batch = 1..n /\ Len(batch) = n
  <2>1. n \in Nat
    BY StoreAssumption
  <2>2. batch \in Seq([task: TaskIds, role: AppendRoles])
    BY <1>1, <2>1, ListsAreSequences, Zenon
  <2> QED  BY <1>1, <2>1, <2>2
<1> DEFINE Row(i) == NewMessage(nextMessage + i - 1, batch[i].task, batch[i].role,
                                NoRequest, NoCall)
           Rows == {Row(i) : i \in DOMAIN batch}
<1>3. ASSUME NEW i \in DOMAIN batch
      PROVE  Row(i) \in Message
  <2>1. batch[i] \in [task: TaskIds, role: AppendRoles]
    BY <1>1, <1>2
  <2>2. nextMessage + i - 1 \in MessageIds
    BY <1>2, StoreAssumption DEF AppendBatch, StoreTypeOK, MessageIds
  <2> QED  BY <2>1, <2>2, StoreAssumption DEF NewMessage, Message, Roles
<1>4. IsFiniteSet(Rows)
  <2>1. IsFiniteSet(DOMAIN batch)
    BY <1>2, NumbersAreFinite
  <2> HIDE DEF Row
  <2> DEFINE f == [i \in DOMAIN batch |-> Row(i)]
  <2>2. f \in Surjection(DOMAIN batch, Rows)
    BY DEF Surjection
  <2> QED  BY <2>1, <2>2, FS_Surjection
<1>5. message' \subseteq Message /\ IsFiniteSet(message')
  <2>1. message' = message \cup Rows
    BY DEF AppendBatch
  <2>2. IsFiniteSet(message \cup Rows)
    <3> HIDE DEF Rows
    <3> QED  BY <1>4, FS_Union DEF StoreTypeOK
  <2> QED  BY <1>3, <2>1, <2>2 DEF StoreTypeOK
<1>6. epoch' \in [Clocks -> Nat]
  <2>1. ASSUME NEW c \in Clocks
        PROVE  Cardinality({i \in DOMAIN batch : c = 0 \/ c = batch[i].task}) \in Nat
    <3>1. {i \in DOMAIN batch : c = 0 \/ c = batch[i].task} \in SUBSET (1..n)
      BY <1>2
    <3> QED  BY <1>2, <3>1, NumbersAreFinite, Zenon
  <2> QED  BY <2>1 DEF AppendBatch, StoreTypeOK
<1>7. nextMessage' \in 1..(MaxMessages + 1)
  BY <1>2, StoreAssumption DEF AppendBatch, StoreTypeOK
<1> QED  BY <1>5, <1>6, <1>7 DEF AppendBatch, StoreTypeOK

LEMMA SetFactIsTyped ==
  ASSUME StoreTypeOK, NEW t \in TaskIds, NEW u \in FactUpdates, SetFact(t, u)
  PROVE  StoreTypeOK'
<1>1. <<u>> \in Seq(FactUpdate)
  BY StoreAssumption DEF FactUpdate, MessageIds
<1>2. NewFacts(t, <<u>>) \subseteq Fact /\ IsFiniteSet(NewFacts(t, <<u>>))
  BY <1>1, NewFactsAreFacts DEF SetFact
<1>3. fact' \subseteq Fact /\ IsFiniteSet(fact')
  BY <1>2, FS_Union DEF SetFact, StoreTypeOK
<1>4. epoch' \in [Clocks -> Nat]
  BY TickedIsTyped DEF SetFact
<1> QED  BY <1>3, <1>4 DEF SetFact, StoreTypeOK

LEMMA SetSnapshotIsTyped ==
  ASSUME StoreTypeOK, NEW t \in TaskIds, NEW s \in Snapshots, NEW v \in 1..MaxRevision,
         SetSnapshot(t, s, v)
  PROVE  StoreTypeOK'
<1>1. task' \in [TaskIds -> TaskRow]
  BY DEF SetSnapshot, StoreTypeOK, TaskRow
<1>2. epoch' \in [Clocks -> Nat]
  BY TickedIsTyped DEF SetSnapshot
<1> QED  BY <1>1, <1>2 DEF SetSnapshot, StoreTypeOK

LEMMA ResumeIsTyped ==
  ASSUME StoreTypeOK, NEW t \in TaskIds, Resume(t)
  PROVE  StoreTypeOK'
<1>1. task' \in [TaskIds -> TaskRow]
  BY DEF Resume, StoreTypeOK, TaskRow
<1>2. epoch' \in [Clocks -> Nat]
  BY TickedIsTyped, ZenonT(60) DEF Resume, StoreTypeOK
<1>3. active' \in Clocks /\ version' \in Nat
  BY StoreAssumption, SMTT(30) DEF Resume, StoreTypeOK, Clocks, TaskIds
<1> QED  BY <1>1, <1>2, <1>3 DEF Resume, StoreTypeOK

LEMMA ArchiveIsTyped ==
  ASSUME StoreTypeOK, NEW t \in TaskIds, Archive(t)
  PROVE  StoreTypeOK'
<1>1. task' \in [TaskIds -> TaskRow]
  BY DEF Archive, StoreTypeOK, TaskRow
<1>2. epoch' \in [Clocks -> Nat]
  BY TickedIsTyped DEF Archive
<1> QED  BY <1>1, <1>2 DEF Archive, StoreTypeOK

LEMMA DeleteTaskIsTyped ==
  ASSUME StoreTypeOK, NEW t \in TaskIds, DeleteTask(t)
  PROVE  StoreTypeOK'
<1>1. NoTask \in TaskRow
  BY StoreAssumption DEF NoTask, TaskRow
<1>2. task' \in [TaskIds -> TaskRow]
  BY <1>1 DEF DeleteTask, StoreTypeOK
<1>3. /\ message' \subseteq Message /\ IsFiniteSet(message')
      /\ fact' \subseteq Fact /\ IsFiniteSet(fact')
  BY FS_Subset DEF DeleteTask, StoreTypeOK
<1>4. epoch' \in [Clocks -> Nat]
  <2> DEFINE n == 1 + Cardinality(task[t].parents) + task[t].aliases
                    + Cardinality(MessagesOf(t)) + Cardinality(FactsOf(t))
  <2>1. task[t].aliases \in Nat /\ task[t].parents \in SUBSET (1..MaxTasks)
    BY DEF StoreTypeOK, TaskRow, TaskIds
  <2>2. Cardinality(task[t].parents) \in Nat
    BY <2>1, NumbersAreFinite, StoreAssumption
  <2>3. n \in Nat
    BY <2>1, <2>2, RowsOfTaskAreFinite
  <2> HIDE DEF n
  <2>4. Ticked(t, n) \in [Clocks -> Nat]
    BY <2>3, TickedIsTyped
  <2> QED  BY <2>4 DEF DeleteTask, n
<1>5. active' \in Clocks /\ version' \in Nat
  BY StoreAssumption DEF DeleteTask, StoreTypeOK, Clocks
<1> QED  BY <1>2, <1>3, <1>4, <1>5 DEF DeleteTask, StoreTypeOK

-----------------------------------------------------------------------------
(* The operators the journal is built from.                                *)

\* A scope is a set of tasks, the asking one among them.
LEMMA ScopeIsTasks ==
  ASSUME StoreTypeOK, NEW t \in TaskIds, NEW kind
  PROVE  Scope(t, kind) \subseteq TaskIds /\ t \in Scope(t, kind)
<1>1. ASSUME NEW S \in SUBSET TaskIds
      PROVE  S \subseteq WithParents(S) /\ WithParents(S) \in SUBSET TaskIds
  BY DEF WithParents, StoreTypeOK, TaskRow
<1>2. {t} \in SUBSET TaskIds
  OBVIOUS
<1>3. Lineage(t) \in SUBSET TaskIds /\ t \in Lineage(t)
  BY <1>1, <1>2, Zenon DEF Lineage
<1> QED  BY <1>3 DEF Scope

\* The task of an input is one the store may hold.
LEMMA InputIsTyped ==
  ASSUME NEW input \in Inputs
  PROVE  /\ input.task \in TaskIds
         /\ input.scope \in {"task", "lineage", "all"}
         /\ input.consistency \in {"snapshot", "scope"}
BY JournalAssumption

\* The clocks a basis captures are clocks of the store.
LEMMA BasisClocksAreClocks ==
  ASSUME StoreTypeOK, NEW input \in Inputs
  PROVE  BasisClocks(input) \subseteq Clocks
<1>1. Scope(input.task, input.scope) \subseteq TaskIds
  BY InputIsTyped, ScopeIsTasks
<1>2. TaskIds \subseteq Clocks /\ 0 \in Clocks
  BY StoreAssumption DEF TaskIds, Clocks
<1> QED  BY <1>1, <1>2 DEF BasisClocks

\* A journaled message takes the next ID of the messages table.
LEMMA JournaledMessage ==
  ASSUME StoreTypeOK, nextMessage <= MaxMessages,
         NEW t \in TaskIds, NEW role \in Roles, NEW r \in Requests,
         NEW c \in Calls \cup {NoCall}
  PROVE  /\ nextMessage \in MessageIds
         /\ nextMessage + 1 \in 1..(MaxMessages + 1)
         /\ message \cup {NewMessage(nextMessage, t, role, r, c)} \subseteq Message
         /\ IsFiniteSet(message \cup {NewMessage(nextMessage, t, role, r, c)})
<1>1. nextMessage \in MessageIds /\ nextMessage + 1 \in 1..(MaxMessages + 1)
  BY StoreAssumption DEF StoreTypeOK, MessageIds
<1>2. NewMessage(nextMessage, t, role, r, c) \in Message
  BY <1>1 DEF NewMessage, Message
<1>3. IsFiniteSet(message \cup {NewMessage(nextMessage, t, role, r, c)})
  BY FS_AddElement DEF StoreTypeOK
<1> QED  BY <1>1, <1>2, <1>3 DEF StoreTypeOK

\* The view packed for a turn is typed, its task is one of those it covers.
LEMMA ViewIsTyped ==
  ASSUME StoreTypeOK, NEW input \in Inputs, NEW row \in TaskRow
  PROVE  LET pack == [View(input.task, input.scope) EXCEPT !.tasks[input.task] = row]
             S == DOMAIN pack.tasks
         IN  S \subseteq TaskIds /\ input.task \in S /\ pack \in Package(S)
<1> DEFINE t == input.task
           S == Scope(t, input.scope)
           pack == [View(t, input.scope) EXCEPT !.tasks[t] = row]
<1>1. S \subseteq TaskIds /\ t \in S
  BY InputIsTyped, ScopeIsTasks
<1> DEFINE tasks == [u \in S |-> task[u]]
           messages == {m \in message : m.task \in S}
           facts == {f \in fact : f.task \in S}
<1>2. View(t, input.scope) = [tasks |-> tasks, messages |-> messages, facts |-> facts]
  BY DEF View
<1>3. [tasks EXCEPT ![t] = row] \in [S -> TaskRow]
  BY <1>1 DEF StoreTypeOK
<1>4. messages \subseteq Message /\ facts \subseteq Fact
  BY DEF StoreTypeOK
<1>5. pack = [tasks    |-> [tasks EXCEPT ![t] = row],
              messages |-> messages,
              facts    |-> facts]
  <2> HIDE DEF tasks, messages, facts
  <2> QED  BY <1>2
<1> QED  BY <1>1, <1>3, <1>4, <1>5, Zenon DEF Package

-----------------------------------------------------------------------------
(* Each action keeps the types of the tables.                              *)

LEMMA StoreWriteIsTyped ==
  ASSUME TypeOK, StoreWrite
  PROVE  TypeOK'
<1>1. JournalTypeOK'
  BY DEF StoreWrite, TypeOK, JournalTypeOK, journalVars, IsTable, IsTurn, TurnRow, Package, Begun
<1>2. StoreTypeOK'
  BY CreateTaskIsTyped, AppendBatchIsTyped, SetFactIsTyped, SetSnapshotIsTyped,
     ResumeIsTyped, ArchiveIsTyped, DeleteTaskIsTyped, Zenon DEF StoreWrite, TypeOK
<1> QED  BY <1>1, <1>2 DEF TypeOK

\* Reopening a task row keeps it one.
LEMMA OpenedIsTyped ==
  ASSUME NEW row \in TaskRow
  PROVE  Opened(row) \in TaskRow
<1>1. CASE row.status = "archived"
  <2>1. [row EXCEPT !.status = "open"] \in TaskRow
    BY DEF TaskRow
  <2>2. \A x \in TaskRow : [x EXCEPT !.revision = @ + 1] \in TaskRow
    BY DEF TaskRow
  <2>3. Opened(row) = [[row EXCEPT !.status = "open"] EXCEPT !.revision = @ + 1]
    BY <1>1 DEF Opened
  <2> QED  BY <2>1, <2>2, <2>3
<1> QED  BY <1>1 DEF Opened

LEMMA BeginIsTyped ==
  ASSUME TypeOK, NEW r \in Requests, NEW input \in Inputs, Begin(r, input)
  PROVE  TypeOK'
<1> DEFINE t == input.task
           opened == Opened(task[t])
           begun == [status |-> "pending", input |-> input, generation |-> 1,
                     revision |-> opened.revision, reply |-> NoReply, updated |-> now,
                     package |-> [View(t, input.scope) EXCEPT !.tasks[t] = opened]]
<1>1. t \in TaskIds /\ StoreTypeOK
  BY InputIsTyped DEF TypeOK
<1>2. opened \in TaskRow
  BY <1>1, OpenedIsTyped DEF StoreTypeOK
<1>3. task' \in [TaskIds -> TaskRow]
  BY <1>1, <1>2 DEF Begin, StoreTypeOK
<1>4. /\ message' \subseteq Message /\ IsFiniteSet(message')
      /\ nextMessage' \in 1..(MaxMessages + 1)
  BY <1>1, JournaledMessage DEF Begin, Roles
<1>5. epoch' \in [Clocks -> Nat]
  <2>1. \E n \in Nat : epoch' = Ticked(t, n)
    BY DEF Begin
  <2> QED  BY <1>1, <2>1, TickedIsTyped
<1>6. active' \in Clocks /\ version' \in Nat
  BY <1>1, StoreAssumption, SMTT(30) DEF Begin, StoreTypeOK, TaskIds, Clocks
<1>7. StoreTypeOK'
  BY <1>1, <1>3, <1>4, <1>5, <1>6 DEF Begin, StoreTypeOK
<1>8. turn' = Put(turn, r, begun)
  BY DEF Begin
<1>9. IsTurn(begun)
  <2>1. 1 \in Generations /\ now \in Times
    BY JournalAssumption DEF Generations, TypeOK, JournalTypeOK
  <2>2. opened.revision \in Nat
    BY <1>2 DEF TaskRow
  <2> HIDE DEF opened
  <2>3. LET S == DOMAIN begun.package.tasks
        IN  S \subseteq TaskIds /\ t \in S /\ begun.package \in Package(S)
    BY <1>1, <1>2, ViewIsTyped
  <2> QED  BY <2>1, <2>2, <2>3 DEF IsTurn, TurnRow
<1>10. IsTable(turn', Requests) /\ \A q \in DOMAIN turn' : IsTurn(turn'[q])
  <2> HIDE DEF begun
  <2>1. IsTable(turn, Requests) /\ \A q \in DOMAIN turn : IsTurn(turn[q])
    BY DEF TypeOK, JournalTypeOK, Begun
  <2> QED  BY <1>8, <1>9, <2>1 DEF Put, IsTable
<1>11. IsTable(basis', Requests \X Clocks) /\ \A x \in DOMAIN basis' : basis'[x] \in Nat
  <2>1. BasisClocks(input) \subseteq Clocks
    BY <1>1, BasisClocksAreClocks
  <2>2. basis' = [x \in DOMAIN basis \cup ({r} \X BasisClocks(input)) |->
                    IF x[1] = r THEN epoch'[x[2]] ELSE basis[x]]
    BY DEF Begin
  <2>3. DOMAIN basis \subseteq Requests \X Clocks /\ \A x \in DOMAIN basis : basis[x] \in Nat
    BY DEF TypeOK, JournalTypeOK, IsTable
  <2> QED  BY <1>5, <2>1, <2>2, <2>3 DEF IsTable
<1> QED  BY <1>7, <1>10, <1>11 DEF Begin, TypeOK, JournalTypeOK, IsTable, Begun

\* Changing the status, generation, reply or time of a turn keeps it a turn.
LEMMA TurnFields ==
  ASSUME NEW row, IsTurn(row)
  PROVE  /\ \A x \in {"pending", "committed", "aborted"} : IsTurn([row EXCEPT !.status = x])
         /\ \A x \in Generations : IsTurn([row EXCEPT !.generation = x])
         /\ \A x \in Replies \cup {NoReply} : IsTurn([row EXCEPT !.reply = x])
         /\ \A x \in Times : IsTurn([row EXCEPT !.updated = x])
BY DEF IsTurn, TurnRow

\* Updating one turn keeps the table of turns.
LEMMA TurnTable ==
  ASSUME JournalTypeOK, NEW r \in Begun, NEW row, IsTurn(row), turn' = [turn EXCEPT ![r] = row]
  PROVE  IsTable(turn, Requests)' /\ \A q \in Begun' : IsTurn(turn[q])'
BY DEF JournalTypeOK, IsTable, Begun, IsTurn, TurnRow

LEMMA RecoverIsTyped ==
  ASSUME TypeOK, NEW r \in Requests, NEW g \in Generations, Recover(r, g)
  PROVE  TypeOK'
<1>1. g + 1 \in Generations /\ now \in Times
  BY JournalAssumption DEF Recover, Generations, TypeOK, JournalTypeOK
<1>2. r \in Begun /\ turn[r].generation = g /\ IsTurn(turn[r]) /\ JournalTypeOK
  BY DEF Recover, Pending, TypeOK, JournalTypeOK
<1> DEFINE counted == [turn[r] EXCEPT !.generation = g + 1]
           stamped == [counted EXCEPT !.updated = now]
<1>3. IsTurn(counted)
  BY <1>1, <1>2, TurnFields
<1>4. IsTurn(stamped)
  <2> HIDE DEF counted
  <2> QED  BY <1>1, <1>3, TurnFields
<1>5. turn' = [turn EXCEPT ![r] = stamped]
  BY <1>2 DEF Recover, JournalTypeOK, IsTable, Begun
<1>6. IsTable(turn, Requests)' /\ \A q \in Begun' : IsTurn(turn[q])'
  <2> HIDE DEF stamped
  <2> QED  BY <1>2, <1>4, <1>5, TurnTable
<1>7. StoreTypeOK'
  BY DEF Recover, TypeOK, StoreTypeOK, storeVars
<1> QED  BY <1>6, <1>7 DEF Recover, TypeOK, JournalTypeOK, IsTable, Begun

LEMMA AbortIsTyped ==
  ASSUME TypeOK, NEW r \in Requests, NEW g \in Generations, Abort(r, g)
  PROVE  TypeOK'
<1>1. r \in Begun /\ IsTurn(turn[r]) /\ JournalTypeOK /\ now \in Times
  BY DEF Abort, Pending, TypeOK, JournalTypeOK
<1> DEFINE ended == [turn[r] EXCEPT !.status = "aborted"]
           stamped == [ended EXCEPT !.updated = now]
<1>2. IsTurn(ended)
  BY <1>1, TurnFields
<1>3. IsTurn(stamped)
  <2> HIDE DEF ended
  <2> QED  BY <1>1, <1>2, TurnFields
<1>4. turn' = [turn EXCEPT ![r] = stamped]
  BY <1>1 DEF Abort, JournalTypeOK, IsTable, Begun
<1>5. IsTable(turn, Requests)' /\ \A q \in Begun' : IsTurn(turn[q])'
  <2> HIDE DEF stamped
  <2> QED  BY <1>1, <1>3, <1>4, TurnTable
<1>6. StoreTypeOK'
  BY DEF Abort, TypeOK, StoreTypeOK, storeVars
<1> QED  BY <1>5, <1>6 DEF Abort, TypeOK, JournalTypeOK, IsTable, Begun

LEMMA CommitIsTyped ==
  ASSUME TypeOK, NEW r \in Requests, NEW g \in Generations, NEW reply \in Replies,
         Commit(r, g, reply)
  PROVE  TypeOK'
<1> DEFINE t == turn[r].input.task
<1>1. r \in Begun /\ IsTurn(turn[r]) /\ JournalTypeOK /\ StoreTypeOK /\ now \in Times
  BY DEF Commit, Pending, TypeOK, JournalTypeOK
<1>2. turn[r].input \in Inputs /\ t \in TaskIds
  <2>1. turn[r].input \in Inputs
    BY <1>1 DEF IsTurn, TurnRow
  <2> QED  BY <2>1, InputIsTyped
<1>3. /\ reply.facts \in Seq(FactUpdate)
      /\ reply.snapshot \in Snapshots \cup {NoSnapshot}
      /\ reply.provenance \subseteq [evidence : MessageIds, kind : {"supports", "contradicts"}]
  BY JournalAssumption
<1> DEFINE answered == [turn[r] EXCEPT !.status = "committed"]
           replied == [answered EXCEPT !.reply = reply]
           stamped == [replied EXCEPT !.updated = now]
<1>4. IsTurn(stamped)
  <2>1. IsTurn(answered)
    BY <1>1, TurnFields
  <2>2. IsTurn(replied)
    <3> HIDE DEF answered
    <3> QED  BY <2>1, TurnFields
  <2> HIDE DEF replied
  <2> QED  BY <1>1, <2>2, TurnFields
<1>5. turn' = [turn EXCEPT ![r] = stamped]
  BY <1>1 DEF Commit, JournalTypeOK, IsTable, Begun
<1>6. IsTable(turn, Requests)' /\ \A q \in Begun' : IsTurn(turn[q])'
  <2> HIDE DEF stamped
  <2> QED  BY <1>1, <1>4, <1>5, TurnTable
<1>7. /\ message' \subseteq Message /\ IsFiniteSet(message')
      /\ nextMessage' \in 1..(MaxMessages + 1)
  <2>1. /\ nextMessage <= MaxMessages /\ nextMessage' = nextMessage + 1
        /\ message' = message \cup {NewMessage(nextMessage, t, "assistant", r, NoCall)}
    BY DEF Commit
  <2> QED  BY <1>1, <1>2, <2>1, JournaledMessage DEF Roles
<1>8. fact' \subseteq Fact /\ IsFiniteSet(fact')
  <2>1. WithinRevisions(t, reply.facts) /\ fact' = fact \cup NewFacts(t, reply.facts)
    BY DEF Commit
  <2>2. NewFacts(t, reply.facts) \subseteq Fact /\ IsFiniteSet(NewFacts(t, reply.facts))
    BY <1>1, <1>2, <1>3, <2>1, NewFactsAreFacts
  <2> QED  BY <1>1, <2>1, <2>2, FS_Union DEF StoreTypeOK
<1>9. task' \in [TaskIds -> TaskRow]
  <2> DEFINE kept == IF reply.snapshot = NoSnapshot THEN task[t].snapshot ELSE reply.snapshot
  <2>1. task[t] \in TaskRow
    BY <1>1, <1>2 DEF StoreTypeOK
  <2>2. kept \in Snapshots /\ task[t].revision + 1 \in Nat
    BY <1>3, <2>1 DEF TaskRow
  <2> DEFINE row == [task[t] EXCEPT !.revision = @ + 1]
  <2>3. row \in TaskRow
    BY <2>1, <2>2 DEF TaskRow
  <2>4. [row EXCEPT !.snapshot = kept] \in TaskRow
    <3> HIDE DEF row, kept
    <3> QED  BY <2>2, <2>3 DEF TaskRow
  <2>5. task' = [task EXCEPT ![t] = [row EXCEPT !.snapshot = kept]]
    BY <1>1, <1>2 DEF Commit, StoreTypeOK
  <2> QED
    <3> HIDE DEF row, kept
    <3> QED  BY <1>1, <1>2, <2>4, <2>5 DEF StoreTypeOK
<1>10. epoch' \in [Clocks -> Nat]
  <2>1. epoch' = Ticked(t, 1 + Len(reply.facts) + 1) /\ Len(reply.facts) \in Nat
    BY <1>3, SMTT(30) DEF Commit
  <2> QED  BY <1>1, <1>2, <2>1, TickedIsTyped
<1>11. provenance' \subseteq [request: Requests, evidence: MessageIds, kind: {"supports"}]
  <2>1. \A ref \in reply.provenance : ref.kind = "supports" /\ ref.evidence \in MessageIds
    BY <1>3 DEF Commit, ValidProvenance
  <2>2. provenance' = provenance \cup
          {[request |-> r, evidence |-> ref.evidence, kind |-> ref.kind] :
             ref \in reply.provenance}
    BY <1>1, Zenon DEF Commit
  <2>3. provenance \subseteq [request: Requests, evidence: MessageIds, kind: {"supports"}]
    BY <1>1 DEF JournalTypeOK
  <2> QED  BY <2>1, <2>2, <2>3
<1>12. StoreTypeOK'
  BY <1>1, <1>7, <1>8, <1>9, <1>10 DEF Commit, StoreTypeOK
<1> QED  BY <1>6, <1>11, <1>12 DEF Commit, TypeOK, JournalTypeOK, IsTable, Begun

LEMMA StartToolIsTyped ==
  ASSUME TypeOK, NEW r \in Requests, NEW g \in Generations, NEW c \in Calls, NEW args \in Args,
         StartTool(r, g, c, args)
  PROVE  TypeOK'
<1> DEFINE intent == [status |-> "started", args |-> args, result |-> NoResult, evidence |-> 0]
<1>1. intent \in ToolRow
  BY StoreAssumption DEF ToolRow
<1>2. tool' = Put(tool, <<r, c>>, intent) /\ <<r, c>> \in Requests \X Calls
  BY DEF StartTool
<1>3. IsTable(tool, Requests \X Calls)' /\ \A x \in DOMAIN tool' : tool'[x] \in ToolRow
  <2> HIDE DEF intent
  <2> QED  BY <1>1, <1>2 DEF TypeOK, JournalTypeOK, Put, IsTable
<1>4. StoreTypeOK'
  BY DEF StartTool, TypeOK, StoreTypeOK, storeVars
<1> QED  BY <1>3, <1>4 DEF StartTool, TypeOK, JournalTypeOK, IsTable, Begun

LEMMA ActionEligibleIsTyped ==
  ASSUME TypeOK, NEW r \in Requests, NEW g \in Generations, NEW c \in Calls, NEW ttl \in Ttls,
         ActionEligible(r, g, c, ttl)
  PROVE  TypeOK'
<1>1. tool[<<r, c>>].args \in Args
  BY DEF ActionEligible, TypeOK, JournalTypeOK, ToolRow
<1>2. now + ttl \in Nat
  BY JournalAssumption DEF TypeOK, JournalTypeOK, Times
<1>3. NewLease(r, g, c, ttl) \in Lease
  BY <1>1, <1>2 DEF NewLease, Lease
<1>4. StoreTypeOK'
  BY DEF ActionEligible, TypeOK, StoreTypeOK, storeVars
<1> QED  BY <1>3, <1>4 DEF ActionEligible, TypeOK, JournalTypeOK, IsTable, Begun

LEMMA RecordResultIsTyped ==
  ASSUME TypeOK, NEW r \in Requests, NEW g \in Generations, NEW c \in Calls, NEW x \in Results,
         RecordResult(r, g, c, x)
  PROVE  TypeOK'
<1> DEFINE t == turn[r].input.task
           key == <<r, c>>
<1>1. t \in TaskIds
  <2>1. turn[r].input \in Inputs
    BY DEF RecordResult, Pending, TypeOK, JournalTypeOK, IsTurn, TurnRow
  <2> QED  BY <2>1, InputIsTyped
<1>2. /\ message' \subseteq Message /\ IsFiniteSet(message')
      /\ nextMessage' \in 1..(MaxMessages + 1) /\ nextMessage \in MessageIds
  BY <1>1, JournaledMessage DEF RecordResult, Roles, TypeOK
<1>3. epoch' \in [Clocks -> Nat]
  BY <1>1, TickedIsTyped DEF RecordResult, TypeOK
<1>4. StoreTypeOK'
  BY <1>2, <1>3 DEF RecordResult, TypeOK, StoreTypeOK
<1> DEFINE done == [tool[key] EXCEPT !.status = "completed", !.result = x, !.evidence = nextMessage]
<1>5. key \in DOMAIN tool /\ tool[key] \in ToolRow
  BY DEF RecordResult, TypeOK, JournalTypeOK
<1>6. done \in ToolRow
  <2>1. nextMessage \in 0..MaxMessages
    BY <1>2, StoreAssumption DEF MessageIds
  <2>2. \A row \in ToolRow : [row EXCEPT !.status = "completed", !.result = x] \in ToolRow
    BY DEF ToolRow
  <2>3. \A row \in ToolRow : [row EXCEPT !.evidence = nextMessage] \in ToolRow
    BY <2>1 DEF ToolRow
  <2> QED  BY <1>5, <2>2, <2>3
<1>7. tool' = [tool EXCEPT ![key] = done]
  BY DEF RecordResult
<1>8. IsTable(tool, Requests \X Calls)' /\ \A y \in DOMAIN tool' : tool'[y] \in ToolRow
  <2> HIDE DEF key, done
  <2> QED  BY <1>5, <1>6, <1>7 DEF TypeOK, JournalTypeOK, IsTable
<1>9. IsTable(basis, Requests \X Clocks)' /\ \A y \in DOMAIN basis' : basis'[y] \in Nat
  <2>1. /\ IsTable(basis, Requests \X Clocks) /\ \A y \in DOMAIN basis : basis[y] \in Nat
        /\ basis' = AdvancedBasis(r, t, 1)
    BY DEF RecordResult, TypeOK, JournalTypeOK
  <2> QED  BY <2>1 DEF AdvancedBasis, IsTable
<1> QED  BY <1>4, <1>8, <1>9 DEF RecordResult, TypeOK, JournalTypeOK, IsTable, Begun

LEMMA RecordModelRequestIsTyped ==
  ASSUME TypeOK, NEW r \in Requests, NEW g \in Generations, NEW c \in Calls, NEW p \in Payloads,
         RecordModelRequest(r, g, c, p)
  PROVE  TypeOK'
<1>1. /\ IsTable(modelCall, Requests \X Calls)'
      /\ \A x \in DOMAIN modelCall' : modelCall'[x] \in Payloads
  BY DEF RecordModelRequest, TypeOK, JournalTypeOK, Put, IsTable
<1>2. StoreTypeOK'
  BY DEF RecordModelRequest, TypeOK, StoreTypeOK, storeVars
<1> QED  BY <1>1, <1>2 DEF RecordModelRequest, TypeOK, JournalTypeOK, IsTable, Begun

LEMMA RecordModelResponseIsTyped ==
  ASSUME TypeOK, NEW r \in Requests, NEW g \in Generations, NEW c \in Calls, NEW y \in Responses,
         RecordModelResponse(r, g, c, y)
  PROVE  TypeOK'
<1>1. /\ IsTable(modelResponse, Requests \X Calls)'
      /\ \A x \in DOMAIN modelResponse' : modelResponse'[x] \in Responses
  BY DEF RecordModelResponse, TypeOK, JournalTypeOK, Put, IsTable
<1>2. StoreTypeOK'
  BY DEF RecordModelResponse, TypeOK, StoreTypeOK, storeVars
<1> QED  BY <1>1, <1>2 DEF RecordModelResponse, TypeOK, JournalTypeOK, IsTable, Begun

LEMMA RetentionPlanIsTyped ==
  ASSUME TypeOK, NEW o \in Operators, NEW cutoff \in Times, RetentionPlan(o, cutoff)
  PROVE  TypeOK'
<1>1. JournalTypeOK'
  BY DEF RetentionPlan, TypeOK, JournalTypeOK, IsTable, Begun, journalVars
<1>2. StoreTypeOK'
  BY DEF RetentionPlan, TypeOK, StoreTypeOK, storeVars
<1> QED  BY <1>1, <1>2 DEF TypeOK

LEMMA ApplyRetentionIsTyped ==
  ASSUME TypeOK, NEW o \in Operators, ApplyRetention(o)
  PROVE  TypeOK'
<1> DEFINE ids == Eligible(plan[o].cutoff)
<1>1. JournalTypeOK
  BY DEF TypeOK
<1>2. IsTable(turn, Requests)' /\ \A q \in Begun' : IsTurn(turn[q])'
  <2>1. turn' = [q \in DOMAIN turn \ ids |-> turn[q]]
    BY DEF ApplyRetention, Begun
  <2> HIDE DEF ids
  <2>2. \A q \in Begun' : turn'[q] = turn[q] /\ q \in Begun
    BY <2>1 DEF Begun
  <2>3. IsTable(turn, Requests)'
    BY <1>1, <2>1 DEF JournalTypeOK, IsTable
  <2>4. \A q \in Begun' : IsTurn(turn[q])'
    BY <1>1, <2>2 DEF JournalTypeOK, IsTurn, TurnRow, Package
  <2> QED  BY <2>3, <2>4
<1>3. /\ IsTable(tool, Requests \X Calls)'
      /\ \A x \in DOMAIN tool' : tool'[x] \in ToolRow
  BY <1>1 DEF ApplyRetention, Without, JournalTypeOK, IsTable
<1>4. /\ IsTable(modelCall, Requests \X Calls)'
      /\ \A x \in DOMAIN modelCall' : modelCall'[x] \in Payloads
  BY <1>1 DEF ApplyRetention, Without, JournalTypeOK, IsTable
<1>5. /\ IsTable(modelResponse, Requests \X Calls)'
      /\ \A x \in DOMAIN modelResponse' : modelResponse'[x] \in Responses
  BY <1>1 DEF ApplyRetention, Without, JournalTypeOK, IsTable
<1>6. /\ IsTable(basis, Requests \X Clocks)'
      /\ \A x \in DOMAIN basis' : basis'[x] \in Nat
  BY <1>1 DEF ApplyRetention, Without, JournalTypeOK, IsTable
<1>7. /\ provenance' \subseteq [request: Requests, evidence: MessageIds, kind: {"supports"}]
      /\ lease' \subseteq Lease
  BY <1>1 DEF ApplyRetention, JournalTypeOK
<1>8. tombstone' \subseteq [request: Requests, input: Inputs, status: {"committed", "aborted"}]
  <2>1. ASSUME NEW r \in ids
        PROVE  /\ r \in Requests /\ turn[r].input \in Inputs
               /\ turn[r].status \in {"committed", "aborted"}
    BY <1>1 DEF Eligible, JournalTypeOK, IsTable, Begun, IsTurn, TurnRow
  <2> QED
    <3>1. tombstone' = tombstone \cup
            {[request |-> r, input |-> turn[r].input, status |-> turn[r].status] :
               r \in ids \ Retired}
      BY DEF ApplyRetention
    <3> HIDE DEF ids
    <3> QED  BY <1>1, <2>1, <3>1 DEF JournalTypeOK
<1>9. StoreTypeOK'
  BY DEF ApplyRetention, TypeOK, StoreTypeOK, storeVars
<1> QED
  BY <1>1, <1>2, <1>3, <1>4, <1>5, <1>6, <1>7, <1>8, <1>9
  DEF ApplyRetention, TypeOK, JournalTypeOK

LEMMA TickIsTyped ==
  ASSUME TypeOK, Tick
  PROVE  TypeOK'
<1>1. now' \in Times
  BY JournalAssumption DEF Tick, Times, TypeOK, JournalTypeOK
<1> QED
  BY <1>1 DEF Tick, TypeOK, StoreTypeOK, storeVars, JournalTypeOK, IsTable, Begun, journalVars

LEMMA StutteringIsTyped ==
  ASSUME TypeOK, UNCHANGED vars
  PROVE  TypeOK'
BY DEF vars, TypeOK, StoreTypeOK, storeVars, JournalTypeOK, IsTable, Begun, journalVars

LEMMA InitIsTyped == Init => TypeOK
<1> SUFFICES ASSUME Init PROVE TypeOK
  OBVIOUS
<1>1. StoreTypeOK
  <2>1. NoTask \in TaskRow
    BY StoreAssumption DEF NoTask, TaskRow
  <2>2. 0 \in Clocks
    BY StoreAssumption DEF Clocks
  <2> QED  BY <2>1, <2>2, FS_EmptySet, StoreAssumption DEF Init, StoreInit, StoreTypeOK
<1>2. JournalTypeOK
  BY JournalAssumption DEF Init, JournalTypeOK, IsTable, Begun, Times
<1> QED  BY <1>1, <1>2 DEF TypeOK

LEMMA NextIsTyped ==
  ASSUME TypeOK, [Next]_vars
  PROVE  TypeOK'
<1>1. CASE StoreWrite
  BY <1>1, StoreWriteIsTyped
<1>2. ASSUME NEW r \in Requests, NEW i \in Inputs, Begin(r, i)
      PROVE  TypeOK'
  BY <1>2, BeginIsTyped
<1>3. ASSUME NEW r \in Requests, NEW g \in Generations, Recover(r, g)
      PROVE  TypeOK'
  BY <1>3, RecoverIsTyped
<1>4. ASSUME NEW r \in Requests, NEW g \in Generations, NEW y \in Replies, Commit(r, g, y)
      PROVE  TypeOK'
  BY <1>4, CommitIsTyped
<1>5. ASSUME NEW r \in Requests, NEW g \in Generations, Abort(r, g)
      PROVE  TypeOK'
  BY <1>5, AbortIsTyped
<1>6. ASSUME NEW r \in Requests, NEW g \in Generations, NEW c \in Calls, NEW a \in Args,
             StartTool(r, g, c, a)
      PROVE  TypeOK'
  BY <1>6, StartToolIsTyped
<1>7. ASSUME NEW r \in Requests, NEW g \in Generations, NEW c \in Calls, NEW l \in Ttls,
             ActionEligible(r, g, c, l)
      PROVE  TypeOK'
  BY <1>7, ActionEligibleIsTyped
<1>8. ASSUME NEW r \in Requests, NEW g \in Generations, NEW c \in Calls, NEW x \in Results,
             FinishTool(r, g, c, x) \/ \E l \in lease : FinishToolUnderLease(r, g, c, x, l)
      PROVE  TypeOK'
  BY <1>8, RecordResultIsTyped DEF FinishTool, FinishToolUnderLease
<1>9. ASSUME NEW r \in Requests, NEW g \in Generations, NEW c \in Calls, NEW p \in Payloads,
             RecordModelRequest(r, g, c, p)
      PROVE  TypeOK'
  BY <1>9, RecordModelRequestIsTyped
<1>10. ASSUME NEW r \in Requests, NEW g \in Generations, NEW c \in Calls, NEW y \in Responses,
              RecordModelResponse(r, g, c, y)
       PROVE  TypeOK'
  BY <1>10, RecordModelResponseIsTyped
<1>11. ASSUME NEW o \in Operators, NEW n \in Times, RetentionPlan(o, n)
       PROVE  TypeOK'
  BY <1>11, RetentionPlanIsTyped
<1>12. ASSUME NEW o \in Operators, ApplyRetention(o)
       PROVE  TypeOK'
  BY <1>12, ApplyRetentionIsTyped
<1>13. CASE Tick
  BY <1>13, TickIsTyped
<1>14. CASE UNCHANGED vars
  BY <1>14, StutteringIsTyped
<1> QED
  BY <1>1, <1>2, <1>3, <1>4, <1>5, <1>6, <1>7, <1>8, <1>9, <1>10, <1>11, <1>12, <1>13,
     <1>14, Zenon DEF Next

\* Every table of the store and of the journal holds rows of its type, and only
\* supporting provenance is ever stored (validateProvenance refuses the rest).
THEOREM Typed == Spec => []TypeOK
<1>1. TypeOK /\ [Next]_vars => TypeOK'
  BY NextIsTyped
<1> QED  BY InitIsTyped, <1>1, PTL DEF Spec

-----------------------------------------------------------------------------
(* What a step may do to the turns.                                        *)

\* A turn that is there keeps what it was asked and what it was packed with, one
\* that has ended never changes again; a turn appears by Begin alone and is committed
\* by Commit alone.
LEMMA TurnStep ==
  ASSUME TypeOK, [Next]_vars
  PROVE  /\ \A r \in Begun \cap Begun' :
              /\ turn'[r].input = turn[r].input
              /\ turn'[r].package = turn[r].package
              /\ turn'[r].revision = turn[r].revision
              /\ turn[r].status # "pending" => turn'[r] = turn[r]
              /\ Commits(r) => \E g \in Generations, y \in Replies : Commit(r, g, y)
         /\ \A r \in Begun' \ Begun : \E i \in Inputs : Begin(r, i)
<1> DEFINE Kept == turn' = turn
           Goal == /\ \A r \in Begun \cap Begun' :
                        /\ turn'[r].input = turn[r].input
                        /\ turn'[r].package = turn[r].package
                        /\ turn'[r].revision = turn[r].revision
                        /\ turn[r].status # "pending" => turn'[r] = turn[r]
                        /\ Commits(r) => \E g \in Generations, y \in Replies : Commit(r, g, y)
                   /\ \A r \in Begun' \ Begun : \E i \in Inputs : Begin(r, i)
<1>1. Kept => Goal
  BY DEF Begun, Commits
<1>2. CASE StoreWrite \/ Tick \/ UNCHANGED vars
  <2>1. Kept
    BY <1>2 DEF StoreWrite, Tick, vars, journalVars
  <2> QED  BY <1>1, <2>1
<1>3. ASSUME NEW r \in Requests, NEW i \in Inputs, Begin(r, i)
      PROVE  Goal
  <2>1. Begun' = Begun \cup {r} /\ r \notin Begun /\ \A q \in Begun : turn'[q] = turn[q]
    BY <1>3 DEF Begin, Put, Begun
  <2> QED  BY <1>3, <2>1 DEF Commits
<1>4. ASSUME NEW r \in Requests, NEW g \in Generations, Recover(r, g)
      PROVE  Goal
  BY <1>4 DEF Recover, Pending, Begun, Commits, TypeOK, JournalTypeOK, IsTurn, TurnRow
<1>5. ASSUME NEW r \in Requests, NEW g \in Generations, NEW y \in Replies, Commit(r, g, y)
      PROVE  Goal
  <2>1. /\ r \in Begun /\ turn[r].status = "pending" /\ IsTurn(turn[r])
        /\ turn' = [turn EXCEPT ![r].status = "committed", ![r].reply = y, ![r].updated = now]
    BY <1>5 DEF Commit, Pending, TypeOK, JournalTypeOK
  <2> QED  BY <1>5, <2>1 DEF Begun, IsTurn, TurnRow, Commits
<1>6. ASSUME NEW r \in Requests, NEW g \in Generations, Abort(r, g)
      PROVE  Goal
  BY <1>6 DEF Abort, Pending, Begun, Commits, TypeOK, JournalTypeOK, IsTurn, TurnRow
<1>7. ASSUME NEW r \in Requests, NEW g \in Generations, NEW c \in Calls,
             \/ \E a \in Args : StartTool(r, g, c, a)
             \/ \E l \in Ttls : ActionEligible(r, g, c, l)
             \/ \E x \in Results : FinishTool(r, g, c, x)
             \/ \E x \in Results, l \in lease : FinishToolUnderLease(r, g, c, x, l)
             \/ \E p \in Payloads : RecordModelRequest(r, g, c, p)
             \/ \E x \in Responses : RecordModelResponse(r, g, c, x)
      PROVE  Goal
  <2>1. Kept
    BY <1>7 DEF StartTool, ActionEligible, FinishTool, FinishToolUnderLease, RecordResult,
                RecordModelRequest, RecordModelResponse
  <2> QED  BY <1>1, <2>1
<1>8. ASSUME NEW o \in Operators, \E n \in Times : RetentionPlan(o, n)
      PROVE  Goal
  <2>1. Kept
    BY <1>8 DEF RetentionPlan, journalVars
  <2> QED  BY <1>1, <2>1
<1>9. ASSUME NEW o \in Operators, ApplyRetention(o)
      PROVE  Goal
  BY <1>9 DEF ApplyRetention, Begun, Commits
<1> QED
  BY <1>2, <1>3, <1>4, <1>5, <1>6, <1>7, <1>8, <1>9, Zenon DEF Next

-----------------------------------------------------------------------------
(* One unfinished turn per task.                                           *)

\* The busy check of Begin (and cmp_one_pending_turn) holds through every recovery,
\* commit, abort and retirement: a task never has two unfinished turns.
THEOREM OnePending == Spec => []OnePendingPerTask
<1>1. Init => OnePendingPerTask
  BY DEF Init, OnePendingPerTask, Begun
<1>2. ASSUME TypeOK, OnePendingPerTask, [Next]_vars
      PROVE  OnePendingPerTask'
  <2> SUFFICES ASSUME NEW q \in Begun', NEW r \in Begun', q # r,
                      turn'[q].status = "pending", turn'[r].status = "pending",
                      turn'[q].input.task = turn'[r].input.task
               PROVE  FALSE
    BY DEF OnePendingPerTask
  <2>1. ASSUME NEW x \in Begun', NEW y \in Begun', x # y, x \notin Begun,
               turn'[y].status = "pending", turn'[x].input.task = turn'[y].input.task
        PROVE  FALSE
    <3>1. PICK i \in Inputs : Begin(x, i)
      BY <1>2, <2>1, TurnStep
    <3>2. turn'[x].input = i /\ ~Busy(i.task) /\ y \in Begun /\ turn'[y] = turn[y]
      BY <2>1, <3>1 DEF Begin, Put, Begun
    <3> QED  BY <2>1, <3>2 DEF Busy
  <2>2. q \in Begun /\ r \in Begun
    BY <2>1
  <2>3. /\ turn[q].status = "pending" /\ turn[r].status = "pending"
        /\ turn[q].input.task = turn[r].input.task
    BY <1>2, <2>2, TurnStep
  <2> QED  BY <1>2, <2>2, <2>3 DEF OnePendingPerTask
<1> QED  BY <1>1, <1>2, Typed, PTL DEF Spec

-----------------------------------------------------------------------------
(* Tool intents.                                                           *)

\* What a step may do to the tool calls: an intent keeps its arguments and is never
\* reopened, appears while its turn is unfinished, and leaves only when its whole
\* turn is retired, which a turn with an open intent is not.
LEMMA ToolStep ==
  ASSUME TypeOK, [Next]_vars
  PROVE  /\ \A x \in DOMAIN tool \cap DOMAIN tool' :
              /\ tool'[x].args = tool[x].args
              /\ tool'[x].status = "started" => tool[x].status = "started"
         /\ \A x \in DOMAIN tool' \ DOMAIN tool :
              /\ x[1] \in Begun /\ turn[x[1]].status = "pending"
              /\ turn' = turn
         /\ \A x \in DOMAIN tool \ DOMAIN tool' : ~HasStartedTool(x[1])
         /\ \A r \in Begun \ Begun' : ~HasStartedTool(r)
<1> DEFINE Kept == tool' = tool
           Goal ==
             /\ \A x \in DOMAIN tool \cap DOMAIN tool' :
                  /\ tool'[x].args = tool[x].args
                  /\ tool'[x].status = "started" => tool[x].status = "started"
             /\ \A x \in DOMAIN tool' \ DOMAIN tool :
                  /\ x[1] \in Begun /\ turn[x[1]].status = "pending"
                  /\ turn' = turn
             /\ \A x \in DOMAIN tool \ DOMAIN tool' : ~HasStartedTool(x[1])
             /\ \A r \in Begun \ Begun' : ~HasStartedTool(r)
<1>1. Kept /\ Begun \subseteq Begun' => Goal
  OBVIOUS
<1>2. CASE StoreWrite \/ Tick \/ UNCHANGED vars
  <2>1. Kept /\ Begun \subseteq Begun'
    BY <1>2 DEF StoreWrite, Tick, vars, journalVars, Begun
  <2> QED  BY <1>1, <2>1
<1>3. ASSUME NEW r \in Requests, NEW i \in Inputs, Begin(r, i)
      PROVE  Goal
  <2>1. Kept /\ Begun \subseteq Begun'
    BY <1>3 DEF Begin, Put, Begun
  <2> QED  BY <1>1, <2>1
<1>4. ASSUME NEW r \in Requests, NEW g \in Generations,
             Recover(r, g) \/ Abort(r, g) \/ \E y \in Replies : Commit(r, g, y)
      PROVE  Goal
  <2>1. Kept /\ Begun \subseteq Begun'
    BY <1>4 DEF Recover, Abort, Commit, Begun
  <2> QED  BY <1>1, <2>1
<1>5. ASSUME NEW r \in Requests, NEW g \in Generations, NEW c \in Calls, NEW a \in Args,
             StartTool(r, g, c, a)
      PROVE  Goal
  <2>1. /\ DOMAIN tool' = DOMAIN tool \cup {<<r, c>>} /\ <<r, c>> \notin DOMAIN tool
        /\ \A x \in DOMAIN tool : tool'[x] = tool[x]
        /\ turn' = turn /\ r \in Begun /\ turn[r].status = "pending"
    BY <1>5 DEF StartTool, Put, Pending
  <2> QED  BY <2>1 DEF Begun
<1>6. ASSUME NEW r \in Requests, NEW g \in Generations, NEW c \in Calls,
             \/ \E l \in Ttls : ActionEligible(r, g, c, l)
             \/ \E p \in Payloads : RecordModelRequest(r, g, c, p)
             \/ \E x \in Responses : RecordModelResponse(r, g, c, x)
      PROVE  Goal
  <2>1. Kept /\ Begun \subseteq Begun'
    BY <1>6 DEF ActionEligible, RecordModelRequest, RecordModelResponse, Begun
  <2> QED  BY <1>1, <2>1
<1>7. ASSUME NEW r \in Requests, NEW g \in Generations, NEW c \in Calls, NEW x \in Results,
             RecordResult(r, g, c, x)
      PROVE  Goal
  <2>1. /\ <<r, c>> \in DOMAIN tool /\ tool[<<r, c>>] \in ToolRow
        /\ tool[<<r, c>>].status = "started" /\ turn' = turn
        /\ tool' = [tool EXCEPT ![<<r, c>>] =
                      [@ EXCEPT !.status = "completed", !.result = x, !.evidence = nextMessage]]
    BY <1>7 DEF RecordResult, TypeOK, JournalTypeOK
  <2> QED  BY <2>1 DEF Begun, ToolRow
<1>8. ASSUME NEW o \in Operators, \E n \in Times : RetentionPlan(o, n)
      PROVE  Goal
  <2>1. Kept /\ Begun \subseteq Begun'
    BY <1>8 DEF RetentionPlan, journalVars, Begun
  <2> QED  BY <1>1, <2>1
<1>9. ASSUME NEW o \in Operators, ApplyRetention(o)
      PROVE  Goal
  <2>1. tool' = Without(tool, Eligible(plan[o].cutoff))
    BY <1>9 DEF ApplyRetention
  <2>2. Begun' = Begun \ Eligible(plan[o].cutoff)
    BY <1>9 DEF ApplyRetention, Begun
  <2>3. \A r \in Eligible(plan[o].cutoff) : ~HasStartedTool(r)
    BY DEF Eligible
  <2> QED  BY <2>1, <2>2, <2>3 DEF Without
<1> QED
  BY <1>2, <1>3, <1>4, <1>5, <1>6, <1>7, <1>8, <1>9, Zenon
  DEF Next, FinishTool, FinishToolUnderLease

\* The key of an open intent is an open intent of its request.
LEMMA OpenIntent ==
  ASSUME TypeOK, NEW x \in DOMAIN tool, tool[x].status = "started"
  PROVE  HasStartedTool(x[1])
<1>1. x[2] \in Calls /\ x = <<x[1], x[2]>>
  BY DEF TypeOK, JournalTypeOK, IsTable
<1> QED  BY <1>1 DEF HasStartedTool

\* No commit goes past an open intent, no intent is opened behind a commit, and the
\* turn of an open intent is never retired (indeterminate_tool).
THEOREM CommittedTools == Spec => []CommittedToolsAreResolved
<1>1. Init => CommittedToolsAreResolved
  BY DEF Init, CommittedToolsAreResolved
<1>2. ASSUME TypeOK, CommittedToolsAreResolved, [Next]_vars
      PROVE  CommittedToolsAreResolved'
  <2> SUFFICES ASSUME NEW x \in DOMAIN tool', tool'[x].status = "started"
               PROVE  x[1] \in Begun' /\ turn'[x[1]].status # "committed"
    BY DEF CommittedToolsAreResolved
  <2>1. CASE x \notin DOMAIN tool
    BY <1>2, <2>1, ToolStep DEF Begun
  <2>2. CASE x \in DOMAIN tool
    <3>1. tool[x].status = "started"
      BY <1>2, <2>2, ToolStep
    <3>2. HasStartedTool(x[1])
      BY <1>2, <2>2, <3>1, OpenIntent
    <3>3. x[1] \in Begun /\ turn[x[1]].status # "committed"
      BY <1>2, <2>2, <3>1 DEF CommittedToolsAreResolved
    <3>4. x[1] \in Begun'
      BY <1>2, <3>2, <3>3, ToolStep
    <3>5. ~Commits(x[1])
      BY <1>2, <3>2, <3>3, <3>4, TurnStep DEF Commit
    <3>6. CASE turn[x[1]].status = "pending"
      BY <3>4, <3>5, <3>6 DEF Commits
    <3>7. CASE turn[x[1]].status # "pending"
      BY <1>2, <3>3, <3>4, <3>7, TurnStep
    <3> QED  BY <3>4, <3>6, <3>7
  <2> QED  BY <2>1, <2>2
<1> QED  BY <1>1, <1>2, Typed, PTL DEF Spec

\* An intent without a result is never forgotten nor changed, by retention or by
\* anything else (ProtectedUnresolved).
THEOREM UnresolvedTools == Spec => UnresolvedToolSurvives
<1>1. ASSUME TypeOK, [Next]_vars
      PROVE  [\A x \in DOMAIN tool : tool[x].status = "started"
                => x \in DOMAIN tool' /\ tool'[x].args = tool[x].args]_vars
  BY <1>1, ToolStep, OpenIntent
<1> QED  BY <1>1, Typed, PTL DEF Spec, UnresolvedToolSurvives

-----------------------------------------------------------------------------
(* The journal of an ended turn.                                           *)

\* The rows of a request are the same when no row of it was added, removed or
\* changed.
LEMMA SameRows ==
  ASSUME NEW old, NEW new, NEW r,
         {x \in DOMAIN new : x[1] = r} = {x \in DOMAIN old : x[1] = r},
         \A x \in DOMAIN old : x[1] = r => new[x] = old[x]
  PROVE  RowsOf(new, r) = RowsOf(old, r)
BY DEF RowsOf

LEMMA PutElsewhere ==
  ASSUME NEW table, NEW q, NEW c, NEW row, NEW r, q # r
  PROVE  RowsOf(Put(table, <<q, c>>, row), r) = RowsOf(table, r)
BY SameRows DEF Put

LEMMA WithoutOthers ==
  ASSUME NEW table, NEW ids, NEW r, r \notin ids
  PROVE  RowsOf(Without(table, ids), r) = RowsOf(table, r)
BY SameRows DEF Without

\* A worker that was fenced off, a late model response and a late tool result find
\* the turn ended and add nothing to it, nor does any other step.
THEOREM EndedJournal == Spec => EndedJournalIsFrozen
<1>1. ASSUME TypeOK, [Next]_vars, NEW r \in Begun \cap Begun', Ended(r)
      PROVE  JournalRows(r)' = JournalRows(r)
  <2> DEFINE Same == JournalRows(r)' = JournalRows(r)
  <2>1. turn'[r] = turn[r]
    BY <1>1, TurnStep DEF Ended
  <2>2. CASE StoreWrite \/ Tick \/ UNCHANGED vars \/ \E o \in Operators, n \in Times : RetentionPlan(o, n)
    BY <2>2 DEF StoreWrite, Tick, vars, journalVars, RetentionPlan, JournalRows, RowsOf
  <2>3. ASSUME NEW q \in Requests, NEW i \in Inputs, Begin(q, i)
        PROVE  Same
    <3>1. q # r
      BY <2>3, <1>1 DEF Begin
    <3>2. RowsOf(basis, r)' = RowsOf(basis, r)
      BY <2>3, <3>1, SameRows DEF Begin
    <3> QED  BY <2>1, <2>3, <3>2 DEF Begin, JournalRows, RowsOf
  <2>4. ASSUME NEW q \in Requests, NEW g \in Generations,
               Recover(q, g) \/ Abort(q, g) \/ \E y \in Replies : Commit(q, g, y)
        PROVE  Same
    <3>1. q # r
      BY <2>4, <1>1 DEF Ended, Recover, Abort, Commit, Pending
    <3>2. {p \in provenance' : p.request = r} = {p \in provenance : p.request = r}
      <4>1. CASE provenance' = provenance
        BY <4>1
      <4>2. ASSUME NEW y \in Replies, Commit(q, g, y)
            PROVE  {p \in provenance' : p.request = r} = {p \in provenance : p.request = r}
        <5>1. provenance' = provenance \cup
                {[request |-> q, evidence |-> ref.evidence, kind |-> ref.kind] :
                   ref \in y.provenance}
          BY <4>2, Zenon DEF Commit
        <5> QED  BY <3>1, <5>1
      <4> QED  BY <2>4, <4>1, <4>2 DEF Recover, Abort
    <3> QED  BY <2>1, <2>4, <3>2 DEF Recover, Abort, Commit, JournalRows, RowsOf
  <2>5. ASSUME NEW q \in Requests, NEW g \in Generations, NEW c \in Calls, NEW a \in Args,
               StartTool(q, g, c, a)
        PROVE  Same
    <3>1. q # r
      BY <2>5, <1>1 DEF Ended, StartTool, Pending
    <3>2. RowsOf(tool, r)' = RowsOf(tool, r)
      BY <2>5, <3>1, PutElsewhere DEF StartTool
    <3> QED  BY <2>1, <2>5, <3>2 DEF StartTool, JournalRows, RowsOf
  <2>6. ASSUME NEW q \in Requests, NEW g \in Generations, NEW c \in Calls, NEW l \in Ttls,
               ActionEligible(q, g, c, l)
        PROVE  Same
    <3>1. q # r
      BY <2>6, <1>1 DEF Ended, ActionEligible, Pending
    <3>2. {x \in lease' : x.request = r} = {x \in lease : x.request = r}
      BY <2>6, <3>1 DEF ActionEligible, NewLease
    <3> QED  BY <2>1, <2>6, <3>2 DEF ActionEligible, JournalRows, RowsOf
  <2>7. ASSUME NEW q \in Requests, NEW g \in Generations, NEW c \in Calls, NEW x \in Results,
               RecordResult(q, g, c, x)
        PROVE  Same
    <3>1. q # r
      BY <2>7, <1>1 DEF Ended, RecordResult, Pending
    <3>2. RowsOf(tool, r)' = RowsOf(tool, r)
      <4> DEFINE done == [tool[<<q, c>>] EXCEPT !.status = "completed", !.result = x,
                                                !.evidence = nextMessage]
      <4>1. tool' = [tool EXCEPT ![<<q, c>>] = done]
        BY <2>7 DEF RecordResult
      <4> HIDE DEF done
      <4>2. \A y : y[1] = r => y # <<q, c>>
        BY <3>1
      <4>3. DOMAIN tool' = DOMAIN tool /\ \A y \in DOMAIN tool : y[1] = r => tool'[y] = tool[y]
        BY <4>1, <4>2
      <4> QED  BY <4>3, SameRows
    <3>3. RowsOf(basis, r)' = RowsOf(basis, r)
      BY <2>7, <3>1, SameRows DEF RecordResult, AdvancedBasis
    <3> QED  BY <2>1, <2>7, <3>2, <3>3 DEF RecordResult, JournalRows, RowsOf
  <2>8. ASSUME NEW q \in Requests, NEW g \in Generations, NEW c \in Calls, NEW p \in Payloads,
               RecordModelRequest(q, g, c, p)
        PROVE  Same
    <3>1. q # r
      BY <2>8, <1>1 DEF Ended, RecordModelRequest, Pending
    <3>2. RowsOf(modelCall, r)' = RowsOf(modelCall, r)
      BY <2>8, <3>1, PutElsewhere DEF RecordModelRequest
    <3> QED  BY <2>1, <2>8, <3>2 DEF RecordModelRequest, JournalRows, RowsOf
  <2>9. ASSUME NEW q \in Requests, NEW g \in Generations, NEW c \in Calls, NEW x \in Responses,
               RecordModelResponse(q, g, c, x)
        PROVE  Same
    <3>1. q # r
      BY <2>9, <1>1 DEF Ended, RecordModelResponse, Pending
    <3>2. RowsOf(modelResponse, r)' = RowsOf(modelResponse, r)
      BY <2>9, <3>1, PutElsewhere DEF RecordModelResponse
    <3> QED  BY <2>1, <2>9, <3>2 DEF RecordModelResponse, JournalRows, RowsOf
  <2>10. ASSUME NEW o \in Operators, ApplyRetention(o)
         PROVE  Same
    <3> DEFINE ids == Eligible(plan[o].cutoff)
    <3>1. r \notin ids
      BY <2>10, <1>1 DEF ApplyRetention, Begun
    <3>2. /\ RowsOf(tool, r)' = RowsOf(tool, r)
          /\ RowsOf(modelCall, r)' = RowsOf(modelCall, r)
          /\ RowsOf(modelResponse, r)' = RowsOf(modelResponse, r)
          /\ RowsOf(basis, r)' = RowsOf(basis, r)
      <4> HIDE DEF ids
      <4>1. /\ tool' = Without(tool, ids) /\ modelCall' = Without(modelCall, ids)
            /\ modelResponse' = Without(modelResponse, ids) /\ basis' = Without(basis, ids)
        BY <2>10 DEF ApplyRetention, ids
      <4> QED  BY <3>1, <4>1, WithoutOthers
    <3>3. /\ {p \in provenance' : p.request = r} = {p \in provenance : p.request = r}
          /\ {l \in lease' : l.request = r} = {l \in lease : l.request = r}
          /\ {d \in tombstone' : d.request = r} = {d \in tombstone : d.request = r}
      BY <2>10, <3>1 DEF ApplyRetention
    <3> QED  BY <2>1, <3>2, <3>3 DEF JournalRows
  <2> QED
    BY <1>1, <2>2, <2>3, <2>4, <2>5, <2>6, <2>7, <2>8, <2>9, <2>10, Zenon
    DEF Next, FinishTool, FinishToolUnderLease
<1>2. ASSUME TypeOK, [Next]_vars
      PROVE  [\A r \in Begun \cap Begun' : Ended(r) => JournalRows(r)' = JournalRows(r)]_vars
  BY <1>1, <1>2
<1> QED  BY <1>2, Typed, PTL DEF Spec, EndedJournalIsFrozen

=============================================================================
