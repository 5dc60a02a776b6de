----------------------------- MODULE FilesProofs -----------------------------
(***************************************************************************)
(* Proofs about Opening and Publishing, for any number of processes,       *)
(* request IDs, names and files. FilesInv is inductive; the proof takes    *)
(* the steps of openers, of publishers and of others in turn.              *)
(***************************************************************************)
EXTENDS Publishing, TLAPS

\* The steps that change the file at the path, and those of an opener that do not.
FileStep ==
  \/ \E p \in Processes :
       \/ \E lang \in {"go", "python"} : Connect(p, lang)
       \/ CreateBase(p) \/ Rebuild(p) \/ CreateJournal(p)
       \/ \E id \in Ids : Retire(p, id)
  \/ \E id \in Ids \cup {Null} : InsertTurn(id)
LookStep ==
  \E p \in Processes :
    \/ ReadVersion(p) \/ ReadTables(p) \/ Validate(p) \/ Probe(p) \/ CountNulls(p)
    \/ OpenFails(p) \/ CloseDatabase(p)

\* OpenNext is one or the other.
LEMMA OpenNextSplit == OpenNext <=> FileStep \/ LookStep
BY DEF OpenNext, FileStep, LookStep

-----------------------------------------------------------------------------
(* What the transactions make of the file.                                 *)

\* The base schema, created.
LEMMA BaseSchemaMade ==
  ASSUME NEW d \in Database
  PROVE  /\ BaseSchema(d) \in Database
         /\ BaseSchema(d).schema = "base"
         /\ \A f \in {"meta", "turns", "retired", "guards", "rows", "tombs"} :
              BaseSchema(d)[f] = d[f]
         /\ d.schema = "base" => BaseSchema(d) = d
BY DEF BaseSchema, Database, Schemas

\* The journal, created or upgraded.
LEMMA JournalSchemaMade ==
  ASSUME NEW d \in Database
  PROVE  /\ JournalSchema(d) \in Database
         /\ JournalSchema(d).meta = 4 /\ JournalSchema(d).retired
         /\ JournalSchema(d).guards
         /\ JournalSchema(d).turns = (IF d.turns = "none" THEN "notnull" ELSE d.turns)
         /\ \A f \in {"schema", "rows", "tombs"} : JournalSchema(d)[f] = d[f]
<1> DEFINE t == IF d.turns = "none" THEN "notnull" ELSE d.turns
<1>1. t \in {"none", "nullable", "notnull"}
  BY DEF Database
<1>2. JournalSchema(d) =
        [d EXCEPT !.meta = 4, !.turns = t, !.retired = TRUE, !.guards = TRUE]
  BY DEF JournalSchema
<1> HIDE DEF t
<1>3. QED
  <2>0. JournalSchema(d) =
          [schema |-> d.schema, meta |-> 4, turns |-> t, retired |-> TRUE,
           guards |-> TRUE, rows |-> d.rows, tombs |-> d.tombs]
    BY <1>2 DEF Database
  <2>1. /\ JournalSchema(d) \in Database
        /\ JournalSchema(d).meta = 4 /\ JournalSchema(d).retired
        /\ JournalSchema(d).guards /\ JournalSchema(d).turns = t
        /\ \A f \in {"schema", "rows", "tombs"} : JournalSchema(d)[f] = d[f]
    BY <1>1, <2>0 DEF Database
  <2> QED
    BY <2>1 DEF t

\* The table of turns, rebuilt.
LEMMA TableRebuilt ==
  ASSUME NEW d \in Database, NEW e,
         e = [d EXCEPT !.turns = "notnull", !.rows = CopiedRows(d),
                       !.guards = RebuiltGuards(d)]
  PROVE  /\ e \in Database
         /\ e.turns = "notnull" /\ e.guards = d.retired
         /\ \A f \in {"schema", "meta", "retired", "rows", "tombs"} : e[f] = d[f]
BY DEF Database, CopiedRows, RebuiltGuards

\* A turn, moved to its tombstone.
LEMMA TurnRetired ==
  ASSUME NEW d \in Database, NEW id \in Ids, NEW e,
         e = [d EXCEPT !.rows = @ \ {id}, !.tombs = @ \cup {id}]
  PROVE  /\ e \in Database
         /\ e.rows = d.rows \ {id} /\ e.tombs = d.tombs \cup {id}
         /\ \A f \in {"schema", "meta", "turns", "retired", "guards"} : e[f] = d[f]
BY DEF Database

\* A turn, inserted.
LEMMA TurnInserted ==
  ASSUME NEW d \in Database, NEW id \in Ids \cup {Null}, NEW e,
         e = [d EXCEPT !.rows = @ \cup {id}]
  PROVE  /\ e \in Database
         /\ e.rows = d.rows \cup {id}
         /\ \A f \in {"schema", "meta", "turns", "retired", "guards", "tombs"} :
              e[f] = d[f]
BY DEF Database

-----------------------------------------------------------------------------
(* The file.                                                               *)

\* Every step keeps what is true of the file, and of what openers have seen of it.
OpenInv == db \in Database /\ FileOK /\ OpenersOK /\ ServesWholeJournal

\* The processes are where the module knows them to be.
Places == at \in [Processes -> {"out", "connected"} \cup Opens \cup Publishing]
Locals == language \in [Processes -> {"go", "python"}]
          /\ seen \in [Processes -> {"none", "zero", "one", "other"}]

\* The step of an opener that only looks.
LEMMA LookKeepsOpenInv ==
  ASSUME Places, Locals, OpenInv, LookStep
  PROVE  OpenInv' /\ db' = db
<1> USE DEF Places, Locals, OpenInv, OpenersOK, ServesWholeJournal, HasOpened, Move, Opens
<1>0. db' = db
  BY DEF LookStep, ReadVersion, ReadTables, Validate, Probe, CountNulls, OpenFails,
    CloseDatabase
<1>1. db' \in Database /\ FileOK'
  BY <1>0 DEF FileOK, RetiredStaysRetired
<1>2. ASSUME NEW p \in Processes, ReadVersion(p) \/ ReadTables(p)
      PROVE  OpenersOK' /\ ServesWholeJournal'
  BY <1>2, <1>0 DEF ReadVersion, ReadTables, Version, HasTables, Database, Schemas
<1>3. ASSUME NEW p \in Processes, Validate(p)
      PROVE  OpenersOK' /\ ServesWholeJournal'
  <2>1. \/ at'[p] = "out"
        \/ at'[p] = "connected" /\ language[p] = "python"
        \/ /\ at'[p] = "probe" /\ language[p] = "go"
           /\ db.schema = "base" /\ db.meta \in 0..4
    BY <1>3 DEF Validate, KnownMeta
  <2>2. /\ \A q \in Processes \ {p} : at'[q] = at[q]
        /\ UNCHANGED <<language, seen>>
    BY <1>3 DEF Validate
  <2> QED
    BY <2>1, <2>2, <1>0
<1>4. ASSUME NEW p \in Processes, Probe(p) \/ CountNulls(p)
      PROVE  OpenersOK' /\ ServesWholeJournal'
  BY <1>4, <1>0 DEF Probe, CountNulls
<1>5. ASSUME NEW p \in Processes, OpenFails(p) \/ CloseDatabase(p)
      PROVE  OpenersOK' /\ ServesWholeJournal'
  BY <1>5, <1>0 DEF OpenFails, CloseDatabase
<1> QED
  BY <1>0, <1>1, <1>2, <1>3, <1>4, <1>5 DEF LookStep

\* What a step may do to the file: it stays accepted, keeps its turns, and loses
\* nothing that an opener or an engine counts on.
FileGrows ==
  /\ db' \in Database
  /\ db.schema = "base" => db'.schema = "base"
  /\ db.schema \in {"empty", "base"} => db'.schema \in {"empty", "base"}
  /\ db.meta \in 0..4 => db'.meta \in 0..4
  /\ db.meta = 4 => db'.meta = 4
  /\ db.turns # "none" => db'.turns # "none"
  /\ db.turns # "nullable" => db'.turns # "nullable"
  /\ db.retired /\ db.guards => db'.retired /\ db'.guards

\* Then the processes that stay where they are stay right.
LEMMA GrowthKeepsOthers ==
  ASSUME OpenInv, FileGrows, NEW p \in Processes,
         at'[p] = at[p], language'[p] = language[p], seen'[p] = seen[p]
  PROVE  /\ at'[p] = "tables" /\ seen'[p] = "one" => db'.schema = "base"
         /\ at'[p] = "tables" /\ seen'[p] = "zero" => db'.schema \in {"empty", "base"}
         /\ at'[p] = "base" => db'.schema \in {"empty", "base"}
         /\ at'[p] \in {"probe", "count", "rebuild", "journal"}
              => language'[p] = "go" /\ db'.schema = "base" /\ db'.meta \in 0..4
         /\ at'[p] \in {"count", "rebuild"} => db'.turns # "none"
         /\ at'[p] = "journal" => db'.turns # "nullable"
         /\ HasOpened(p)' /\ language'[p] = "go"
              => /\ db'.schema = "base" /\ db'.meta = 4 /\ db'.turns = "notnull"
                 /\ db'.retired /\ db'.guards
BY DEF OpenInv, OpenersOK, ServesWholeJournal, HasOpened, FileGrows, Database

\* Opening and creating the file.
LEMMA ConnectKeepsOpenInv ==
  ASSUME Places, Locals, OpenInv,
         NEW p \in Processes, NEW lang \in {"go", "python"}, Connect(p, lang)
  PROVE  OpenInv' /\ FileGrows
<1>1. FileGrows /\ FileOK'
  BY DEF Connect, OpenInv, FileOK, FileGrows, RetiredStaysRetired, Database, Schemas
<1>2. at'[p] = "version"
  BY DEF Connect, Move, Places
<1>3. \A q \in Processes \ {p} :
        at'[q] = at[q] /\ language'[q] = language[q] /\ seen'[q] = seen[q]
  BY DEF Connect, Move, Places, Locals
<1>4. OpenersOK' /\ ServesWholeJournal'
  BY <1>1, <1>2, <1>3, GrowthKeepsOthers DEF OpenersOK, ServesWholeJournal, HasOpened, Opens
<1> QED
  BY <1>1, <1>4 DEF OpenInv, FileGrows

\* base.sql, run on the file an opener has found empty, or on what others made of it.
LEMMA CreateBaseKeepsOpenInv ==
  ASSUME Places, Locals, OpenInv, NEW p \in Processes, CreateBase(p)
  PROVE  OpenInv' /\ FileGrows
<1>0. db \in Database /\ db' = BaseSchema(db)
  BY DEF CreateBase, OpenInv
<1>1. FileGrows /\ FileOK'
  BY <1>0, BaseSchemaMade DEF OpenInv, FileOK, FileGrows, RetiredStaysRetired
<1>2. at'[p] = "validate"
  BY DEF CreateBase, Move, Places
<1>3. \A q \in Processes \ {p} :
        at'[q] = at[q] /\ language'[q] = language[q] /\ seen'[q] = seen[q]
  BY DEF CreateBase, Move, Places, Locals
<1>4. OpenersOK' /\ ServesWholeJournal'
  BY <1>1, <1>2, <1>3, GrowthKeepsOthers DEF OpenersOK, ServesWholeJournal, HasOpened, Opens
<1> QED
  BY <1>1, <1>4 DEF OpenInv, FileGrows

\* The rebuild, under whatever others do with the table.
LEMMA RebuildKeepsOpenInv ==
  ASSUME Places, Locals, OpenInv, NEW p \in Processes, Rebuild(p)
  PROVE  OpenInv' /\ FileGrows
<1>0. db \in Database /\ at[p] = "rebuild"
  BY DEF Rebuild, OpenInv, Move
<1>1. FileGrows /\ FileOK'
  <2>1. CASE UNCHANGED db
    BY <2>1 DEF OpenInv, FileOK, FileGrows, RetiredStaysRetired
  <2>2. CASE db' = [db EXCEPT !.turns = "notnull", !.rows = CopiedRows(db),
                              !.guards = RebuiltGuards(db)]
    BY <1>0, <2>2, TableRebuilt, ZenonT(60)
      DEF OpenInv, OpenersOK, FileOK, FileGrows, RetiredStaysRetired, Database
  <2> QED
    BY <2>1, <2>2 DEF Rebuild
<1>2. \/ at'[p] = "out"
      \/ at'[p] = "journal" /\ db'.turns = "notnull" /\ db'.schema = "base"
         /\ db'.meta \in 0..4 /\ language'[p] = "go"
  BY <1>0, <1>1, TableRebuilt, ZenonT(60) DEF Rebuild, Move, Places, OpenInv, OpenersOK, FileGrows
<1>3. \A q \in Processes \ {p} :
        at'[q] = at[q] /\ language'[q] = language[q] /\ seen'[q] = seen[q]
  BY DEF Rebuild, Move, Places, Locals
<1>4. OpenersOK' /\ ServesWholeJournal'
  BY <1>1, <1>2, <1>3, GrowthKeepsOthers DEF OpenersOK, ServesWholeJournal, HasOpened, Opens
<1> QED
  BY <1>1, <1>4 DEF OpenInv, FileGrows

\* journal.sql: the opener is connected, to a whole journal.
LEMMA CreateJournalKeepsOpenInv ==
  ASSUME Places, Locals, OpenInv, NEW p \in Processes, CreateJournal(p)
  PROVE  OpenInv' /\ FileGrows
<1>0. /\ db \in Database /\ db' = JournalSchema(db)
      /\ db.schema = "base" /\ db.turns # "nullable"
  BY DEF CreateJournal, OpenInv, OpenersOK, Move
<1>1. FileGrows /\ FileOK'
  BY <1>0, JournalSchemaMade DEF OpenInv, FileOK, FileGrows, RetiredStaysRetired, Database
<1>2. /\ at'[p] = "connected"
      /\ db'.schema = "base" /\ db'.meta = 4 /\ db'.turns = "notnull"
      /\ db'.retired /\ db'.guards
  BY <1>0, JournalSchemaMade DEF CreateJournal, Move, Places, Database
<1>3. \A q \in Processes \ {p} :
        at'[q] = at[q] /\ language'[q] = language[q] /\ seen'[q] = seen[q]
  BY DEF CreateJournal, Move, Places, Locals
<1>4. OpenersOK' /\ ServesWholeJournal'
  BY <1>1, <1>2, <1>3, GrowthKeepsOthers DEF OpenersOK, ServesWholeJournal, HasOpened, Opens
<1> QED
  BY <1>1, <1>4 DEF OpenInv, FileGrows

\* Retention, which needs an engine, and any insertion, which needs the guards.
LEMMA WritersKeepOpenInv ==
  ASSUME Places, Locals, OpenInv,
         \/ \E p \in Processes, id \in Ids : Retire(p, id)
         \/ \E id \in Ids \cup {Null} : InsertTurn(id)
  PROVE  OpenInv' /\ FileGrows
<1>0. UNCHANGED <<at, language, seen>>
  BY DEF Retire, InsertTurn
<1>1. FileGrows /\ FileOK'
  <2>1. ASSUME NEW p \in Processes, NEW id \in Ids, Retire(p, id)
        PROVE  FileGrows /\ FileOK'
    <3>1. db.guards
      BY <2>1 DEF Retire, OpenInv, ServesWholeJournal, HasOpened, Opens
    <3> QED
      BY <2>1, <3>1, TurnRetired
        DEF Retire, OpenInv, FileOK, FileGrows, RetiredStaysRetired, Database
  <2>2. ASSUME NEW id \in Ids \cup {Null}, InsertTurn(id)
        PROVE  FileGrows /\ FileOK'
    <3>1. id \notin db.tombs
      BY <2>2, OpeningAssumption DEF InsertTurn, OpenInv, FileOK, Database
    <3> QED
      BY <2>2, <3>1, TurnInserted
        DEF InsertTurn, OpenInv, FileOK, FileGrows, RetiredStaysRetired, Database
  <2> QED
    BY <2>1, <2>2
<1>2. OpenersOK' /\ ServesWholeJournal'
  BY <1>0, <1>1, GrowthKeepsOthers DEF OpenersOK, ServesWholeJournal, HasOpened, Opens
<1> QED
  BY <1>1, <1>2 DEF OpenInv, FileGrows

\* All steps that change the file.
LEMMA FileStepKeepsOpenInv ==
  ASSUME Places, Locals, OpenInv, FileStep
  PROVE  OpenInv' /\ FileGrows
BY ConnectKeepsOpenInv, CreateBaseKeepsOpenInv, RebuildKeepsOpenInv,
   CreateJournalKeepsOpenInv, WritersKeepOpenInv DEF FileStep

-----------------------------------------------------------------------------
(* The names.                                                              *)

\* What the publishers hold.
Held ==
  /\ entry \in [Names -> Entry \cup {Free}]
  /\ target \in [Processes -> [name: Names, file: 0..MaxFiles]]
  /\ files \in 0..MaxFiles
  /\ reported \subseteq Names \X (1..MaxFiles)
  /\ crashed \subseteq 1..MaxFiles /\ unremoved \subseteq 1..MaxFiles

\* Publishers keep what openers rely on: an open database stays open.
LEMMA PublishersKeepOpenInv ==
  ASSUME Places, Locals, OpenInv, PublishNext
  PROVE  OpenInv' /\ Places' /\ Locals' /\ db' = db
<1>0. UNCHANGED <<db, language, seen>>
  BY DEF PublishNext, Prepare, Link, LinkFails, Inspect, Rename, Reserve, Mark, Replace,
    Return, Crash, OthersCreate, ClearReservation, Published, openVars, pubVars
<1>1. \/ UNCHANGED at
      \/ \E p \in Processes : \E to \in {"out", "connected"} \cup Publishing :
           /\ at[p] \notin Opens \cup {"out"} \/ to = "out"
           /\ at' = [at EXCEPT ![p] = to]
  BY DEF PublishNext, Prepare, Link, LinkFails, Inspect, Rename, Reserve, Mark, Replace,
    Return, Crash, OthersCreate, ClearReservation, Published, openVars, Move,
    Publishing, Exporting, Opens
<1>2. Places' /\ Locals'
  BY <1>0, <1>1 DEF Places, Locals
<1>3. OpenersOK' /\ ServesWholeJournal'
  <2>1. ASSUME NEW p \in Processes
        PROVE  \/ at'[p] = at[p] \/ at'[p] = "out"
               \/ HasOpened(p) /\ at'[p] \in {"connected"} \cup Publishing
    BY <1>1 DEF Places, HasOpened
  <2> QED
    BY <1>0, <2>1 DEF OpenInv, OpenersOK, ServesWholeJournal, HasOpened, Opens,
      Publishing, Exporting
<1> QED
  BY <1>0, <1>2, <1>3 DEF OpenInv, FileOK, RetiredStaysRetired

\* A process that stays where it is, or goes where nothing is asked of it, stays right
\* if what is at its name does.
Right(p) ==
  /\ at[p] \in Publishing => target[p].file \in 1..files
  /\ target[p].file <= files
  /\ at[p] = "mark" => entry[Name(p)] = Mine(p, "blank")
  /\ at[p] = "replace" => entry[Name(p)] = Mine(p, "marker")
  /\ at[p] = "done" => entry[Name(p)] = Mine(p, "file")
Distinct ==
  \A p, q \in Processes : p # q /\ target[p].file # 0 => target[p].file # target[q].file
LEMMA PublishersOKSplit == PublishersOK <=> (\A p \in Processes : Right(p)) /\ Distinct
BY DEF PublishersOK, Right, Distinct

\* A file begun gets a number of its own.
LEMMA PrepareKeepsHeld ==
  ASSUME Places, Held, PublishersOK, ReservationsEnd,
         NEW p \in Processes, NEW n \in Names, Prepare(p, n)
  PROVE  Held' /\ PublishersOK' /\ ReservationsEnd'
<1>0. /\ files < MaxFiles /\ files' = files + 1
      /\ target' = [target EXCEPT ![p] = [name |-> n, file |-> files + 1]]
      /\ UNCHANGED <<entry, reported, crashed, unremoved>>
  BY DEF Prepare
<1>1. Held'
  BY <1>0, PublishingAssumption DEF Held
<1>2. /\ target'[p] = [name |-> n, file |-> files + 1]
      /\ at[p] = "connected" /\ at'[p] \in {"link", "backup"}
  BY <1>0 DEF Held, Places, Prepare, Move
<1>3. \A q \in Processes \ {p} : target'[q] = target[q] /\ at'[q] = at[q]
  BY <1>0 DEF Held, Places, Prepare, Move
<1>4. Distinct'
  BY <1>0, <1>2, <1>3, PublishersOKSplit, PublishingAssumption DEF Distinct, Right, Held
<1>5. ASSUME NEW q \in Processes
      PROVE  Right(q)'
  BY <1>0, <1>2, <1>3, PublishersOKSplit, PublishingAssumption
    DEF Right, Held, Name, Mine, Publishing, Exporting
<1>6. ReservationsEnd'
  BY <1>0, <1>2, <1>3 DEF ReservationsEnd
<1> QED
  BY <1>1, <1>4, <1>5, <1>6 DEF PublishersOK, Right, Distinct

\* The other steps of a publisher p: it stays with its name and file, and may change
\* what is at that name if it is free or p's own.
PublisherMoves(p) ==
  /\ at'[p] \in {"connected", "out"} \cup Publishing
  /\ \A q \in Processes \ {p} : at'[q] = at[q]
  /\ UNCHANGED <<target, files>>
  /\ \A n \in Names \ {Name(p)} : entry'[n] = entry[n]
  /\ \/ entry'[Name(p)] = entry[Name(p)]
     \/ entry[Name(p)] = Free \/ entry[Name(p)].file = target[p].file

\* None of them disturbs another publisher.
LEMMA MovesKeepOthers ==
  ASSUME Places, Held, PublishersOK, ReservationsEnd, NEW p \in Processes,
         PublisherMoves(p), Held', at[p] \in Publishing, Right(p)',
         crashed \subseteq crashed', unremoved \subseteq unremoved',
         \/ at[p] # "replace" /\ entry'[Name(p)] = entry[Name(p)]
         \/ entry'[Name(p)].kind # "marker"
         \/ entry'[Name(p)].file \in crashed' \cup unremoved'
         \/ at'[p] = "replace"
  PROVE  PublishersOK' /\ ReservationsEnd'
<1>1. target[p].file \in 1..files /\ Name(p) \in Names
  BY PublishersOKSplit DEF Right, Held, Name
<1>2. Distinct'
  BY PublishersOKSplit DEF PublisherMoves, Distinct
<1>3. ASSUME NEW q \in Processes \ {p}
      PROVE  Right(q)'
  <2>1. Right(q) /\ at'[q] = at[q] /\ target'[q] = target[q] /\ files' = files
    BY PublishersOKSplit DEF PublisherMoves
  <2>2. target[q].file # target[p].file
    BY <1>1, PublishersOKSplit DEF Distinct
  <2>3. CASE Name(q) # Name(p)
    BY <2>1, <2>3 DEF PublisherMoves, Right, Held, Name, Mine
  <2>4. CASE Name(q) = Name(p)
    <3>1. at[q] \in {"mark", "replace", "done"} => entry'[Name(q)] = entry[Name(q)]
      BY <2>1, <2>2, <2>4 DEF Right, PublisherMoves, Mine, Free
    <3> QED
      BY <2>1, <3>1 DEF Right, Name, Mine
  <2> QED
    BY <2>3, <2>4
<1>4. ReservationsEnd'
  <2> SUFFICES ASSUME NEW n \in Names, entry'[n].kind = "marker"
               PROVE  \/ entry'[n].file \in crashed' \cup unremoved'
                      \/ \E q \in Processes :
                           at'[q] = "replace"
                             /\ target'[q] = [name |-> n, file |-> entry'[n].file]
    BY DEF ReservationsEnd
  <2>1. CASE n = Name(p)
    <3>1. CASE entry'[n].file \in crashed' \cup unremoved'
      BY <3>1
    <3>2. CASE at'[p] = "replace"
      <4>1. target'[p] = target[p] /\ target[p] = [name |-> n, file |-> target[p].file]
        BY <2>1 DEF PublisherMoves, Held, Name
      <4>2. entry'[n] = [kind |-> "marker", file |-> target[p].file]
        BY <2>1, <3>2, <4>1 DEF Right, Name, Mine
      <4> QED
        BY <3>2, <4>1, <4>2
    <3>3. CASE at[p] # "replace" /\ entry'[n] = entry[n]
      BY <3>3 DEF ReservationsEnd, PublisherMoves
    <3> QED
      BY <2>1, <3>1, <3>2, <3>3
  <2>2. CASE n # Name(p)
    <3>1. entry'[n] = entry[n]
      BY <2>2 DEF PublisherMoves
    <3>2. CASE entry[n].file \in crashed \cup unremoved
      BY <3>1, <3>2
    <3>3. CASE \E q \in Processes :
                 at[q] = "replace" /\ target[q] = [name |-> n, file |-> entry[n].file]
      BY <2>2, <3>1, <3>3 DEF PublisherMoves, Name
    <3> QED
      BY <3>1, <3>2, <3>3 DEF ReservationsEnd
  <2> QED
    BY <2>1, <2>2
<1> QED
  BY <1>2, <1>3, <1>4 DEF PublishersOK, Right, Distinct

\* What a publisher puts at its name.
LEMMA PutAtName ==
  ASSUME Held, NEW p \in Processes, NEW e \in Entry \cup {Free},
         entry' = [entry EXCEPT ![Name(p)] = e]
  PROVE  /\ Name(p) \in Names
         /\ entry' \in [Names -> Entry \cup {Free}]
         /\ entry'[Name(p)] = e
         /\ \A n \in Names \ {Name(p)} : entry'[n] = entry[n]
BY DEF Held, Name

\* Its own entries are entries.
LEMMA MineTyped ==
  ASSUME Held, PublishersOK, NEW p \in Processes, at[p] \in Publishing
  PROVE  /\ target[p].file \in 1..MaxFiles /\ target[p].file # 0
         /\ \A kind \in {"file", "marker", "blank"} : Mine(p, kind) \in Entry
<1>1. target[p].file \in 1..MaxFiles /\ target[p].file # 0
  BY PublishingAssumption, PublishersOKSplit DEF Held, Right
<1>2. target[p].file \in Files
  BY <1>1 DEF Files
<1> QED
  BY <1>1, <1>2 DEF Mine, Entry

\* Steps that leave all names alone.
LEMMA QuietMoves ==
  ASSUME Places, Held, PublishersOK, ReservationsEnd, NEW p \in Processes,
         \/ LinkFails(p) \/ Inspect(p) \/ Return(p)
         \/ Rename(p) /\ at'[p] = "connected"
         \/ Reserve(p) /\ at'[p] = "connected"
  PROVE  Held' /\ PublishersOK' /\ ReservationsEnd'
<1>1. \E from \in {"link", "backup", "inspect", "done", "rename", "reserve"},
         to \in {"connected", "inspect", "rename", "reserve"} : Move(p, from, to)
  <2>1. CASE LinkFails(p) \/ Inspect(p) \/ Return(p)
    BY <2>1 DEF LinkFails, Inspect, Return
  <2>2. CASE Rename(p) /\ at'[p] = "connected"
    BY <2>2 DEF Rename, Published, Move, Places
  <2>3. CASE Reserve(p) /\ at'[p] = "connected"
    BY <2>3 DEF Reserve, Move, Places
  <2> QED
    BY <2>1, <2>2, <2>3
<1>2. /\ at[p] \in Publishing /\ at[p] \notin {"mark", "replace"}
      /\ at'[p] \in {"connected", "inspect", "rename", "reserve"}
      /\ \A q \in Processes \ {p} : at'[q] = at[q]
  BY <1>1 DEF Move, Places, Publishing, Exporting
<1>5. UNCHANGED <<entry, target, files, crashed, unremoved>>
  BY DEF LinkFails, Inspect, Return, Rename, Reserve, pubVars, Published, Move, Places
<1>3. Held'
  <2>1. reported' \subseteq Names \X (1..MaxFiles)
    BY <1>2, MineTyped DEF LinkFails, Inspect, Return, Rename, Reserve, pubVars, Held, Name
  <2> QED
    BY <1>5, <2>1 DEF Held
<1>4. PublisherMoves(p) /\ Right(p)'
  BY <1>2, <1>5, PublishersOKSplit DEF PublisherMoves, Right, Name, Mine, Publishing, Exporting
<1> QED
  BY <1>2, <1>3, <1>4, <1>5, MovesKeepOthers

\* Steps that give the name a whole file, the reservation or its marker, or take the
\* marker away, unless that fails.
LEMMA NamingMoves ==
  ASSUME Places, Held, PublishersOK, ReservationsEnd, NEW p \in Processes,
         \/ Link(p)
         \/ Rename(p) /\ at'[p] = "done"
         \/ Reserve(p) /\ at'[p] = "mark"
         \/ Mark(p)
         \/ Replace(p)
  PROVE  Held' /\ PublishersOK' /\ ReservationsEnd'
<1>1. /\ at[p] \in {"link", "backup", "rename", "reserve", "mark", "replace"}
      /\ \A q \in Processes \ {p} : at'[q] = at[q]
      /\ UNCHANGED <<target, files, reported, crashed>>
      /\ unremoved' \in {unremoved, unremoved \cup {target[p].file}}
  BY DEF RemoveReservation, Link, Rename, Reserve, Mark, Replace, Published, Move, Places
<1> DEFINE Puts(step, kind) == at'[p] = step /\ entry' = [entry EXCEPT ![Name(p)] = Mine(p, kind)]
           Clears == at'[p] = "connected" /\ entry' = [entry EXCEPT ![Name(p)] = Free]
           Leaves == at'[p] = "connected"
                       /\ entry' = [entry EXCEPT ![Name(p)] = Mine(p, "blank")]
           Fails == /\ at'[p] = "connected" /\ target[p].file \in unremoved'
                    /\ entry' = [entry EXCEPT ![Name(p)] = Mine(p, "marker")]
<1>2. /\ entry[Name(p)] = Free \/ entry[Name(p)].file = target[p].file
      /\ \/ Puts("done", "file") \/ Puts("mark", "blank") \/ Puts("replace", "marker")
         \/ Clears \/ Leaves \/ Fails
  <2>1. CASE Link(p)
    BY <2>1 DEF Link, Published, Move, Places, Put, Vacant
  <2>2. CASE Rename(p) /\ at'[p] = "done"
    BY <2>2 DEF Rename, Published, Move, Places, Put, Vacant
  <2>3. CASE Reserve(p) /\ at'[p] = "mark"
    BY <2>3 DEF Reserve, Move, Places, Put, Vacant
  <2>4. CASE Mark(p)
    <3>1. at[p] = "mark"
      BY <2>4 DEF Mark, Move
    <3>2. entry[Name(p)] = Mine(p, "blank")
      BY <3>1, PublishersOKSplit DEF Right
    <3>3. entry[Name(p)].file = target[p].file
      BY <3>2 DEF Mine
    <3>4. Mine(p, "blank") # Mine(p, "marker")
      BY DEF Mine
    <3>5. Puts("replace", "marker") \/ Clears \/ Leaves \/ Fails
      BY <2>4, <3>4 DEF Mark, Move, Places, Put, RemoveReservation
    <3> QED
      BY <3>3, <3>5
  <2>5. CASE Replace(p)
    <3>1. at[p] = "replace"
      BY <2>5 DEF Replace, Published, Move
    <3>2. entry[Name(p)] = Mine(p, "marker")
      BY <3>1, PublishersOKSplit DEF Right
    <3>3. entry[Name(p)].file = target[p].file
      BY <3>2 DEF Mine
    <3>4. Puts("done", "file") \/ Clears \/ Fails
      BY <2>5, <3>2 DEF Replace, Published, Move, Places, Put, RemoveReservation
    <3> QED
      BY <3>3, <3>4
  <2> QED
    BY <2>1, <2>2, <2>3, <2>4, <2>5
<1>3. at[p] \in Publishing /\ \A kind \in {"file", "marker", "blank"} : Mine(p, kind) \in Entry
  <2>1. at[p] \in Publishing
    BY <1>1 DEF Publishing, Exporting
  <2> QED
    BY <2>1, MineTyped
<1>4. /\ entry' \in [Names -> Entry \cup {Free}]
      /\ \A n \in Names \ {Name(p)} : entry'[n] = entry[n]
      /\ \/ at'[p] = "done" /\ entry'[Name(p)] = Mine(p, "file")
         \/ at'[p] = "mark" /\ entry'[Name(p)] = Mine(p, "blank")
         \/ at'[p] = "replace" /\ entry'[Name(p)] = Mine(p, "marker")
         \/ at'[p] = "connected" /\ entry'[Name(p)] \in {Free, Mine(p, "blank")}
         \/ /\ at'[p] = "connected" /\ target[p].file \in unremoved'
            /\ entry'[Name(p)] = Mine(p, "marker")
  BY <1>2, <1>3, PutAtName
<1> HIDE DEF Puts, Clears, Leaves, Fails
<1>5. Held'
  BY <1>1, <1>3, <1>4, MineTyped DEF Held
<1>6. PublisherMoves(p)
  BY <1>1, <1>2, <1>4 DEF PublisherMoves, Publishing, Exporting
<1>7. Right(p)'
  <2>1. Right(p) /\ Name(p)' = Name(p)
        /\ \A kind \in {"file", "marker", "blank"} : Mine(p, kind)' = Mine(p, kind)
    BY <1>1, PublishersOKSplit DEF Name, Mine
  <2> QED
    BY <1>1, <1>3, <1>4, <2>1 DEF Right
<1>8. \/ entry'[Name(p)].kind # "marker" \/ at'[p] = "replace"
      \/ entry'[Name(p)].file \in unremoved'
  BY <1>4 DEF Mine, Free
<1> QED
  BY <1>1, <1>3, <1>5, <1>6, <1>7, <1>8, MovesKeepOthers

\* A process that dies leaves what it has put at its name, and its number.
LEMMA CrashKeepsHeld ==
  ASSUME Places, Held, PublishersOK, ReservationsEnd, NEW p \in Processes, Crash(p)
  PROVE  Held' /\ PublishersOK' /\ ReservationsEnd'
<1>1. /\ at'[p] = "out" /\ UNCHANGED <<entry, target, files, reported, unremoved>>
      /\ \A q \in Processes \ {p} : at'[q] = at[q]
      /\ crashed' = IF at[p] \in Publishing THEN crashed \cup {target[p].file} ELSE crashed
  BY DEF Crash, Places
<1>2. Held'
  BY <1>1, MineTyped DEF Held
<1>3. Right(p)' /\ PublisherMoves(p)
  BY <1>1, PublishersOKSplit DEF Right, PublisherMoves, Publishing, Exporting
<1>4. CASE at[p] \in Publishing
  <2>1. at[p] = "replace" => entry'[Name(p)].file \in crashed'
    <3>1. at[p] = "replace" => entry[Name(p)] = Mine(p, "marker")
      BY PublishersOKSplit DEF Right
    <3> QED
      BY <1>1, <1>4, <3>1 DEF Mine
  <2> QED
    BY <1>1, <1>2, <1>3, <1>4, <2>1, MovesKeepOthers
<1>5. CASE at[p] \notin Publishing
  <2>1. \A q \in Processes : Right(q)'
    BY <1>1, <1>3, PublishersOKSplit DEF Right, Name, Mine
  <2>2. Distinct'
    BY <1>1, PublishersOKSplit DEF Distinct
  <2>3. ReservationsEnd'
    BY <1>1, <1>5 DEF ReservationsEnd, Publishing, Exporting
  <2> QED
    BY <1>2, <2>1, <2>2, <2>3 DEF PublishersOK, Right, Distinct
<1> QED
  BY <1>4, <1>5

\* Other programs take a name that is free, and the operator frees one only when no
\* exporter is running.
LEMMA OthersKeepHeld ==
  ASSUME Places, Held, PublishersOK, ReservationsEnd, NEW n \in Names,
         OthersCreate(n) \/ ClearReservation(n)
  PROVE  Held' /\ PublishersOK' /\ ReservationsEnd'
<1>1. /\ UNCHANGED <<at, target, files, reported, crashed, unremoved>>
      /\ entry' \in [Names -> Entry \cup {Free}]
      /\ \A m \in Names \ {n} : entry'[m] = entry[m]
      /\ entry'[n] \in {Free, [kind |-> "file", file |-> Foreign]}
  BY DEF OthersCreate, ClearReservation, Held, Entry, Files, openVars
<1>2. \/ entry[n] = Free
      \/ entry[n].kind = "marker" /\ \A p \in Processes : at[p] \notin Exporting
  BY DEF OthersCreate, ClearReservation
<1>3. ASSUME NEW p \in Processes
      PROVE  Right(p)'
  <2>1. Right(p)
    BY PublishersOKSplit
  <2>2. at[p] \in {"mark", "replace", "done"} => entry'[Name(p)] = entry[Name(p)]
    BY <1>1, <1>2, <2>1 DEF Right, Mine, Free, Exporting, Held, Name
  <2> QED
    BY <1>1, <2>1, <2>2 DEF Right, Name, Mine
<1>4. Distinct'
  BY <1>1, PublishersOKSplit DEF Distinct
<1>5. ReservationsEnd'
  BY <1>1 DEF ReservationsEnd, Free
<1> QED
  BY <1>1, <1>3, <1>4, <1>5 DEF Held, PublishersOK, Right, Distinct

\* Every step of publishers and others.
LEMMA PublishNextKeepsHeld ==
  ASSUME Places, Held, PublishersOK, ReservationsEnd, PublishNext
  PROVE  Held' /\ PublishersOK' /\ ReservationsEnd'
<1>1. ASSUME NEW p \in Processes, Rename(p)
      PROVE  Held' /\ PublishersOK' /\ ReservationsEnd'
  <2>1. at'[p] \in {"connected", "done"}
    BY <1>1 DEF Rename, Published, Move, Places
  <2> QED
    BY <1>1, <2>1, QuietMoves, NamingMoves
<1>2. ASSUME NEW p \in Processes, Reserve(p)
      PROVE  Held' /\ PublishersOK' /\ ReservationsEnd'
  <2>1. at'[p] \in {"connected", "mark"}
    BY <1>2 DEF Reserve, Move, Places
  <2> QED
    BY <1>2, <2>1, QuietMoves, NamingMoves
<1>3. ASSUME NEW p \in Processes,
             LinkFails(p) \/ Inspect(p) \/ Return(p) \/ Link(p) \/ Mark(p) \/ Replace(p)
      PROVE  Held' /\ PublishersOK' /\ ReservationsEnd'
  BY <1>3, QuietMoves, NamingMoves
<1> QED
  BY <1>1, <1>2, <1>3, PrepareKeepsHeld, CrashKeepsHeld, OthersKeepHeld DEF PublishNext

\* An opener is not a publisher, and has nothing at a name.
LEMMA OpenersKeepHeld ==
  ASSUME Places, Locals, Held, PublishersOK, ReservationsEnd, OpenNext, UNCHANGED pubVars
  PROVE  Places' /\ Locals' /\ Held' /\ PublishersOK' /\ ReservationsEnd'
<1> DEFINE Stations == {"out", "connected"} \cup Opens
<1>1. \/ UNCHANGED <<at, language, seen>>
      \/ \E p \in Processes, from \in Stations, to \in Stations : Move(p, from, to)
  <2>1. ASSUME NEW p \in Processes, \E lang \in {"go", "python"} : Connect(p, lang)
        PROVE  \E from \in Stations, to \in Stations : Move(p, from, to)
    BY <2>1 DEF Connect, Opens
  <2>2. ASSUME NEW p \in Processes, ReadVersion(p) \/ CreateBase(p) \/ Probe(p)
        PROVE  \E from \in Stations, to \in Stations : Move(p, from, to)
    BY <2>2 DEF ReadVersion, CreateBase, Probe, Opens
  <2>3. ASSUME NEW p \in Processes, ReadTables(p)
        PROVE  \E from \in Stations, to \in Stations : Move(p, from, to)
    <3> DEFINE next == CASE seen[p] = "zero" /\ ~HasTables(db) -> "base"
                         [] seen[p] = "one" -> "validate"
                         [] OTHER -> "out"
    <3>1. next \in {"base", "validate", "out"}
      OBVIOUS
    <3>2. Move(p, "tables", next)
      BY <2>3 DEF ReadTables
    <3> HIDE DEF next
    <3> QED
      BY <3>1, <3>2 DEF Opens
  <2>4. ASSUME NEW p \in Processes,
               CountNulls(p) \/ Rebuild(p) \/ CreateJournal(p) \/ CloseDatabase(p)
        PROVE  \E from \in Stations, to \in Stations : Move(p, from, to)
    BY <2>4 DEF CountNulls, Rebuild, CreateJournal, CloseDatabase, Opens
  <2>5. ASSUME NEW p \in Processes, OpenFails(p)
        PROVE  \E from \in Stations, to \in Stations : Move(p, from, to)
    BY <2>5 DEF OpenFails, Move
  <2>6. ASSUME NEW p \in Processes, Validate(p)
        PROVE  \E from \in Stations, to \in Stations : Move(p, from, to)
    <3> DEFINE next == IF db.schema # "base" \/ (language[p] = "go" /\ ~KnownMeta(db))
                       THEN "out"
                       ELSE IF language[p] = "go" THEN "probe" ELSE "connected"
    <3>1. next \in {"out", "probe", "connected"}
      OBVIOUS
    <3>2. Move(p, "validate", next)
      BY <2>6 DEF Validate
    <3> HIDE DEF next
    <3> QED
      BY <3>1, <3>2 DEF Opens
  <2>7. CASE \/ \E p \in Processes, id \in Ids : Retire(p, id)
             \/ \E id \in Ids \cup {Null} : InsertTurn(id)
    BY <2>7 DEF Retire, InsertTurn
  <2> HIDE DEF Stations
  <2> QED
    BY <2>1, <2>2, <2>3, <2>4, <2>5, <2>6, <2>7 DEF OpenNext
<1>2. Locals'
  BY DEF Locals, OpenNext, Connect, ReadVersion, ReadTables, CreateBase, Validate, Probe,
    CountNulls, Rebuild, CreateJournal, OpenFails, CloseDatabase, Retire, InsertTurn,
    Version
<1>3. Places' /\ \A p \in Processes : at'[p] = at[p]
                    \/ (at[p] \notin Publishing /\ at'[p] \notin Publishing)
  BY <1>1 DEF Places, Move, Opens, Publishing, Exporting
<1>4. UNCHANGED <<entry, target, files, reported, crashed, unremoved>>
  BY DEF pubVars
<1>5. ASSUME NEW p \in Processes
      PROVE  Right(p)'
  BY <1>3, <1>4, PublishersOKSplit DEF Right, Name, Mine, Publishing, Exporting
<1>6. Distinct' /\ Held'
  BY <1>4, PublishersOKSplit DEF Distinct, Held
<1>7. ReservationsEnd'
  BY <1>3, <1>4 DEF ReservationsEnd, Publishing, Exporting
<1> QED
  BY <1>2, <1>3, <1>5, <1>6, <1>7 DEF PublishersOK, Right, Distinct

-----------------------------------------------------------------------------
(* The invariant.                                                          *)

\* FilesInv by its parts.
LEMMA FilesInvSplit ==
  FilesInv <=> /\ Places /\ Locals /\ OpenInv
               /\ Held /\ PublishersOK /\ ReservationsEnd
               /\ system \in {"posix", "windows"}
BY DEF FilesInv, TypeOK, Places, Locals, OpenInv, Held

\* The files earlier versions leave satisfy it.
LEMMA InitFilesInv == Init => FilesInv
<1> SUFFICES ASSUME Init PROVE FilesInv
  OBVIOUS
<1>1. db \in Earlier /\ RetiredStaysRetired
  BY DEF Init, OpenInit, RetiredStaysRetired
<1>2. db \in Database /\ FileOK
  <2>1. CASE \E s \in Schemas, m \in {0, 5} :
               /\ db = [schema |-> s, meta |-> m, turns |-> "none", retired |-> FALSE,
                        guards |-> FALSE, rows |-> {}, tombs |-> {}]
               /\ m = 5 => s = "base"
    BY <1>1, <2>1 DEF Database, Schemas, FileOK
  <2>2. CASE \E R \in SUBSET (Ids \cup {Null}) :
               db = [schema |-> "base", meta |-> 1, turns |-> "nullable",
                     retired |-> FALSE, guards |-> FALSE, rows |-> R, tombs |-> {}]
    BY <1>1, <2>2 DEF Database, Schemas, FileOK
  <2>3. CASE \E t \in {"nullable", "notnull"}, R \in SUBSET (Ids \cup {Null}),
                T \in SUBSET Ids :
               db = [schema |-> "base", meta |-> 4, turns |-> t, retired |-> TRUE,
                     guards |-> TRUE, rows |-> R, tombs |-> T]
    BY <1>1, <2>3 DEF Database, Schemas, FileOK
  <2>4. QED
    <3>1. CASE db = NoFile
      BY <2>1, <3>1 DEF NoFile, Schemas
    <3>2. CASE \E s \in {"other", "unknown", "empty", "base"} :
                 db = [NoFile EXCEPT !.schema = s]
      <4>1. PICK s \in {"other", "unknown", "empty", "base"} : db = [NoFile EXCEPT !.schema = s]
        BY <3>2
      <4>2. db = [schema |-> s, meta |-> 0, turns |-> "none", retired |-> FALSE,
                  guards |-> FALSE, rows |-> {}, tombs |-> {}]
        BY <4>1 DEF NoFile
      <4>3. s \in Schemas /\ 0 \in {0, 5} /\ (0 = 5 => s = "base")
        BY DEF Schemas
      <4> QED
        BY <2>1, <4>2, <4>3
    <3>3. CASE db = [NoFile EXCEPT !.schema = "base", !.meta = 5]
      BY <2>1, <3>3 DEF NoFile, Schemas
    <3>4. CASE \E R \in SUBSET (Ids \cup {Null}) :
                 db = [NoFile EXCEPT !.schema = "base", !.meta = 1,
                                     !.turns = "nullable", !.rows = R]
      BY <2>2, <3>4 DEF NoFile
    <3> DEFINE Known == {[schema |-> "base", meta |-> 4, turns |-> t, retired |-> TRUE,
                          guards |-> TRUE, rows |-> R, tombs |-> T] :
                            t \in {"nullable", "notnull"}, R \in SUBSET (Ids \cup {Null}),
                            T \in SUBSET Ids}
               Unknown == {[NoFile EXCEPT !.schema = s] :
                             s \in {"other", "unknown", "empty", "base"}}
               Old == {[NoFile EXCEPT !.schema = "base", !.meta = 1,
                                      !.turns = "nullable", !.rows = R] :
                         R \in SUBSET (Ids \cup {Null})}
               New == [NoFile EXCEPT !.schema = "base", !.meta = 5]
    <3>5. Earlier = {NoFile} \cup Unknown \cup {New} \cup Old \cup Known
      BY DEF Earlier
    <3>6. CASE db \in Unknown
      BY <3>2, <3>6
    <3>7. CASE db \in Old
      BY <3>4, <3>7
    <3>8. CASE db \in Known
      BY <2>3, <3>8
    <3>9. CASE db = New
      BY <3>3, <3>9
    <3> HIDE DEF Known, Unknown, Old, New
    <3> QED
      BY <1>1, <3>1, <3>5, <3>6, <3>7, <3>8, <3>9
<1>3. Places /\ Locals /\ \A p \in Processes : at[p] = "out"
  BY DEF Init, OpenInit, Places, Locals
<1>4. OpenInv
  BY <1>2, <1>3 DEF OpenInv, OpenersOK, ServesWholeJournal, HasOpened
<1>5. Held /\ \A p \in Processes : target[p].file = 0
  BY PublishingAssumption DEF Init, Held, Entry, Files
<1>6. PublishersOK
  BY <1>3, <1>5 DEF Init, PublishersOK, Publishing, Exporting
<1>7. ReservationsEnd
  BY DEF Init, ReservationsEnd, Free
<1> QED
  BY <1>3, <1>4, <1>5, <1>6, <1>7, FilesInvSplit DEF Init

\* Every step keeps it.
LEMMA StepKeepsFilesInv == FilesInv /\ [Next]_vars => FilesInv'
<1> SUFFICES ASSUME FilesInv, [Next]_vars PROVE FilesInv'
  OBVIOUS
<1>1. /\ Places /\ Locals /\ OpenInv /\ Held /\ PublishersOK /\ ReservationsEnd
      /\ system \in {"posix", "windows"}
  BY FilesInvSplit
<1>2. CASE OpenNext /\ UNCHANGED pubVars
  <2>1. OpenInv'
    BY <1>1, <1>2, OpenNextSplit, LookKeepsOpenInv, FileStepKeepsOpenInv
  <2>2. Places' /\ Locals' /\ Held' /\ PublishersOK' /\ ReservationsEnd'
    BY <1>1, <1>2, OpenersKeepHeld
  <2>3. system' \in {"posix", "windows"}
    BY <1>1, <1>2 DEF pubVars
  <2> QED
    BY <2>1, <2>2, <2>3 DEF FilesInv, TypeOK, Places, Locals, OpenInv, Held
<1>3. CASE PublishNext
  <2>1. OpenInv' /\ Places' /\ Locals'
    BY <1>1, <1>3, PublishersKeepOpenInv
  <2>2. Held' /\ PublishersOK' /\ ReservationsEnd'
    BY <1>1, <1>3, PublishNextKeepsHeld
  <2>3. system' \in {"posix", "windows"}
    BY <1>1, <1>3 DEF PublishNext, Prepare, Link, LinkFails, Inspect, Rename, Reserve,
      Mark, Replace, Return, Crash, OthersCreate, ClearReservation, pubVars
  <2> QED
    BY <2>1, <2>2, <2>3 DEF FilesInv, TypeOK, Places, Locals, OpenInv, Held
<1>4. CASE UNCHANGED vars
  BY <1>4 DEF vars, openVars, pubVars, FilesInv, TypeOK, FileOK, OpenersOK,
    ServesWholeJournal, RetiredStaysRetired, HasOpened, PublishersOK, ReservationsEnd,
    Name, Mine
<1> QED
  BY <1>2, <1>3, <1>4 DEF Next

\* The types, what the database and its openers are, and what publishers hold.
THEOREM FilesInvariant == Spec => []FilesInv
BY InitFilesInv, StepKeepsFilesInv, PTL DEF Spec

\* A process that Open has given an engine serves a whole journal, whatever the openers
\* that came before or after it do to the table of turns.
THEOREM WholeJournalServed == Spec => []ServesWholeJournal
<1>1. FilesInv => ServesWholeJournal
  BY DEF FilesInv
<1> QED
  BY <1>1, FilesInvariant, PTL

\* A retired request ID is not a turn again, through migrations and old writers.
THEOREM RetiredTurnsStayRetired == Spec => []RetiredStaysRetired
<1>1. FilesInv => RetiredStaysRetired
  BY DEF FilesInv, FileOK
<1> QED
  BY <1>1, FilesInvariant, PTL

\* A reservation marker stands only while its export runs, where it has died, or where
\* it could not read the marker back or remove it (removeExportReservation).
THEOREM ReservationsEndWithExports == Spec => []ReservationsEnd
<1>1. FilesInv => ReservationsEnd
  BY DEF FilesInv
<1> QED
  BY <1>1, FilesInvariant, PTL

-----------------------------------------------------------------------------
(* What no step does to the file.                                          *)

\* No step but that of a writer takes a row away, and that one leaves its tombstone.
LEMMA StepsLoseNoTurn ==
  ASSUME FilesInv, [Next]_vars
  PROVE  db.rows \cup db.tombs \subseteq db'.rows \cup db'.tombs
<1>1. /\ Places /\ Locals /\ OpenInv /\ db \in Database
  BY FilesInvSplit DEF OpenInv
<1>2. CASE UNCHANGED db
  BY <1>2
<1>3. ASSUME NEW p \in Processes, NEW lang \in {"go", "python"}, Connect(p, lang)
      PROVE  db.rows \cup db.tombs \subseteq db'.rows \cup db'.tombs
  BY <1>1, <1>3 DEF Connect, Database
<1>4. ASSUME NEW p \in Processes, CreateBase(p) \/ CreateJournal(p)
      PROVE  db.rows \cup db.tombs \subseteq db'.rows \cup db'.tombs
  BY <1>1, <1>4, BaseSchemaMade, JournalSchemaMade DEF CreateBase, CreateJournal
<1>5. ASSUME NEW p \in Processes, Rebuild(p)
      PROVE  db.rows \cup db.tombs \subseteq db'.rows \cup db'.tombs
  BY <1>1, <1>2, <1>5, TableRebuilt DEF Rebuild
<1>6. ASSUME NEW p \in Processes, NEW id \in Ids, Retire(p, id)
      PROVE  db.rows \cup db.tombs \subseteq db'.rows \cup db'.tombs
  <2>1. db' = [db EXCEPT !.rows = @ \ {id}, !.tombs = @ \cup {id}]
    BY <1>6 DEF Retire
  <2>2. db'.rows = db.rows \ {id} /\ db'.tombs = db.tombs \cup {id}
    BY <1>1, <2>1 DEF Database
  <2> QED
    BY <2>2
<1>7. ASSUME NEW id \in Ids \cup {Null}, InsertTurn(id)
      PROVE  db.rows \cup db.tombs \subseteq db'.rows \cup db'.tombs
  BY <1>1, <1>7, TurnInserted DEF InsertTurn
<1>8. CASE FileStep
  BY <1>3, <1>4, <1>5, <1>6, <1>7, <1>8 DEF FileStep
<1>9. CASE LookStep
  BY <1>1, <1>2, <1>9, LookKeepsOpenInv
<1>10. CASE PublishNext
  BY <1>1, <1>2, <1>10, PublishersKeepOpenInv
<1>11. CASE UNCHANGED vars
  BY <1>2, <1>11 DEF vars, openVars
<1> QED
  BY <1>8, <1>9, <1>10, <1>11, OpenNextSplit DEF Next

\* The migration, retention and every writer keep each turn or its tombstone.
THEOREM TurnsAreNotLost == Spec => NoTurnLost
<1>1. FilesInv /\ [Next]_vars
        => [db.rows \cup db.tombs \subseteq db'.rows \cup db'.tombs]_db
  BY StepsLoseNoTurn
<1> QED
  BY <1>1, FilesInvariant, PTL DEF Spec, NoTurnLost

\* A step changes only a file that Open accepts, and into one that it accepts.
LEMMA StepsKeepAccepted ==
  ASSUME FilesInv, [Next]_vars
  PROVE  IF Accepted(db) THEN Accepted(db') ELSE db' = db
<1>1. /\ Places /\ Locals /\ OpenInv /\ db \in Database /\ FileOK
  BY FilesInvSplit DEF OpenInv
<1>2. CASE UNCHANGED db
  BY <1>2
<1>3. CASE FileStep
  <2>1. FileGrows
    BY <1>1, <1>3, FileStepKeepsOpenInv
  <2>2. ASSUME NEW p \in Processes, NEW lang \in {"go", "python"}, Connect(p, lang)
        PROVE  \/ db' = db
               \/ db.schema = "absent" /\ db'.schema = "empty"
    BY <1>1, <2>2 DEF Connect, Database
  <2>3. ASSUME NEW p \in Processes, CreateBase(p)
        PROVE  \/ db' = db
               \/ db.schema = "empty"
    BY <1>1, <2>3, BaseSchemaMade DEF CreateBase, Move, OpenInv, OpenersOK
  <2>4. ASSUME NEW p \in Processes, Rebuild(p) \/ CreateJournal(p)
        PROVE  db.schema = "base" /\ db.meta \in 0..4
    BY <1>1, <2>4 DEF Rebuild, CreateJournal, Move, OpenInv, OpenersOK
  <2>5. ASSUME NEW p \in Processes, NEW id \in Ids, Retire(p, id)
        PROVE  db.schema = "base" /\ db.meta \in 0..4
    BY <1>1, <2>5 DEF Retire, OpenInv, ServesWholeJournal, HasOpened, Opens
  <2>6. ASSUME NEW id \in Ids \cup {Null}, InsertTurn(id)
        PROVE  db.schema = "base" /\ db.meta \in 0..4
    BY <1>1, <2>6 DEF InsertTurn, FileOK
  <2>7. \/ db' = db
        \/ db.schema = "absent" /\ db'.schema = "empty"
        \/ db.schema = "empty"
        \/ db.schema = "base" /\ db.meta \in 0..4
    BY <1>3, <2>2, <2>3, <2>4, <2>5, <2>6 DEF FileStep
  <2>8. db.schema = "empty" => db.meta = 0
    BY <1>1 DEF FileOK
  <2> QED
    BY <2>1, <2>7, <2>8 DEF FileGrows, Accepted
<1>4. CASE LookStep
  BY <1>1, <1>2, <1>4, LookKeepsOpenInv
<1>5. CASE PublishNext
  BY <1>1, <1>2, <1>5, PublishersKeepOpenInv
<1>6. CASE UNCHANGED vars
  BY <1>2, <1>6 DEF vars, openVars
<1> QED
  BY <1>3, <1>4, <1>5, <1>6, OpenNextSplit DEF Next

\* Openers that stop anywhere leave a file that can be opened, and leave alone what they
\* refuse.
THEOREM AcceptedFilesStayAccepted == Spec => FilesStayAccepted
<1>1. FilesInv /\ [Next]_vars => [IF Accepted(db) THEN Accepted(db') ELSE db' = db]_db
  BY StepsKeepAccepted
<1> QED
  BY <1>1, FilesInvariant, PTL DEF Spec, FilesStayAccepted

-----------------------------------------------------------------------------
(* The refinement.                                                         *)

\* No file is at a name that is free or reserved.
LEMMA HolderOfEntry ==
  ASSUME NEW e \in Entry \cup {Free}
  PROVE  /\ Holder(e) \in Files \cup {Nobody}
         /\ e.kind # "file" => Holder(e) = Nobody
         /\ e.kind = "file" => Holder(e) = e.file /\ e.file \in Files
BY DEF Holder, Entry, Free, Nobody

\* The promise is kept from the start.
LEMMA InitPromise == Init => Promise!Init
<1> SUFFICES ASSUME Init PROVE Promise!Init
  OBVIOUS
<1>1. entry \in [Names -> Entry \cup {Free}] /\ reported = {}
  BY InitFilesInv DEF FilesInv, TypeOK, Init
<1>2. \A n \in Names : Holder(entry[n]) \in Files \cup {Nobody}
  BY <1>1, HolderOfEntry
<1> QED
  BY <1>1, <1>2 DEF Promise!Init

\* A name changes hands only when nothing stands there, and for one whole file.
LEMMA EntryStep ==
  ASSUME Held, Held', UNCHANGED reported, NEW n \in Names,
         \A m \in Names \ {n} : entry'[m] = entry[m],
         \/ entry'[n] = entry[n]
         \/ entry[n].kind # "file"
  PROVE  \/ UNCHANGED <<[m \in Names |-> Holder(entry[m])], reported>>
         \/ \E f \in Files : Promise!Take(n, f)
<1>1. \A m \in Names : entry[m] \in Entry \cup {Free} /\ entry'[m] \in Entry \cup {Free}
  BY DEF Held
<1>2. \A m \in Names \ {n} : Holder(entry[m])' = Holder(entry[m])
  BY DEF Holder
<1>3. CASE entry'[n] = entry[n]
  BY <1>2, <1>3 DEF Holder
<1>4. CASE entry[n].kind # "file" /\ entry'[n].kind # "file"
  BY <1>2, <1>4 DEF Holder
<1>5. CASE entry[n].kind # "file" /\ entry'[n].kind = "file"
  <2>1. Holder(entry[n]) = Nobody /\ Holder(entry[n])' = entry'[n].file
    BY <1>5 DEF Holder
  <2>2. entry'[n].file \in Files
    BY <1>1, <1>5 DEF Entry, Free
  <2>3. [m \in Names |-> Holder(entry[m])'] =
          [[m \in Names |-> Holder(entry[m])] EXCEPT ![n] = entry'[n].file]
    BY <1>2, <2>1
  <2>4. Promise!Take(n, entry'[n].file)
    BY <2>1, <2>3 DEF Promise!Take
  <2> QED
    BY <2>2, <2>4
<1> QED
  BY <1>3, <1>4, <1>5

\* Every step is one of the promise, or none.
LEMMA StepKeepsPromise ==
  FilesInv /\ [Next]_vars
    => [Promise!Next]_<<[n \in Names |-> Holder(entry[n])], reported>>
<1> SUFFICES ASSUME FilesInv, [Next]_vars
             PROVE  [Promise!Next]_<<[n \in Names |-> Holder(entry[n])], reported>>
  OBVIOUS
<1>1. /\ Places /\ Locals /\ OpenInv /\ Held /\ PublishersOK /\ ReservationsEnd
      /\ Held'
  BY FilesInvSplit, StepKeepsFilesInv DEF FilesInv, TypeOK, Held
<1>2. CASE UNCHANGED <<entry, reported>>
  BY <1>2 DEF Holder
<1>3. ASSUME NEW p \in Processes,
             Link(p) \/ Rename(p) \/ Reserve(p) \/ Mark(p) \/ Replace(p)
      PROVE  [Promise!Next]_<<[n \in Names |-> Holder(entry[n])], reported>>
  <2>1. Name(p) \in Names /\ UNCHANGED reported
    BY <1>1, <1>3 DEF Held, Name, Link, Rename, Reserve, Mark, Replace
  <2>2. \A m \in Names \ {Name(p)} : entry'[m] = entry[m]
    BY <1>1, <1>3 DEF Link, Rename, Reserve, Mark, Replace, Published, Put,
      RemoveReservation, Held
  <2>3. entry'[Name(p)] = entry[Name(p)] \/ entry[Name(p)].kind # "file"
    <3>1. CASE at[p] \in {"mark", "replace"}
      <4>1. entry[Name(p)] \in {Mine(p, "blank"), Mine(p, "marker")}
        BY <1>1, <3>1, PublishersOKSplit DEF Right
      <4> QED
        BY <4>1 DEF Mine
    <3>2. CASE Link(p) \/ Rename(p) \/ Reserve(p)
      BY <3>2 DEF Link, Rename, Reserve, Published, Vacant, Free
    <3> QED
      BY <1>3, <3>1, <3>2 DEF Mark, Replace, Published, Move
  <2> QED
    BY <1>1, <2>1, <2>2, <2>3, EntryStep DEF Promise!Next
<1>4. ASSUME NEW p \in Processes, Return(p)
      PROVE  [Promise!Next]_<<[n \in Names |-> Holder(entry[n])], reported>>
  <2>1. at[p] = "done" /\ UNCHANGED entry
        /\ reported' = reported \cup {<<Name(p), target[p].file>>}
    BY <1>4 DEF Return, Move
  <2>2. entry[Name(p)] = Mine(p, "file") /\ Name(p) \in Names
    BY <1>1, <2>1, PublishersOKSplit DEF Right, Held, Name
  <2>3. at[p] \in Publishing
    BY <2>1 DEF Publishing
  <2>4. target[p].file \in Files
    BY <1>1, <2>3, MineTyped DEF Files
  <2>5. Holder(entry[Name(p)]) = target[p].file
    BY <2>2 DEF Holder, Mine
  <2>6. UNCHANGED [n \in Names |-> Holder(entry[n])]
    BY <2>1 DEF Holder
  <2>7. Promise!Report(Name(p), target[p].file)
    BY <2>1, <2>2, <2>5, <2>6 DEF Promise!Report
  <2> QED
    BY <2>2, <2>4, <2>7 DEF Promise!Next
<1>5. ASSUME NEW n \in Names, OthersCreate(n) \/ ClearReservation(n)
      PROVE  [Promise!Next]_<<[m \in Names |-> Holder(entry[m])], reported>>
  <2>1. /\ UNCHANGED reported
        /\ \A m \in Names \ {n} : entry'[m] = entry[m]
        /\ entry[n].kind # "file"
    BY <1>1, <1>5 DEF OthersCreate, ClearReservation, Held, Free
  <2> QED
    BY <1>1, <2>1, EntryStep DEF Promise!Next
<1>6. CASE PublishNext
  <2>1. ASSUME NEW p \in Processes,
               (\E n \in Names : Prepare(p, n)) \/ LinkFails(p) \/ Inspect(p) \/ Crash(p)
        PROVE  UNCHANGED <<entry, reported>>
    BY <2>1 DEF Prepare, LinkFails, Inspect, Crash, pubVars
  <2> QED
    BY <1>2, <1>3, <1>4, <1>5, <1>6, <2>1 DEF PublishNext
<1>7. CASE UNCHANGED pubVars
  BY <1>2, <1>7 DEF pubVars
<1> QED
  BY <1>6, <1>7 DEF Next, vars

\* Exports and backups take a name only when it is free, with a whole file, for good,
\* and report only what they have published.
THEOREM PublishingImplementsNewFile == Spec => ImplementsNewFile
<1>1. FilesInv /\ [Next]_vars
        => [Promise!Next]_<<[n \in Names |-> Holder(entry[n])], reported>>
  BY StepKeepsPromise
<1> QED
  BY <1>1, InitPromise, FilesInvariant, PTL DEF Spec, ImplementsNewFile, Promise!Spec
=============================================================================
