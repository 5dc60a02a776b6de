------------------------------- MODULE Opening -------------------------------
(***************************************************************************)
(* Opening one database file: Open of the Go engine, with the rebuild of   *)
(* the turn table, and TaskMemory of Python. An opener is a process that   *)
(* looks at the file in several steps and changes it in transactions of    *)
(* their own; others open it, use it, crash and write to it in between.    *)
(*                                                                         *)
(* Abstracted: of the base schema whether it is there; of the journal the  *)
(* table of turns, its guards and its tombstones (the index of pending     *)
(* turns is dropped and created with the table); of a turn its request ID. *)
(* Older engines wrote the files that Init offers and may still write      *)
(* turns, but open none.                                                   *)
(*                                                                         *)
(* A definition set right before another one with the same parameters and  *)
(* no comment of its own is a faulty variant, used only to show that a     *)
(* property notices the fault.                                             *)
(***************************************************************************)
EXTENDS Naturals

CONSTANTS
  Processes,
  Ids,          \* request IDs
  Null          \* the request ID that NOT NULL forbids

ASSUME OpeningAssumption == Null \notin Ids

\* What is at the path. "other" is no SQLite database and "unknown" one with tables
\* or a user_version of its own.
Schemas == {"absent", "other", "unknown", "empty", "base"}

Database ==
  [schema: Schemas,
   meta: 0..5,                              \* version of the journal, 0 if none
   turns: {"none", "nullable", "notnull"},  \* table of turns, and its request_id
   retired: BOOLEAN,                        \* the table of tombstones is there
   guards: BOOLEAN,                         \* the triggers that protect it are
   rows: SUBSET (Ids \cup {Null}),
   tombs: SUBSET Ids]

NoFile ==
  [schema |-> "absent", meta |-> 0, turns |-> "none", retired |-> FALSE,
   guards |-> FALSE, rows |-> {}, tombs |-> {}]

VARIABLES
  db,       \* the file
  at,       \* where each process is
  language, \* of the process: go or python
  seen      \* the user_version it has read

openVars == <<db, at, language, seen>>

\* A file an earlier version left, or somebody else's.
Earlier ==
  {NoFile}
  \cup {[NoFile EXCEPT !.schema = s] : s \in {"other", "unknown", "empty", "base"}}
  \cup {[NoFile EXCEPT !.schema = "base", !.meta = 5]}
  \cup {[NoFile EXCEPT !.schema = "base", !.meta = 1, !.turns = "nullable", !.rows = R] :
          R \in SUBSET (Ids \cup {Null})}
  \cup {[schema |-> "base", meta |-> 4, turns |-> t, retired |-> TRUE,
         guards |-> TRUE, rows |-> R, tombs |-> T] :
          t \in {"nullable", "notnull"}, R \in SUBSET (Ids \cup {Null}), T \in SUBSET Ids}

OpenInit ==
  /\ db \in {d \in Earlier : /\ d.rows \cap d.tombs = {}
                             /\ d.turns = "notnull" => Null \notin d.rows}
  /\ at = [p \in Processes |-> "out"]
  /\ language = [p \in Processes |-> "go"]
  /\ seen = [p \in Processes |-> "none"]

Version(d) == CASE d.schema = "base" -> "one"
                [] d.schema = "empty" -> "zero"
                [] OTHER -> "other"
HasTables(d) == d.schema \in {"base", "unknown"}

\* cmp_harness_meta is absent or of a version this engine knows.
KnownMeta(d) == d.meta \in 0..4

Move(p, from, to) == at[p] = from /\ at' = [at EXCEPT ![p] = to]

-----------------------------------------------------------------------------
(* The steps of an opener.                                                 *)

\* sqlite3_open creates the file. The command without --create has refused a path
\* where there is none.
Connect(p, lang) ==
  /\ Move(p, "out", "version")
  /\ language' = [language EXCEPT ![p] = lang]
  /\ db' = IF db.schema = "absent" THEN [db EXCEPT !.schema = "empty"] ELSE db
  /\ UNCHANGED seen

ReadVersion(p) ==
  /\ Move(p, "version", IF db.schema = "other" THEN "out" ELSE "tables")
  /\ seen' = [seen EXCEPT ![p] = Version(db)]
  /\ UNCHANGED <<db, language>>

\* Refused if the version is unknown, or if it was 0 and there are tables now.
ReadTables(p) ==
  /\ Move(p, "tables",
          CASE seen[p] = "zero" /\ ~HasTables(db) -> "base"
            [] seen[p] = "one" -> "validate"
            [] OTHER -> "out")
  /\ UNCHANGED <<db, language, seen>>

TablesAlone(d) == IF d.schema = "empty" THEN [d EXCEPT !.schema = "unknown"] ELSE d
\* base.sql: what is missing and the user_version, in one transaction.
BaseSchema(d) == [d EXCEPT !.schema = "base"]

CreateBase(p) ==
  /\ Move(p, "base", "validate")
  /\ db' = BaseSchema(db)
  /\ UNCHANGED <<language, seen>>

\* Python is connected when the base tables are there; the engine goes on if it
\* knows the version of the journal.
Validate(p) ==
  /\ Move(p, "validate",
          IF db.schema # "base" \/ (language[p] = "go" /\ ~KnownMeta(db)) THEN "out"
          ELSE IF language[p] = "go" THEN "probe" ELSE "connected")
  /\ UNCHANGED <<db, language, seen>>

\* turnRequestIDNullable
Probe(p) ==
  /\ Move(p, "probe", IF db.turns = "nullable" THEN "count" ELSE "journal")
  /\ UNCHANGED <<db, language, seen>>

\* countRows: the file with a NULL is left as it was found.
CountNulls(p) ==
  /\ Move(p, "count", IF Null \in db.rows THEN "out" ELSE "rebuild")
  /\ UNCHANGED <<db, language, seen>>

NotNullRows(d) == d.rows \ {Null}
\* INSERT INTO cmp_turns_rebuild SELECT ... FROM cmp_turns
CopiedRows(d) == d.rows

NoGuards(d) == FALSE
\* The guards went with the old table. They can name the tombstones only if that
\* table is there.
RebuiltGuards(d) == d.retired

\* rebuildTurnRequestID: one transaction, refused and rolled back by a NULL that
\* somebody has inserted since the count.
Rebuild(p) ==
  /\ \/ /\ Null \notin CopiedRows(db)
        /\ Move(p, "rebuild", "journal")
        /\ db' = [db EXCEPT !.turns = "notnull", !.rows = CopiedRows(db),
                            !.guards = RebuiltGuards(db)]
     \/ /\ Null \in CopiedRows(db)
        /\ Move(p, "rebuild", "out")
        /\ UNCHANGED db
  /\ UNCHANGED <<language, seen>>

JournalIfNew(d) ==
  IF d.meta # 0 THEN d
  ELSE [d EXCEPT !.meta = 4, !.turns = "notnull", !.retired = TRUE, !.guards = TRUE]
\* journal.sql: creates what is missing, in one transaction.
JournalSchema(d) ==
  [d EXCEPT !.meta = 4, !.turns = IF @ = "none" THEN "notnull" ELSE @,
            !.retired = TRUE, !.guards = TRUE]

CreateJournal(p) ==
  /\ Move(p, "journal", "connected")
  /\ db' = JournalSchema(db)
  /\ UNCHANGED <<language, seen>>

Opens == {"version", "tables", "base", "validate", "probe", "count", "rebuild",
          "journal"}

HasOpened(p) == at[p] \notin Opens \cup {"out"}

\* A busy or failing file ends the opening; a transaction under way is rolled back.
OpenFails(p) ==
  /\ at[p] \in Opens
  /\ at' = [at EXCEPT ![p] = "out"]
  /\ UNCHANGED <<db, language, seen>>

CloseDatabase(p) ==
  /\ Move(p, "connected", "out")
  /\ UNCHANGED <<db, language, seen>>

-----------------------------------------------------------------------------
(* Those who have it open.                                                 *)

\* ApplyRetention of a connected engine.
Retire(p, id) ==
  /\ at[p] = "connected" /\ language[p] = "go"
  /\ id \in db.rows
  /\ db' = [db EXCEPT !.rows = @ \ {id}, !.tombs = @ \cup {id}]
  /\ UNCHANGED <<at, language, seen>>

\* A turn inserted by any program, an engine of another version included: only the
\* schema of the file holds it back.
InsertTurn(id) ==
  /\ db.turns # "none"
  /\ id = Null => db.turns = "nullable"
  /\ db.guards => id \notin db.tombs
  /\ db' = [db EXCEPT !.rows = @ \cup {id}]
  /\ UNCHANGED <<at, language, seen>>

OpenNext ==
  \/ \E p \in Processes :
       \/ \E lang \in {"go", "python"} : Connect(p, lang)
       \/ ReadVersion(p) \/ ReadTables(p) \/ CreateBase(p) \/ Validate(p)
       \/ Probe(p) \/ CountNulls(p) \/ Rebuild(p) \/ CreateJournal(p)
       \/ OpenFails(p) \/ CloseDatabase(p)
       \/ \E id \in Ids : Retire(p, id)
  \/ \E id \in Ids \cup {Null} : InsertTurn(id)

-----------------------------------------------------------------------------
(* Properties.                                                             *)

\* Whoever has got an engine from Open serves a whole journal: no NULL is admitted and
\* the guards stand, although other openers, which have looked at the old table, go on
\* to drop and rebuild it (migrateTurnRequestID, journal.sql).
ServesWholeJournal ==
  (\E p \in Processes : HasOpened(p) /\ language[p] = "go")
    => /\ db.schema = "base" /\ db.meta = 4 /\ db.turns = "notnull"
       /\ db.retired /\ db.guards

\* A retired request ID is never a turn again, whoever inserts and however many times
\* the table is rebuilt under a connected writer.
RetiredStaysRetired == db.rows \cap db.tombs = {}

\* No opener loses a turn: a row leaves the table only for its tombstone, also one with
\* a NULL, which the migration refuses to delete.
NoTurnLost == [][db.rows \cup db.tombs \subseteq db'.rows \cup db'.tombs]_db

\* Openers may stop anywhere and start again: no step makes a file that cmpath opens
\* into one it refuses, and what it refuses is left as it was found.
Accepted(d) == d.schema \in {"absent", "empty"} \/ (d.schema = "base" /\ d.meta <= 4)
FilesStayAccepted ==
  [][IF Accepted(db) THEN Accepted(db') ELSE db' = db]_db

-----------------------------------------------------------------------------
(* The argument.                                                           *)

\* What is true of the file between any two transactions.
FileOK ==
  /\ db.schema # "base" => db.meta = 0
  /\ db.turns # "none" => db.schema = "base" /\ db.meta \in 1..4
  /\ db.retired = db.guards
  /\ db.tombs # {} => db.guards
  /\ RetiredStaysRetired

\* What an opener has seen of the file is still so, but for what has been added.
OpenersOK ==
  \A p \in Processes :
    /\ at[p] = "tables" /\ seen[p] = "one" => db.schema = "base"
    /\ at[p] = "tables" /\ seen[p] = "zero" => db.schema \in {"empty", "base"}
    /\ at[p] = "base" => db.schema \in {"empty", "base"}
    /\ at[p] \in {"probe", "count", "rebuild", "journal"}
         => language[p] = "go" /\ db.schema = "base" /\ db.meta \in 0..4
    /\ at[p] \in {"count", "rebuild"} => db.turns # "none"
    /\ at[p] = "journal" => db.turns # "nullable"

=============================================================================
