------------------------------ MODULE Autosave ------------------------------
(***************************************************************************)
(* Automatic capture of sessions: hooks and heal sweeps, each a process of *)
(* its own on the same database, save the prompts of turns and the         *)
(* messages of transcripts (wires) to the task of the project. A call of   *)
(* the library reads the task, the dedup state of the task and the file in *)
(* separate steps and then writes what it found in one transaction; the    *)
(* host agent goes on writing the file meanwhile.                          *)
(*                                                                         *)
(* Abstracted: one project; a text stands for the redacted and truncated   *)
(* text that is hashed, so a content is its own digest; a line carries at  *)
(* most one message part and counts as one unit of size; files are never   *)
(* missing, and a line still being written is a line not there yet.        *)
(***************************************************************************)
EXTENDS Integers, Sequences, FiniteSets, FiniteSetsExt, SequencesExt

CONSTANTS
  Processes,
  Paths,           \* the wires
  Sessions,
  WiresOf,         \* the wires of a session directory, main agent first
  Turns,
  PromptOf,        \* the prompt of a turn
  NoTurn,          \* an event without a prompt
  NoPath,
  Groups, Alone,   \* group keys of streamed parts; a line on its own
  Texts,
  Versions,        \* versions of the parser, numbers
  Extracted,       \* the texts a version makes messages of
  HeadLines,       \* lines in the first 512 bytes
  PassCap,         \* 500
  SeenCap, HashCap, CursorCap,
  MaxHealPasses,   \* 64
  Replacements,    \* what a wire may be replaced with
  Repeats,         \* may a wire carry the same text twice?
  Deadlines,       \* may a hook run out of its time?
  MaxTasks, MaxLines, MaxWrites, MaxReplacements, MaxAborts, \* bounds
  MaxRows          \* bound: no call starts beyond it

ASSUME AutosaveAssumption ==
  /\ NoTurn \notin Turns /\ NoPath \notin Paths
  /\ WiresOf \in [Sessions -> Seq(Paths)]
  /\ PromptOf \in [Turns -> Texts]
  /\ Versions \subseteq Nat /\ Versions # {}
  /\ Extracted \in [Versions -> SUBSET Texts]
  /\ {HeadLines, PassCap, SeenCap, HashCap, CursorCap, MaxHealPasses, MaxLines}
       \subseteq Nat \ {0}
  /\ {MaxTasks, MaxWrites, MaxReplacements, MaxAborts, MaxRows} \subseteq Nat
  /\ \A lines \in Replacements :
       /\ lines \in Seq([group: Groups \cup {Alone}, text: Texts])
       /\ Len(lines) <= MaxLines
  /\ Repeats \in BOOLEAN /\ Deadlines \in BOOLEAN

VARIABLES
  wire,     \* the lines and the number of writes of each file
  version,  \* of the installed parser
  tasks,    \* how many tasks carry the alias of the project
  rows,     \* the messages, in the order they were appended
  state,    \* the fact autosave_state of each task
  job,      \* what each process holds
  replaced, aborts

vars == <<wire, version, tasks, rows, state, job, replaced, aborts>>

Lines == [group: Groups \cup {Alone}, text: Texts]

\* _state of a task without the fact. No fact can be written before the task
\* has a message for it to cite: anchored is last_evidence # None.
EmptyState == [seen |-> << >>, hashes |-> << >>, cursors |-> << >>,
               anchored |-> FALSE]

NoJob ==
  [at |-> "idle", heal |-> FALSE, version |-> 0, key |-> << >>, todo |-> << >>,
   sweep |-> {}, path |-> NoPath, passes |-> 0, task |-> 0,
   state |-> EmptyState, start |-> 0, rescan |-> FALSE, mark |-> << >>,
   stored |-> {}, entries |-> << >>, to |-> 0, early |-> FALSE]

Init ==
  /\ wire = [p \in Paths |-> [lines |-> << >>, writes |-> 0]]
  /\ version = Min(Versions)
  /\ tasks = 0
  /\ rows = << >>
  /\ state = [t \in 1..MaxTasks |-> EmptyState]
  /\ job = [p \in Processes |-> NoJob]
  /\ replaced = 0
  /\ aborts = 0

-----------------------------------------------------------------------------
(* Reading a wire: iter_wire_coalesced.                                    *)

\* The lines after one that carry something a version of the parser keeps.
Carrying(lines, from, v) ==
  {i \in from + 1 .. Len(lines) : lines[i].text \in Extracted[v]}

\* Line i continues the message of the carrying line before it.
Joined(lines, C, i) ==
  \E j \in C :
    /\ j < i /\ \A k \in C : ~(j < k /\ k < i)
    /\ lines[i].group # Alone /\ lines[i].group = lines[j].group

\* The lines of the message that starts at line i.
MessageLines(lines, C, i) ==
  {j \in C : j >= i /\ \A k \in C : i < k /\ k <= j => Joined(lines, C, k)}

\* The numbers of a set, ascending.
Ascending(S) ==
  CHOOSE s \in [1..Cardinality(S) -> S] :
    \A i, j \in DOMAIN s : i < j => s[i] < s[j]

\* The messages after line from, by their first lines.
Messages(lines, from, v) ==
  LET C == Carrying(lines, from, v)
  IN [i \in {i \in C : ~Joined(lines, C, i)} |->
        LET own == MessageLines(lines, C, i)
            parts == Ascending(own)
        IN [last |-> Max(own),
            content |-> [k \in DOMAIN parts |-> lines[parts[k]].text]]]

WholeList(s, n) == s
LastN(s, n) == SubSeq(s, Max({1, Len(s) - n + 1}), Len(s))

\* _file_marker: mtime, size and head.
Marker(p) ==
  [mtime |-> wire[p].writes, size |-> Len(wire[p].lines),
   head |-> SubSeq(wire[p].lines, 1, Min({HeadLines, Len(wire[p].lines)}))]

-----------------------------------------------------------------------------
(* What a process does. A call is save_turn when it has no path yet, and   *)
(* ingest_transcript of that path otherwise.                               *)

Goes(p, holding) == job' = [job EXCEPT ![p] = holding]

At(p, place) == job[p].at = place

\* run_hook of an event of turn k in session s.
StartHook(p, s, k) ==
  /\ At(p, "idle") /\ Len(rows) < MaxRows
  /\ Goes(p, [NoJob EXCEPT !.at = "resolve", !.version = version,
                           !.key = <<s, k>>, !.todo = WiresOf[s]])
  /\ UNCHANGED <<wire, version, tasks, rows, state, replaced, aborts>>

\* run_heal reads the list of tasks once.
StartHeal(p) ==
  /\ At(p, "idle") /\ Len(rows) < MaxRows
  /\ Goes(p, [NoJob EXCEPT !.at = "next", !.version = version, !.heal = TRUE,
                           !.sweep = 1..tasks])
  /\ UNCHANGED <<wire, version, tasks, rows, state, replaced, aborts>>

\* The first task that carries the alias, if there is one.
ResolveTask(p) ==
  /\ At(p, "resolve")
  /\ Goes(p, IF tasks > 0 THEN [job[p] EXCEPT !.at = "read", !.task = 1]
                          ELSE [job[p] EXCEPT !.at = "create"])
  /\ UNCHANGED <<wire, version, tasks, rows, state, replaced, aborts>>

\* create_task, in a transaction of its own.
CreateTask(p) ==
  /\ At(p, "create")
  /\ tasks < MaxTasks
  /\ tasks' = tasks + 1
  /\ Goes(p, [job[p] EXCEPT !.at = "read", !.task = tasks + 1])
  /\ UNCHANGED <<wire, version, rows, state, replaced, aborts>>

ReadState(p) ==
  /\ At(p, "read")
  /\ Goes(p, [job[p] EXCEPT
                !.at = IF job[p].path = NoPath THEN "turn" ELSE "look",
                !.state = state[job[p].task]])
  /\ UNCHANGED <<wire, version, tasks, rows, state, replaced, aborts>>

\* The job between two calls of the library.
Between(j) ==
  [NoJob EXCEPT !.at = "next", !.heal = j.heal, !.version = j.version,
                !.todo = j.todo, !.sweep = j.sweep, !.passes = j.passes]

-----------------------------------------------------------------------------
(* save_turn.                                                              *)

TurnContent(j) == <<PromptOf[j.key[2]]>>

NeverSeen(j) == FALSE
Seen(j) == j.key \in Range(j.state.seen)

\* Empty prompts and turns known to the state as it was read add nothing.
TurnIsNew(j) ==
  /\ j.key[2] # NoTurn
  /\ ~Seen(j)
  /\ TurnContent(j) \notin Range(j.state.hashes)

SkipTurn(p) ==
  /\ At(p, "turn")
  /\ ~TurnIsNew(job[p])
  /\ Goes(p, Between(job[p]))
  /\ UNCHANGED <<wire, version, tasks, rows, state, replaced, aborts>>

\* The state as it was read with the turn added, whatever it is by now.
TurnState(j) ==
  [j.state EXCEPT !.seen = LastN(Append(@, j.key), SeenCap),
                  !.hashes = LastN(Append(@, TurnContent(j)), HashCap),
                  !.cursors = LastN(@, CursorCap),
                  !.anchored = TRUE]

FactAlone(p) ==
  /\ At(p, "turn")
  /\ TurnIsNew(job[p])
  /\ state' = [state EXCEPT ![job[p].task] = TurnState(job[p])]
  /\ Goes(p, NoJob)
  /\ UNCHANGED <<wire, version, tasks, rows, replaced, aborts>>

\* The row and the fact in one batch.
StoreTurn(p) ==
  LET j == job[p]
  IN /\ At(p, "turn")
     /\ TurnIsNew(j)
     /\ rows' = Append(rows, [task |-> j.task, kind |-> "prompt",
                              from |-> j.key, content |-> TurnContent(j)])
     /\ state' = [state EXCEPT ![j.task] = TurnState(j)]
     /\ Goes(p, Between(j))
     /\ UNCHANGED <<wire, version, tasks, replaced, aborts>>

-----------------------------------------------------------------------------
(* ingest_session_dir and the sweep of run_heal.                           *)

NextWire(p) ==
  /\ At(p, "next") /\ job[p].todo # << >>
  /\ Goes(p, [job[p] EXCEPT !.at = "resolve", !.path = Head(job[p].todo)])
  /\ UNCHANGED <<wire, version, tasks, rows, state, replaced, aborts>>

\* The keys of the cursors of the next task are the wires to heal.
SweepTask(p) ==
  LET j == job[p]
      t == Min(j.sweep)
      cursors == state[t].cursors
  IN /\ At(p, "next") /\ j.todo = << >> /\ j.sweep # {}
     /\ Goes(p, [j EXCEPT !.sweep = @ \ {t},
                          !.todo = [i \in DOMAIN cursors |-> cursors[i].path]])
     /\ UNCHANGED <<wire, version, tasks, rows, state, replaced, aborts>>

\* All wires are done, or a hook notices between two that its time is over.
Finish(p) ==
  /\ At(p, "next")
  /\ \/ (job[p].todo = << >> /\ job[p].sweep = {})
     \/ (Deadlines /\ ~job[p].heal)
  /\ Goes(p, NoJob)
  /\ UNCHANGED <<wire, version, tasks, rows, state, replaced, aborts>>

\* A pass over the wire is over: heal repeats it while it adds something.
AfterPass(j, added) ==
  IF j.heal /\ added > 0 /\ j.passes + 1 < MaxHealPasses
  THEN [Between(j) EXCEPT !.passes = @ + 1]
  ELSE [Between(j) EXCEPT !.passes = 0, !.todo = Tail(@)]

-----------------------------------------------------------------------------
(* ingest_transcript.                                                      *)

NoCursor == [path |-> NoPath, line |-> 0, mark |-> << >>, complete |-> TRUE,
             parser |-> 0]

CursorOf(cursors, path) ==
  LET own == {i \in DOMAIN cursors : cursors[i].path = path}
  IN IF own = {} THEN NoCursor ELSE cursors[CHOOSE i \in own : TRUE]

SameFile(mark, seen) == mark.mtime = seen.mtime /\ mark.size = seen.size

AnyParserResumed(j, cursor) == FALSE
\* A cursor of another parser is not resumed, whatever the file looks like.
OtherParser(j, cursor) == cursor.line > 0 /\ cursor.parser # j.version

Unchanged(j, cursor, mark) ==
  /\ ~j.heal /\ cursor.line > 0 /\ ~OtherParser(j, cursor)
  /\ cursor.complete /\ SameFile(mark, cursor.mark)

LongerFile(mark, cursor) ==
  mark.size > cursor.mark.size \/ SameFile(mark, cursor.mark)
\* An append, or the same file resuming an incomplete pass.
Resumes(mark, cursor) ==
  /\ mark.head = cursor.mark.head
  /\ mark.size > cursor.mark.size \/ SameFile(mark, cursor.mark)

Restarts(j, cursor, mark) ==
  \/ j.heal \/ OtherParser(j, cursor)
  \/ (cursor.line > 0 /\ ~Resumes(mark, cursor))

\* The marker is taken before the file is read, and decides where to start.
LookAtWire(p) ==
  LET j == job[p]
      cursor == CursorOf(j.state.cursors, j.path)
      mark == Marker(j.path)
  IN /\ At(p, "look")
     /\ Goes(p,
          IF Unchanged(j, cursor, mark) THEN AfterPass(j, 0)
          ELSE IF Restarts(j, cursor, mark)
            THEN [j EXCEPT !.at = "digests", !.mark = mark, !.rescan = TRUE]
          ELSE [j EXCEPT !.at = "scan", !.mark = mark, !.start = cursor.line])
     /\ UNCHANGED <<wire, version, tasks, rows, state, replaced, aborts>>

WireRows(j) ==
  {i \in DOMAIN rows : /\ rows[i].task = j.task
                       /\ rows[i].kind = "wire" /\ rows[i].from = j.path}

HealDigests(j) == IF j.heal THEN {rows[i].content : i \in WireRows(j)} ELSE {}
\* _wire_digests.
WireDigests(j) == {rows[i].content : i \in WireRows(j)}

\* A scan that restarts at line 0 filters against what the path has stored.
ReadDigests(p) ==
  LET j == job[p]
  IN /\ At(p, "digests")
     /\ Goes(p, [j EXCEPT !.at = "scan", !.stored = WireDigests(j)])
     /\ UNCHANGED <<wire, version, tasks, rows, state, replaced, aborts>>

ReachByMessages(all, new) ==
  {i \in all : Cardinality({n \in all : n < i}) < PassCap}
\* The messages before the cap: it counts those that are new.
Reach(all, new) ==
  {i \in all : Cardinality({n \in new : n < i}) < PassCap}

StopsAtDeadline(reach, read, added) == read # reach
\* A pass that may have left something: it is not recorded as complete.
StopsEarly(reach, read, added) == read # reach \/ added >= PassCap

\* What a pass makes of the messages M of the file. It reads those the cap
\* lets it reach, or those before the one at which it finds its time over.
Pass(j, M, stop) ==
  LET known == Range(j.state.hashes) \cup j.stored
      new == {i \in DOMAIN M : M[i].content \notin known}
      reach == Reach(DOMAIN M, new)
      read == {i \in reach : i < stop}
      added == Ascending(read \cap new)
  IN [entries |-> [k \in DOMAIN added |-> M[added[k]].content],
      to |-> Max({M[i].last : i \in read} \cup {j.start}),
      early |-> StopsEarly(reach, read, Len(added))]

\* A hook may run out of time at any message; heal has no deadline.
Passes(j) ==
  LET lines == wire[j.path].lines
      end == Len(lines) + 1
  IN {Pass(j, M, stop) :
        M \in {Messages(lines, j.start, j.version)},
        stop \in IF Deadlines /\ ~j.heal THEN 1..end ELSE {end}}

\* A pass without a message leaves no trace.
ScanWire(p) ==
  LET j == job[p]
  IN /\ At(p, "scan")
     /\ \E pass \in Passes(j) :
          Goes(p, IF pass.to <= j.start THEN AfterPass(j, 0)
                  ELSE [j EXCEPT !.at = "store", !.to = pass.to,
                          !.entries = pass.entries, !.early = pass.early])
     /\ UNCHANGED <<wire, version, tasks, rows, state, replaced, aborts>>

\* A dict keeps the place of a key that is written again.
PutCursor(cursors, cursor) ==
  IF \E i \in DOMAIN cursors : cursors[i].path = cursor.path
  THEN [i \in DOMAIN cursors |->
          IF cursors[i].path = cursor.path THEN cursor ELSE cursors[i]]
  ELSE Append(cursors, cursor)

\* The state after a pass: the one read before it, with the pass added.
PassState(j) ==
  [j.state EXCEPT
     !.seen = LastN(@, SeenCap),
     !.hashes = LastN(@ \o j.entries, HashCap),
     !.cursors = LastN(PutCursor(@, [path |-> j.path, line |-> j.to,
                                     mark |-> j.mark, complete |-> ~j.early,
                                     parser |-> j.version]), CursorCap),
     !.anchored = TRUE]

\* One batch: the rows and, once there is a message to cite, the fact.
StorePass(p) ==
  LET j == job[p]
  IN /\ At(p, "store")
     /\ rows' = rows \o [k \in DOMAIN j.entries |->
                           [task |-> j.task, kind |-> "wire", from |-> j.path,
                            content |-> j.entries[k]]]
     /\ state' = IF j.state.anchored \/ j.entries # << >>
                 THEN [state EXCEPT ![j.task] = PassState(j)]
                 ELSE state
     /\ Goes(p, AfterPass(j, Len(j.entries)))
     /\ UNCHANGED <<wire, version, tasks, replaced, aborts>>

-----------------------------------------------------------------------------
(* The rest of the world.                                                  *)

\* A process is killed, or a call raises: a hook swallows the exception and
\* ends, heal notes it and goes on with the next wire.
Abort(p) ==
  LET j == job[p]
  IN /\ ~At(p, "idle")
     /\ aborts < MaxAborts
     /\ aborts' = aborts + 1
     /\ \/ Goes(p, NoJob)
        \/ /\ j.heal /\ j.path # NoPath
           /\ Goes(p, [Between(j) EXCEPT !.passes = 0, !.todo = Tail(@)])
     /\ UNCHANGED <<wire, version, tasks, rows, state, replaced>>

\* The agent appends a line.
AppendLine(p, line) ==
  /\ wire[p].writes < MaxWrites /\ Len(wire[p].lines) < MaxLines
  /\ \/ Repeats
     \/ \A i \in DOMAIN wire[p].lines : wire[p].lines[i].text # line.text
  /\ wire' = [wire EXCEPT ![p] = [lines |-> Append(@.lines, line),
                                  writes |-> @.writes + 1]]
  /\ UNCHANGED <<version, tasks, rows, state, job, replaced, aborts>>

\* Something rewrites, truncates or replaces the file.
ReplaceWire(p, lines) ==
  /\ wire[p].writes < MaxWrites /\ replaced < MaxReplacements
  /\ wire' = [wire EXCEPT ![p] = [lines |-> lines, writes |-> @.writes + 1]]
  /\ replaced' = replaced + 1
  /\ UNCHANGED <<version, tasks, rows, state, job, aborts>>

\* Another version of the parser is installed.
Upgrade ==
  /\ version + 1 \in Versions
  /\ version' = version + 1
  /\ UNCHANGED <<wire, tasks, rows, state, job, replaced, aborts>>

Step(p) ==
  \/ ResolveTask(p) \/ CreateTask(p) \/ ReadState(p)
  \/ SkipTurn(p) \/ StoreTurn(p)
  \/ NextWire(p) \/ SweepTask(p) \/ Finish(p)
  \/ LookAtWire(p) \/ ReadDigests(p) \/ ScanWire(p) \/ StorePass(p)

Next ==
  \/ \E p \in Processes :
       \/ \E s \in Sessions, k \in Turns \cup {NoTurn} : StartHook(p, s, k)
       \/ StartHeal(p)
       \/ Step(p)
       \/ Abort(p)
  \/ \E p \in Paths :
       \/ \E line \in Lines : AppendLine(p, line)
       \/ \E lines \in Replacements : ReplaceWire(p, lines)
  \/ Upgrade

Spec == Init /\ [][Next]_vars

(* Events of a session keep firing hooks, whatever else was started in the *)
(* meantime, and a process that is not killed goes on.                     *)
Fairness ==
  \A p \in Processes :
    /\ SF_vars(\E s \in Sessions : StartHook(p, s, NoTurn))
    /\ WF_vars(Step(p))

FairSpec == Spec /\ Fairness

-----------------------------------------------------------------------------
(* Properties.                                                             *)

Contents == UNION {[1..n -> Texts] : n \in 1..MaxLines}
Keys == Sessions \X (Turns \cup {NoTurn})

TypeOK ==
  /\ \A p \in Paths : /\ wire[p].lines \in Seq(Lines)
                      /\ wire[p].writes \in 0..MaxWrites
  /\ version \in Versions
  /\ tasks \in 0..MaxTasks
  /\ \A i \in DOMAIN rows :
       /\ rows[i].task \in 1..tasks
       /\ rows[i].content \in Contents
       /\ \/ rows[i].kind = "prompt" /\ rows[i].from \in Keys
          \/ rows[i].kind = "wire" /\ rows[i].from \in Paths
  /\ \A t \in 1..MaxTasks :
       /\ state[t].seen \in Seq(Keys) /\ Len(state[t].seen) <= SeenCap
       /\ state[t].hashes \in Seq(Contents) /\ Len(state[t].hashes) <= HashCap
       /\ Len(state[t].cursors) <= CursorCap
       /\ state[t].anchored \in BOOLEAN
  /\ \A p \in Processes :
       job[p].at \in {"idle", "resolve", "create", "read", "turn", "next",
                      "look", "digests", "scan", "store"}

\* Task t holds a message that contains a text.
Holds(t, text) ==
  \E i \in DOMAIN rows : rows[i].task = t /\ text \in Range(rows[i].content)

\* The dedup state never claims more than the task holds: each digest of the
\* window and each seen turn is that of a message the task has. A digest
\* without one would drop its text for good (save_turn and ingest_transcript,
\* which write rows and fact in one batch from a state read before).
SavedMeansStored ==
  \A t \in 1..MaxTasks :
    /\ \A content \in Range(state[t].hashes) :
         \E i \in DOMAIN rows : rows[i].task = t /\ rows[i].content = content
    /\ \A key \in Range(state[t].seen) : Holds(t, PromptOf[key[2]])

\* What a recorded cursor lets the next pass skip is stored: the lines up to
\* it when the pass would resume there, the whole file when it would leave
\* the file unread (the decision of ingest_transcript on the marker, the
\* complete flag and the parser stamp; "new content is never silently
\* skipped", docs/AUTOSAVE.md).
NothingSkipped ==
  \A t \in 1..MaxTasks : \A i \in DOMAIN state[t].cursors :
    LET cursor == state[t].cursors[i]
        lines == wire[cursor.path].lines
        mark == Marker(cursor.path)
        skips(n) == \/ n <= cursor.line
                    \/ cursor.complete /\ SameFile(mark, cursor.mark)
    IN Resumes(mark, cursor) =>
         \A n \in Carrying(lines, 0, cursor.parser) :
           skips(n) => Holds(t, lines[n].text)

\* A scan that restarts at line 0 adds nothing its path already has, however
\* little the window of digests remembers (the stored digests that rebuild and
\* reset filter against). For one process.
RescanAddsOnlyNew ==
  \A p \in Processes :
    LET j == job[p]
    IN At(p, "store") /\ j.rescan =>
         \A i \in DOMAIN rows :
           /\ rows[i].kind = "wire"
           /\ rows[i].task = j.task /\ rows[i].from = j.path
           => rows[i].content \notin Range(j.entries)

\* "The re-scan cannot duplicate a message" (autosave.py): for wires that do not
\* repeat one.
StoredOncePerPath ==
  \A i, j \in DOMAIN rows :
    /\ i # j
    /\ rows[i].kind = "wire" /\ rows[j].kind = "wire"
    /\ rows[i].task = rows[j].task /\ rows[i].from = rows[j].from
    => rows[i].content # rows[j].content

\* A heal pass that is about to add nothing has read the wire to its end and
\* found all of it stored: heal stops there ("the first pass that adds
\* nothing is the proof the wire is now fully stored", run_heal).
EmptyPassIsProof ==
  \A p \in Processes :
    LET j == job[p]
        lines == wire[j.path].lines
    IN At(p, "store") /\ j.heal /\ j.entries = << >> =>
         /\ ~j.early
         /\ j.mark.mtime = wire[j.path].writes =>
              \A n \in Carrying(lines, 0, j.version) :
                Holds(j.task, lines[n].text)

\* One delivery of a turn is saved, and the later ones add nothing: the keys
\* in seen (save_turn; the hooks of TurnStarted, Stop and SessionEnd).
TurnSavedOnce ==
  \A i, j \in DOMAIN rows :
    i # j /\ rows[i].kind = "prompt" /\ rows[j].kind = "prompt"
    => rows[i].from # rows[j].from

\* Each text the parser makes a message of is saved in the end, or goes from
\* the file: no cap, append during a pass or upgrade leaves a hole for good
\* (the complete flag and the parser stamp of the cursors).
Captured ==
  \A p \in Paths, text \in Texts :
    LET there == \E i \in DOMAIN wire[p].lines : wire[p].lines[i].text = text
    IN there /\ text \in Extracted[version]
       ~> ~there \/ \E t \in 1..MaxTasks : Holds(t, text)
=============================================================================
