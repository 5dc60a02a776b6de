----------------------------- MODULE Publishing -----------------------------
(***************************************************************************)
(* Writing a new file beside an open database: ExportFile of the engine    *)
(* and backup of TaskMemory, on file systems with and without hard links   *)
(* and on Windows. Both write a temporary file, sync it and give it the    *)
(* name only if the name is free, against each other, against programs     *)
(* that create the file first, and against crashes.                        *)
(*                                                                         *)
(* Abstracted: the temporary file, which is private and whole when it gets *)
(* its name; the sync of the directory. Others respect a name that is      *)
(* taken, a reservation included, as ExportFile asks of them; an operator  *)
(* removes an abandoned reservation as docs/RETENTION.md says.             *)
(***************************************************************************)
EXTENDS Opening

CONSTANTS
  Names,        \* of new files
  Foreign,      \* a file of another program
  MaxFiles      \* bound: files begun

ASSUME PublishingAssumption ==
  /\ MaxFiles \in Nat
  /\ Foreign \notin Nat

Files == 1..MaxFiles \cup {Foreign}

\* What is at a name: a whole file, a reservation, or one whose marker is not
\* written yet.
Entry == [kind: {"file", "marker", "blank"}, file: Files]
Free == [kind |-> "none", file |-> 0]

VARIABLES
  system,    \* posix or windows: what rename does to a name that is taken
  entry,     \* what is at each name
  target,    \* the name and the file of each process
  files,     \* files begun
  reported,  \* names and files reported published
  crashed,   \* files whose process died before the end
  unremoved  \* files whose reservation could not be read back or removed

pubVars == <<system, entry, target, files, reported, crashed, unremoved>>
vars == <<openVars, pubVars>>

Init ==
  /\ OpenInit
  /\ system \in {"posix", "windows"}
  /\ entry \in [Names -> {Free, [kind |-> "file", file |-> Foreign]}]
  /\ target \in {[p \in Processes |-> [name |-> n, file |-> 0]] : n \in Names}
  /\ files = 0 /\ reported = {} /\ crashed = {} /\ unremoved = {}

Exporting == {"link", "inspect", "rename", "reserve", "mark", "replace"}
Publishing == Exporting \cup {"backup", "done"}

Name(p) == target[p].name
Mine(p, kind) == [kind |-> kind, file |-> target[p].file]
Put(p, e) == entry' = [entry EXCEPT ![Name(p)] = e]
Published(p, step) == Move(p, step, "done") /\ Put(p, Mine(p, "file"))

-----------------------------------------------------------------------------
(* The steps of a publisher.                                               *)

\* The temporary file is written and synced. A backup looks at the name before, and
\* has only the hard link; an export tries the link first.
Prepare(p, n) ==
  /\ files < MaxFiles
  /\ \/ language[p] = "go" /\ Move(p, "connected", "link")
     \/ language[p] = "python" /\ Move(p, "connected", "backup") /\ entry[n] = Free
  /\ files' = files + 1
  /\ target' = [target EXCEPT ![p] = [name |-> n, file |-> files + 1]]
  /\ UNCHANGED <<db, language, seen, system, entry, reported, crashed,
                 unremoved>>

TakeAbandoned(e) == e.kind # "file"
\* link, O_CREATE|O_EXCL and MoveFile do not replace what is there.
Vacant(e) == e = Free

Link(p) ==
  /\ Vacant(entry[Name(p)])
  /\ Published(p, "link") \/ Published(p, "backup")
  /\ UNCHANGED <<db, language, seen, system, target, files, reported, crashed,
                 unremoved>>

\* The file system has no hard links, the name is taken, or another error.
LinkFails(p) ==
  /\ \/ Move(p, "link", "inspect")
     \/ Move(p, "backup", "connected")
  /\ UNCHANGED <<db, language, seen, pubVars>>

\* exportDestinationExists: only a name known to be free is tried again.
Inspect(p) ==
  /\ \/ Move(p, "inspect", "connected")
     \/ /\ entry[Name(p)] = Free
        /\ Move(p, "inspect", IF system = "windows" THEN "rename" ELSE "reserve")
  /\ UNCHANGED <<db, language, seen, pubVars>>

Rename(p) ==
  /\ \/ Vacant(entry[Name(p)]) /\ Published(p, "rename")
     \/ Move(p, "rename", "connected") /\ UNCHANGED entry
  /\ UNCHANGED <<db, language, seen, system, target, files, reported, crashed,
                 unremoved>>

\* reserveExportDestination, up to the open file.
Reserve(p) ==
  /\ \/ /\ Vacant(entry[Name(p)])
        /\ Move(p, "reserve", "mark")
        /\ Put(p, Mine(p, "blank"))
     \/ Move(p, "reserve", "connected") /\ UNCHANGED entry
  /\ UNCHANGED <<db, language, seen, system, target, files, reported, crashed,
                 unremoved>>

KeepsReservation(p, e) == entry' = entry /\ UNCHANGED unremoved
\* removeExportReservation: only what is exactly the marker of this export. When it
\* cannot be read or removed it stays, and nobody is told.
RemoveReservation(p, e) ==
  \/ /\ Put(p, IF e = Mine(p, "marker") THEN Free ELSE e)
     /\ UNCHANGED unremoved
  \/ /\ e = Mine(p, "marker")
     /\ Put(p, e)
     /\ unremoved' = unremoved \cup {target[p].file}

\* The marker is written and synced. A short write leaves something else there, which
\* is not removed; a failed sync a marker, which may be.
Mark(p) ==
  /\ \/ /\ Move(p, "mark", "replace")
        /\ Put(p, Mine(p, "marker"))
        /\ UNCHANGED unremoved
     \/ /\ Move(p, "mark", "connected")
        /\ \E kind \in {"blank", "marker"} : RemoveReservation(p, Mine(p, kind))
  /\ UNCHANGED <<db, language, seen, system, target, files, reported, crashed>>

\* rename replaces whatever is at the name.
Replace(p) ==
  /\ \/ Published(p, "replace") /\ UNCHANGED unremoved
     \/ Move(p, "replace", "connected") /\ RemoveReservation(p, entry[Name(p)])
  /\ UNCHANGED <<db, language, seen, system, target, files, reported, crashed>>

\* The caller is told.
Return(p) ==
  /\ Move(p, "done", "connected")
  /\ reported' = reported \cup {<<Name(p), target[p].file>>}
  /\ UNCHANGED <<db, language, seen, system, entry, target, files, crashed, unremoved>>

\* The process dies, with any opening or publication it is at.
Crash(p) ==
  /\ at[p] # "out"
  /\ at' = [at EXCEPT ![p] = "out"]
  /\ crashed' = IF at[p] \in Publishing THEN crashed \cup {target[p].file} ELSE crashed
  /\ UNCHANGED <<db, language, seen, system, entry, target, files, reported, unremoved>>

-----------------------------------------------------------------------------
(* The others.                                                             *)

OthersCreate(n) ==
  /\ entry[n] = Free
  /\ entry' = [entry EXCEPT ![n] = [kind |-> "file", file |-> Foreign]]
  /\ UNCHANGED <<openVars, system, target, files, reported, crashed, unremoved>>

\* The operator recognizes the marker and makes sure that no exporter is running.
ClearReservation(n) ==
  /\ entry[n].kind = "marker"
  /\ \A p \in Processes : at[p] \notin Exporting
  /\ entry' = [entry EXCEPT ![n] = Free]
  /\ UNCHANGED <<openVars, system, target, files, reported, crashed, unremoved>>

PublishNext ==
  \/ \E p \in Processes :
       \/ \E n \in Names : Prepare(p, n)
       \/ Link(p) \/ LinkFails(p) \/ Inspect(p) \/ Rename(p)
       \/ Reserve(p) \/ Mark(p) \/ Replace(p) \/ Return(p) \/ Crash(p)
  \/ \E n \in Names : OthersCreate(n) \/ ClearReservation(n)

Next == (OpenNext /\ UNCHANGED pubVars) \/ PublishNext

Spec == Init /\ [][Next]_vars

-----------------------------------------------------------------------------
(* Types and properties.                                                   *)

TypeOK ==
  /\ db \in Database
  /\ at \in [Processes -> {"out", "connected"} \cup Opens \cup Publishing]
  /\ language \in [Processes -> {"go", "python"}]
  /\ seen \in [Processes -> {"none", "zero", "one", "other"}]
  /\ system \in {"posix", "windows"}
  /\ entry \in [Names -> Entry \cup {Free}]
  /\ target \in [Processes -> [name: Names, file: 0..MaxFiles]]
  /\ files \in 0..MaxFiles
  /\ reported \subseteq Names \X (1..MaxFiles)
  /\ crashed \subseteq 1..MaxFiles /\ unremoved \subseteq 1..MaxFiles

Nobody == 0
Holder(e) == IF e.kind = "file" THEN e.file ELSE Nobody
Promise == INSTANCE NewFile WITH holder <- [n \in Names |-> Holder(entry[n])]

\* Archives and backups are whole when they appear, never replace a file or each other,
\* and stay: a name has one winner, and only the winner reports success (publishExport,
\* backup).
ImplementsNewFile == Promise!Spec

\* A reservation outlives its export only when the export died on it or could not read
\* it back or remove it: an export that fails in any other way takes its own away, and
\* that of nobody else (removeExportReservation; docs/RETENTION.md: "when it can verify
\* that the path still contains the exact marker").
ReservationsEnd ==
  \A n \in Names :
    entry[n].kind = "marker"
      => \/ entry[n].file \in crashed \cup unremoved
         \/ \E p \in Processes :
              at[p] = "replace" /\ target[p] = [name |-> n, file |-> entry[n].file]

-----------------------------------------------------------------------------
(* The argument.                                                           *)

\* A process has its own file, and what it has put at its name stays there until it
\* goes on.
PublishersOK ==
  /\ \A p \in Processes :
       /\ at[p] \in Publishing => target[p].file \in 1..files
       /\ target[p].file <= files
       /\ at[p] = "mark" => entry[Name(p)] = Mine(p, "blank")
       /\ at[p] = "replace" => entry[Name(p)] = Mine(p, "marker")
       /\ at[p] = "done" => entry[Name(p)] = Mine(p, "file")
  /\ \A p, q \in Processes :
       p # q /\ target[p].file # 0 => target[p].file # target[q].file

FilesInv ==
  TypeOK /\ FileOK /\ OpenersOK /\ ServesWholeJournal /\ PublishersOK /\ ReservationsEnd

=============================================================================
