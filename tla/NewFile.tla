------------------------------- MODULE NewFile -------------------------------
(***************************************************************************)
(* What publishing a file promises: a name is taken once, by a whole file, *)
(* and whoever is told that it has published has.                          *)
(***************************************************************************)
CONSTANTS
  Names,
  Files,    \* the files that may come to stand at a name
  Nobody

VARIABLES
  holder,   \* the file at each name
  reported  \* what was reported published: pairs of a name and a file

Init == holder \in [Names -> Files \cup {Nobody}] /\ reported = {}

Take(n, f) ==
  /\ holder[n] = Nobody
  /\ holder' = [holder EXCEPT ![n] = f]
  /\ UNCHANGED reported

Report(n, f) ==
  /\ holder[n] = f
  /\ reported' = reported \cup {<<n, f>>}
  /\ UNCHANGED holder

Next == \E n \in Names, f \in Files : Take(n, f) \/ Report(n, f)

Spec == Init /\ [][Next]_<<holder, reported>>

=============================================================================
