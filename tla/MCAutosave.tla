----------------------------- MODULE MCAutosave -----------------------------
(***************************************************************************)
(* Small instances of Autosave for TLC: one session with one wire.         *)
(***************************************************************************)
EXTENDS Autosave, TLC

CONSTANTS a, b, c, z, g, s1, k1, w1, h1, h2

Symmetric == Permutations({h1, h2})

OneWire == [s \in {s1} |-> <<w1>>]
Prompts == [k \in {k1} |-> a]

\* The parser of version 1 makes no messages of b.
TwoParsers == [v \in {1, 2} |-> IF v = 1 THEN Texts \ {b} ELSE Texts]
OneParser == [v \in {1} |-> Texts]

\* Another file.
OtherFile == {<<[group |-> Alone, text |-> z]>>}
=============================================================================
