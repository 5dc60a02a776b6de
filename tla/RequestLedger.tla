---------------------------- MODULE RequestLedger ----------------------------
(***************************************************************************)
(* What the journal promises the hosts about request IDs, with no word of  *)
(* memory, workers, tools or tables: an ID stands for one input forever,   *)
(* its turn is open, then answered once or abandoned once, a task has at   *)
(* most one open turn, and retention forgets the answer but never the ID.  *)
(***************************************************************************)
CONSTANTS
  Requests,  \* request IDs
  Inputs,    \* what a request may ask; a record with a field task
  Replies,   \* answers
  NoReply    \* no answer yet, or no longer

VARIABLE ledger  \* the IDs used so far: [phase, input, reply]

Entry == [phase: {"pending", "committed", "aborted"}, input: Inputs,
          reply: Replies \cup {NoReply}]

Used == DOMAIN ledger
Busy(t) == \E q \in Used : ledger[q].phase = "pending" /\ ledger[q].input.task = t

Open(r, input) ==
  /\ r \notin Used
  /\ ~Busy(input.task)
  /\ ledger' = [q \in Used \cup {r} |->
                  IF q = r THEN [phase |-> "pending", input |-> input,
                                 reply |-> NoReply]
                           ELSE ledger[q]]

Answer(r, reply) ==
  /\ r \in Used
  /\ ledger[r].phase = "pending"
  /\ ledger' = [ledger EXCEPT ![r].phase = "committed", ![r].reply = reply]

Abandon(r) ==
  /\ r \in Used
  /\ ledger[r].phase = "pending"
  /\ ledger' = [ledger EXCEPT ![r].phase = "aborted"]

Forget(ids) ==
  /\ \A r \in ids : ledger[r].phase # "pending"
  /\ ledger' = [q \in Used |-> IF q \in ids
                                 THEN [ledger[q] EXCEPT !.reply = NoReply]
                                 ELSE ledger[q]]

Init == ledger = << >>

Next ==
  \/ \E r \in Requests, i \in Inputs : Open(r, i)
  \/ \E r \in Requests, y \in Replies : Answer(r, y)
  \/ \E r \in Requests : Abandon(r)
  \/ \E ids \in SUBSET Used : Forget(ids)

Spec == Init /\ [][Next]_ledger

=============================================================================
