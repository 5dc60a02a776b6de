---------------------------- MODULE LedgerProofs ----------------------------
(***************************************************************************)
(* The journal implements RequestLedger. The refinement needs to know that *)
(* a request has one tombstone at most and none while its turn is there:   *)
(* what Begin checks before it takes an ID, and what ApplyRetention leaves *)
(* behind when it deletes the turn.                                        *)
(***************************************************************************)
EXTENDS TurnJournalProofs

\* One tombstone per retired request, and no turn beside it.
TombstonesFinal ==
  /\ \A d, e \in tombstone : d.request = e.request => d = e
  /\ \A d \in tombstone : d.request \notin Begun

\* Tombstones change by ApplyRetention alone.
LEMMA TombstoneStep ==
  ASSUME [Next]_vars, \A o \in Operators : ~ApplyRetention(o)
  PROVE  tombstone' = tombstone
<1>1. CASE StoreWrite \/ Tick \/ UNCHANGED vars \/ \E o \in Operators, n \in Times : RetentionPlan(o, n)
  BY <1>1 DEF StoreWrite, Tick, vars, journalVars, RetentionPlan
<1>2. ASSUME NEW r \in Requests,
             \/ \E i \in Inputs : Begin(r, i)
             \/ \E g \in Generations :
                  \/ Recover(r, g) \/ Abort(r, g) \/ \E y \in Replies : Commit(r, g, y)
                  \/ \E c \in Calls :
                       \/ \E a \in Args : StartTool(r, g, c, a)
                       \/ \E l \in Ttls : ActionEligible(r, g, c, l)
                       \/ \E x \in Results : RecordResult(r, g, c, x)
                       \/ \E p \in Payloads : RecordModelRequest(r, g, c, p)
                       \/ \E x \in Responses : RecordModelResponse(r, g, c, x)
      PROVE  tombstone' = tombstone
  BY <1>2, ZenonT(60) DEF Begin, Recover, Abort, Commit, StartTool, ActionEligible, RecordResult,
              RecordModelRequest, RecordModelResponse
<1> QED
  BY <1>1, <1>2, Zenon DEF Next, FinishTool, FinishToolUnderLease

\* What applying a plan does to turns and tombstones.
LEMMA RetirementStep ==
  ASSUME TypeOK, TombstonesFinal, NEW o \in Operators, ApplyRetention(o)
  PROVE  LET ids == Eligible(plan[o].cutoff)
         IN  /\ ids \subseteq Begun
             /\ \A r \in ids : turn[r].status \in {"committed", "aborted"}
             /\ Begun' = Begun \ ids
             /\ \A r \in Begun' : turn'[r] = turn[r]
             /\ tombstone' = tombstone \cup
                  {[request |-> r, input |-> turn[r].input, status |-> turn[r].status] : r \in ids}
<1> DEFINE ids == Eligible(plan[o].cutoff)
<1>1. ids \subseteq Begun /\ \A r \in ids : turn[r].status \in {"committed", "aborted"}
  BY DEF Eligible
<1>2. Begun' = Begun \ ids /\ \A r \in Begun' : turn'[r] = turn[r]
  BY DEF ApplyRetention, Begun
<1>3. ids \ Retired = ids
  BY <1>1 DEF TombstonesFinal, Retired
<1>4. tombstone' = tombstone \cup
        {[request |-> r, input |-> turn[r].input, status |-> turn[r].status] : r \in ids}
  BY <1>3 DEF ApplyRetention
<1> QED  BY <1>1, <1>2, <1>4

\* Retention never leaves an ID with two tombstones, and Begin never reuses one.
THEOREM OneTombstone == Spec => []TombstonesFinal
<1>1. Init => TombstonesFinal
  BY DEF Init, TombstonesFinal
<1>2. ASSUME TypeOK, TombstonesFinal, [Next]_vars
      PROVE  TombstonesFinal'
  <2>1. CASE \A o \in Operators : ~ApplyRetention(o)
    <3>1. tombstone' = tombstone
      BY <1>2, <2>1, TombstoneStep
    <3>2. \A r \in Begun' \ Begun : r \notin Retired
      BY <1>2, TurnStep DEF Begin
    <3> QED  BY <1>2, <3>1, <3>2 DEF TombstonesFinal, Retired
  <2>2. ASSUME NEW o \in Operators, ApplyRetention(o)
        PROVE  TombstonesFinal'
    <3> DEFINE ids == Eligible(plan[o].cutoff)
               grave(r) == [request |-> r, input |-> turn[r].input, status |-> turn[r].status]
    <3>1. /\ ids \subseteq Begun /\ Begun' = Begun \ ids
          /\ tombstone' = tombstone \cup {grave(r) : r \in ids}
      BY <1>2, <2>2, RetirementStep
    <3>2. \A r : grave(r).request = r
      OBVIOUS
    <3> HIDE DEF ids, grave
    <3> QED  BY <1>2, <3>1, <3>2 DEF TombstonesFinal
  <2> QED  BY <2>1, <2>2
<1> QED  BY <1>1, <1>2, Typed, PTL DEF Spec

-----------------------------------------------------------------------------
(* The refinement.                                                         *)

\* What the ledger holds for a turn and for a tombstone.
LedgerRows ==
  /\ DOMAIN LedgerView = Begun \cup Retired
  /\ LedgerView = [r \in DOMAIN LedgerView |-> LedgerView[r]]
  /\ \A r \in Begun : LedgerView[r] =
       [phase |-> turn[r].status, input |-> turn[r].input, reply |-> turn[r].reply]
  /\ \A d \in tombstone : LedgerView[d.request] =
       [phase |-> d.status, input |-> d.input, reply |-> NoReply]

LEMMA LedgerIsRead == TombstonesFinal => LedgerRows
<1> SUFFICES ASSUME TombstonesFinal PROVE LedgerRows
  OBVIOUS
<1>1. ASSUME NEW d \in tombstone
      PROVE  LedgerView[d.request] = [phase |-> d.status, input |-> d.input, reply |-> NoReply]
  <2>1. d.request \in Retired /\ d.request \notin Begun
    BY DEF TombstonesFinal, Retired
  <2>2. (CHOOSE e \in tombstone : e.request = d.request) = d
    BY DEF TombstonesFinal
  <2> QED  BY <2>1, <2>2 DEF LedgerView
<1>2. ASSUME NEW r \in Begun
      PROVE  LedgerView[r] =
               [phase |-> turn[r].status, input |-> turn[r].input, reply |-> turn[r].reply]
  BY DEF LedgerView
<1>3. DOMAIN LedgerView = Begun \cup Retired
  BY DEF LedgerView
<1>4. LedgerView = [r \in DOMAIN LedgerView |-> LedgerView[r]]
  BY DEF LedgerView
<1> QED  BY <1>1, <1>2, <1>3, <1>4 DEF LedgerRows

\* The turns and tombstones decide the ledger.
LEMMA LedgerUnchanged ==
  ASSUME LedgerRows, LedgerRows', tombstone' = tombstone, Begun' = Begun,
         \A r \in Begun : /\ turn'[r].status = turn[r].status
                          /\ turn'[r].input = turn[r].input
                          /\ turn'[r].reply = turn[r].reply
  PROVE  LedgerView' = LedgerView
<1>1. Retired' = Retired
  BY DEF Retired
<1>2. DOMAIN LedgerView' = DOMAIN LedgerView
  BY <1>1 DEF LedgerRows
<1>3. ASSUME NEW r \in DOMAIN LedgerView
      PROVE  LedgerView'[r] = LedgerView[r]
  <2>1. CASE r \in Begun
    BY <2>1 DEF LedgerRows
  <2>2. CASE r \in Retired
    <3>1. PICK d \in tombstone : d.request = r
      BY <2>2 DEF Retired
    <3>2. LedgerView[r] = [phase |-> d.status, input |-> d.input, reply |-> NoReply]
      BY <3>1 DEF LedgerRows
    <3>3. LedgerView'[r] = [phase |-> d.status, input |-> d.input, reply |-> NoReply]
      BY <3>1 DEF LedgerRows
    <3> QED  BY <3>2, <3>3
  <2> QED  BY <2>1, <2>2 DEF LedgerRows
<1> QED  BY <1>2, <1>3 DEF LedgerRows

LEMMA BeginOpens ==
  ASSUME TypeOK, LedgerRows, LedgerRows', NEW r \in Requests, NEW i \in Inputs, Begin(r, i)
  PROVE  Ledger!Open(r, i)
<1>1. /\ Begun' = Begun \cup {r} /\ r \notin Begun /\ r \notin Retired /\ ~Busy(i.task)
      /\ \A q \in Begun : turn'[q] = turn[q]
      /\ turn'[r].status = "pending" /\ turn'[r].input = i /\ turn'[r].reply = NoReply
      /\ tombstone' = tombstone
  BY DEF Begin, Put, Begun
<1>2. r \notin DOMAIN LedgerView
  BY <1>1 DEF LedgerRows
<1>3. ~Ledger!Busy(i.task)
  <2> SUFFICES ASSUME NEW q \in DOMAIN LedgerView, LedgerView[q].phase = "pending",
                      LedgerView[q].input.task = i.task
               PROVE  FALSE
    BY DEF Ledger!Busy, Ledger!Used
  <2>1. CASE q \in Begun
    BY <1>1, <2>1 DEF LedgerRows, Busy
  <2>2. CASE q \in Retired
    <3>1. PICK d \in tombstone : d.request = q
      BY <2>2 DEF Retired
    <3>2. d.status \in {"committed", "aborted"}
      BY <3>1 DEF TypeOK, JournalTypeOK
    <3>3. LedgerView[q] = [phase |-> d.status, input |-> d.input, reply |-> NoReply]
      BY <3>1 DEF LedgerRows
    <3> QED  BY <3>2, <3>3
  <2> QED  BY <2>1, <2>2 DEF LedgerRows
<1> DEFINE opened == [phase |-> "pending", input |-> i, reply |-> NoReply]
<1>4. LedgerView' = [q \in DOMAIN LedgerView \cup {r} |->
                       IF q = r THEN opened ELSE LedgerView[q]]
  <2>1. Retired' = Retired
    BY <1>1 DEF Retired
  <2>2. DOMAIN LedgerView' = DOMAIN LedgerView \cup {r}
    BY <1>1, <2>1 DEF LedgerRows
  <2>3. LedgerView'[r] = opened
    BY <1>1 DEF LedgerRows
  <2>4. ASSUME NEW q \in DOMAIN LedgerView
        PROVE  LedgerView'[q] = LedgerView[q]
    <3>1. CASE q \in Begun
      BY <1>1, <3>1 DEF LedgerRows
    <3>2. CASE q \in Retired
      <4>1. PICK d \in tombstone : d.request = q
        BY <3>2 DEF Retired
      <4>2. LedgerView[q] = [phase |-> d.status, input |-> d.input, reply |-> NoReply]
        BY <4>1 DEF LedgerRows
      <4>3. LedgerView'[q] = [phase |-> d.status, input |-> d.input, reply |-> NoReply]
        BY <1>1, <4>1 DEF LedgerRows
      <4> QED  BY <4>2, <4>3
    <3> QED  BY <3>1, <3>2 DEF LedgerRows
  <2>5. LedgerView' = [q \in DOMAIN LedgerView' |-> LedgerView'[q]]
    BY DEF LedgerRows
  <2> HIDE DEF opened
  <2> QED  BY <1>2, <2>2, <2>3, <2>4, <2>5
<1> QED  BY <1>2, <1>3, <1>4 DEF Ledger!Open, Ledger!Used

\* Ending a turn rewrites its ledger entry and no other.
LEMMA EndingIsLedgered ==
  ASSUME TypeOK, LedgerRows, LedgerRows', NEW r \in Begun,
         NEW row, turn' = [turn EXCEPT ![r] = row], tombstone' = tombstone
  PROVE  LedgerView' = [LedgerView EXCEPT ![r] =
           [phase |-> row.status, input |-> row.input, reply |-> row.reply]]
<1> DEFINE entry == [phase |-> row.status, input |-> row.input, reply |-> row.reply]
<1>1. Begun' = Begun /\ turn'[r] = row /\ \A q \in Begun : q # r => turn'[q] = turn[q]
  BY DEF Begun
<1>2. Retired' = Retired
  BY DEF Retired
<1>3. DOMAIN LedgerView' = DOMAIN LedgerView
  BY <1>1, <1>2 DEF LedgerRows
<1>4. LedgerView'[r] = entry
  BY <1>1 DEF LedgerRows
<1>5. ASSUME NEW q \in DOMAIN LedgerView, q # r
      PROVE  LedgerView'[q] = LedgerView[q]
  <2>1. CASE q \in Begun
    BY <1>1, <1>5, <2>1 DEF LedgerRows
  <2>2. CASE q \in Retired
    <3>1. PICK d \in tombstone : d.request = q
      BY <2>2 DEF Retired
    <3>2. LedgerView[q] = [phase |-> d.status, input |-> d.input, reply |-> NoReply]
      BY <3>1 DEF LedgerRows
    <3>3. LedgerView'[q] = [phase |-> d.status, input |-> d.input, reply |-> NoReply]
      BY <3>1 DEF LedgerRows
    <3> QED  BY <3>2, <3>3
  <2> QED  BY <2>1, <2>2 DEF LedgerRows
<1>6. /\ LedgerView = [q \in DOMAIN LedgerView |-> LedgerView[q]]
      /\ LedgerView' = [q \in DOMAIN LedgerView' |-> LedgerView'[q]]
      /\ r \in DOMAIN LedgerView
  BY DEF LedgerRows
<1> HIDE DEF entry
<1> QED  BY <1>3, <1>4, <1>5, <1>6 DEF entry

LEMMA CommitAnswers ==
  ASSUME TypeOK, LedgerRows, LedgerRows', NEW r \in Requests, NEW g \in Generations,
         NEW y \in Replies, Commit(r, g, y)
  PROVE  Ledger!Answer(r, y)
<1>1. /\ r \in Begun /\ turn[r].status = "pending" /\ IsTurn(turn[r])
      /\ IsTable(turn, Requests) /\ tombstone' = tombstone
      /\ turn' = [turn EXCEPT ![r].status = "committed", ![r].reply = y, ![r].updated = now]
  BY DEF Commit, Pending, TypeOK, JournalTypeOK
<1> DEFINE row == [turn[r] EXCEPT !.status = "committed", !.reply = y, !.updated = now]
<1>2. turn' = [turn EXCEPT ![r] = row]
  BY <1>1 DEF IsTable, Begun
<1>3. row.status = "committed" /\ row.input = turn[r].input /\ row.reply = y
  BY <1>1 DEF IsTurn, TurnRow
<1>4. LedgerView' = [LedgerView EXCEPT ![r] =
        [phase |-> "committed", input |-> turn[r].input, reply |-> y]]
  <2> HIDE DEF row
  <2>1. LedgerView' = [LedgerView EXCEPT ![r] =
          [phase |-> row.status, input |-> row.input, reply |-> row.reply]]
    BY <1>1, <1>2, EndingIsLedgered
  <2> QED  BY <1>3, <2>1
<1>5. /\ r \in DOMAIN LedgerView
      /\ LedgerView[r] = [phase |-> "pending", input |-> turn[r].input, reply |-> turn[r].reply]
  BY <1>1 DEF LedgerRows
<1>6. [LedgerView EXCEPT ![r].phase = "committed", ![r].reply = y]
        = [LedgerView EXCEPT ![r] =
             [phase |-> "committed", input |-> turn[r].input, reply |-> y]]
  <2> DEFINE phased == [phase |-> "committed", input |-> turn[r].input, reply |-> turn[r].reply]
  <2>1. [LedgerView EXCEPT ![r].phase = "committed"] = [LedgerView EXCEPT ![r] = phased]
    <3>1. [LedgerView[r] EXCEPT !.phase = "committed"] = phased
      BY <1>5
    <3> QED  BY <3>1
  <2>2. [phased EXCEPT !.reply = y]
          = [phase |-> "committed", input |-> turn[r].input, reply |-> y]
    OBVIOUS
  <2> HIDE DEF phased
  <2>3. [[LedgerView EXCEPT ![r] = phased] EXCEPT ![r].reply = y]
          = [LedgerView EXCEPT ![r] = [phased EXCEPT !.reply = y]]
    BY <1>5
  <2> QED  BY <2>1, <2>2, <2>3
<1> QED  BY <1>4, <1>5, <1>6 DEF Ledger!Answer, Ledger!Used

LEMMA AbortAbandons ==
  ASSUME TypeOK, LedgerRows, LedgerRows', NEW r \in Requests, NEW g \in Generations, Abort(r, g)
  PROVE  Ledger!Abandon(r)
<1>1. /\ r \in Begun /\ turn[r].status = "pending" /\ IsTurn(turn[r])
      /\ IsTable(turn, Requests) /\ tombstone' = tombstone
      /\ turn' = [turn EXCEPT ![r].status = "aborted", ![r].updated = now]
  BY DEF Abort, Pending, TypeOK, JournalTypeOK
<1> DEFINE row == [turn[r] EXCEPT !.status = "aborted", !.updated = now]
<1>2. turn' = [turn EXCEPT ![r] = row]
  BY <1>1 DEF IsTable, Begun
<1>3. row.status = "aborted" /\ row.input = turn[r].input /\ row.reply = turn[r].reply
  BY <1>1 DEF IsTurn, TurnRow
<1>4. LedgerView' = [LedgerView EXCEPT ![r] =
        [phase |-> "aborted", input |-> turn[r].input, reply |-> turn[r].reply]]
  <2> HIDE DEF row
  <2>1. LedgerView' = [LedgerView EXCEPT ![r] =
          [phase |-> row.status, input |-> row.input, reply |-> row.reply]]
    BY <1>1, <1>2, EndingIsLedgered
  <2> QED  BY <1>3, <2>1
<1>5. /\ r \in DOMAIN LedgerView
      /\ LedgerView[r] = [phase |-> "pending", input |-> turn[r].input, reply |-> turn[r].reply]
  BY <1>1 DEF LedgerRows
<1>6. [LedgerView EXCEPT ![r].phase = "aborted"]
        = [LedgerView EXCEPT ![r] =
             [phase |-> "aborted", input |-> turn[r].input, reply |-> turn[r].reply]]
  <2>1. [LedgerView EXCEPT ![r].phase = "aborted"]
          = [LedgerView EXCEPT ![r] = [LedgerView[r] EXCEPT !.phase = "aborted"]]
    BY <1>5 DEF LedgerRows
  <2>2. [LedgerView[r] EXCEPT !.phase = "aborted"]
          = [phase |-> "aborted", input |-> turn[r].input, reply |-> turn[r].reply]
    BY <1>5
  <2> QED  BY <2>1, <2>2
<1> QED  BY <1>4, <1>5, <1>6 DEF Ledger!Abandon, Ledger!Used

LEMMA RetentionForgets ==
  ASSUME TypeOK, TombstonesFinal, LedgerRows, LedgerRows', NEW o \in Operators, ApplyRetention(o)
  PROVE  \E ids \in SUBSET Ledger!Used : Ledger!Forget(ids)
<1> DEFINE ids == Eligible(plan[o].cutoff)
           grave(r) == [request |-> r, input |-> turn[r].input, status |-> turn[r].status]
<1>1. /\ ids \subseteq Begun /\ \A r \in ids : turn[r].status \in {"committed", "aborted"}
      /\ Begun' = Begun \ ids /\ \A r \in Begun' : turn'[r] = turn[r]
      /\ tombstone' = tombstone \cup {grave(r) : r \in ids}
  BY RetirementStep
<1>2. \A r : /\ grave(r).request = r /\ grave(r).input = turn[r].input
             /\ grave(r).status = turn[r].status
  OBVIOUS
<1> HIDE DEF ids, grave
<1>3. Retired' = Retired \cup ids
  BY <1>1, <1>2 DEF Retired
<1>4. DOMAIN LedgerView' = DOMAIN LedgerView /\ ids \subseteq DOMAIN LedgerView
  BY <1>1, <1>3 DEF LedgerRows
<1>5. ASSUME NEW r \in ids
      PROVE  /\ LedgerView[r].phase # "pending"
             /\ LedgerView'[r] = [LedgerView[r] EXCEPT !.reply = NoReply]
  <2>1. grave(r) \in tombstone'
    BY <1>1
  <2>2. LedgerView'[grave(r).request] =
          [phase |-> grave(r).status, input |-> grave(r).input, reply |-> NoReply]
    BY <2>1 DEF LedgerRows
  <2>3. LedgerView'[r] = [phase |-> turn[r].status, input |-> turn[r].input, reply |-> NoReply]
    BY <1>2, <2>2
  <2>4. LedgerView[r] =
          [phase |-> turn[r].status, input |-> turn[r].input, reply |-> turn[r].reply]
    BY <1>1 DEF LedgerRows
  <2> QED  BY <1>1, <2>3, <2>4
<1>6. ASSUME NEW r \in DOMAIN LedgerView, r \notin ids
      PROVE  LedgerView'[r] = LedgerView[r]
  <2>1. CASE r \in Begun
    BY <1>1, <1>6, <2>1 DEF LedgerRows
  <2>2. CASE r \in Retired
    <3>1. PICK d \in tombstone : d.request = r
      BY <2>2 DEF Retired
    <3>2. LedgerView[r] = [phase |-> d.status, input |-> d.input, reply |-> NoReply]
      BY <3>1 DEF LedgerRows
    <3>3. LedgerView'[r] = [phase |-> d.status, input |-> d.input, reply |-> NoReply]
      BY <1>1, <3>1 DEF LedgerRows
    <3> QED  BY <3>2, <3>3
  <2> QED  BY <2>1, <2>2 DEF LedgerRows
<1>7. LedgerView' = [q \in DOMAIN LedgerView |->
                       IF q \in ids THEN [LedgerView[q] EXCEPT !.reply = NoReply]
                                    ELSE LedgerView[q]]
  <2>1. LedgerView' = [q \in DOMAIN LedgerView' |-> LedgerView'[q]]
    BY DEF LedgerRows
  <2> QED  BY <1>4, <1>5, <1>6, <2>1
<1> QED  BY <1>4, <1>5, <1>7 DEF Ledger!Forget, Ledger!Used

\* Every step of the journal is a step of the ledger or leaves it alone.
LEMMA LedgerStep ==
  ASSUME TypeOK, TombstonesFinal, LedgerRows, LedgerRows', [Next]_vars
  PROVE  [Ledger!Next]_LedgerView
<1>1. ASSUME tombstone' = tombstone, turn' = turn
      PROVE  LedgerView' = LedgerView
  BY <1>1, LedgerUnchanged DEF Begun
<1>2. CASE StoreWrite \/ Tick \/ UNCHANGED vars \/ \E o \in Operators, n \in Times : RetentionPlan(o, n)
  BY <1>1, <1>2 DEF StoreWrite, Tick, vars, journalVars, RetentionPlan
<1>3. ASSUME NEW r \in Requests, NEW i \in Inputs, Begin(r, i)
      PROVE  Ledger!Next
  BY <1>3, BeginOpens DEF Ledger!Next
<1>4. ASSUME NEW r \in Requests, NEW g \in Generations, Recover(r, g)
      PROVE  LedgerView' = LedgerView
  <2>1. /\ r \in Begun /\ IsTurn(turn[r]) /\ tombstone' = tombstone
        /\ turn' = [turn EXCEPT ![r].generation = @ + 1, ![r].updated = now]
    BY <1>4 DEF Recover, Pending, TypeOK, JournalTypeOK
  <2>2. Begun' = Begun
    BY <2>1 DEF Begun
  <2>3. \A q \in Begun : /\ turn'[q].status = turn[q].status
                         /\ turn'[q].input = turn[q].input
                         /\ turn'[q].reply = turn[q].reply
    BY <2>1 DEF Begun, IsTurn, TurnRow
  <2> QED  BY <2>1, <2>2, <2>3, LedgerUnchanged
<1>5. ASSUME NEW r \in Requests, NEW g \in Generations, NEW y \in Replies, Commit(r, g, y)
      PROVE  Ledger!Next
  BY <1>5, CommitAnswers DEF Ledger!Next
<1>6. ASSUME NEW r \in Requests, NEW g \in Generations, Abort(r, g)
      PROVE  Ledger!Next
  BY <1>6, AbortAbandons DEF Ledger!Next
<1>7. ASSUME NEW r \in Requests, NEW g \in Generations, NEW c \in Calls,
             \/ \E a \in Args : StartTool(r, g, c, a)
             \/ \E l \in Ttls : ActionEligible(r, g, c, l)
             \/ \E x \in Results : RecordResult(r, g, c, x)
             \/ \E p \in Payloads : RecordModelRequest(r, g, c, p)
             \/ \E x \in Responses : RecordModelResponse(r, g, c, x)
      PROVE  LedgerView' = LedgerView
  BY <1>1, <1>7 DEF StartTool, ActionEligible, RecordResult, RecordModelRequest,
                    RecordModelResponse
<1>8. ASSUME NEW o \in Operators, ApplyRetention(o)
      PROVE  Ledger!Next
  BY <1>8, RetentionForgets DEF Ledger!Next
<1> QED
  BY <1>2, <1>3, <1>4, <1>5, <1>6, <1>7, <1>8, Zenon DEF Next, FinishTool, FinishToolUnderLease

\* The journal implements the ledger: a request ID stands for one input forever, is
\* worked by one turn, answered or abandoned once, and never reused after retention.
THEOREM JournalImplementsLedger == Spec => ImplementsLedger
<1>1. Init => Ledger!Init
  <2> SUFFICES ASSUME Init PROVE LedgerView = << >>
    BY DEF Ledger!Init
  <2>1. Begun \cup Retired = {}
    BY DEF Init, Begun, Retired
  <2> QED  BY <2>1 DEF LedgerView
<1>2. TypeOK /\ TombstonesFinal /\ LedgerRows /\ LedgerRows' /\ [Next]_vars
        => [Ledger!Next]_LedgerView
  BY LedgerStep
<1> QED
  BY <1>1, <1>2, Typed, OneTombstone, LedgerIsRead, PTL
  DEF Spec, ImplementsLedger, Ledger!Spec

=============================================================================
